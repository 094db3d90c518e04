------------------------------ MODULE RingQueue ------------------------------
(***************************************************************************)
(* RingQueue<T, N> of inc/os/CircularQueue.hpp: a ring of N + 1 slots       *)
(* without a lock, for one pushing and one popping thread.  Each thread     *)
(* writes its own index only and reads the other's; every access of an      *)
(* index of the other thread and every access of a slot is a step of its    *)
(* own.  The acquire loads and release stores order the slot accesses, so   *)
(* steps interleave as in the program.  The class does not enforce the one  *)
(* thread per side; two pushing threads would overwrite each other's slot.  *)
(***************************************************************************)
EXTENDS Integers

CONSTANTS
  Producer, Consumer,   \* the two threads
  Values, NoValue, NULL,
  N

ASSUME ThreadAssumption == Producer # Consumer
ASSUME ValueAssumption == NoValue \notin Values
ASSUME CapacityAssumption == N \in Nat

VARIABLES
  data_, read_idx_, write_idx_,
  pc,     \* per thread: "load", "slot" or "store", the next access of a call
  item,   \* the value pop() has moved out of its slot
  req, res

ringVars == <<data_, read_idx_, write_idx_>>
vars == <<ringVars, pc, item, req, res>>

Threads == {Producer, Consumer}
Slots == 0 .. N

\* Next(current_idx)
NextIdx(i) == (i + 1) % (N + 1)

\* The number of values between the two indices.
Count == (write_idx_ - read_idx_) % (N + 1)

\* The values in the queue: the oldest may have left its slot already while
\* read_idx_ still keeps the slot.
Queue ==
  [i \in 1 .. Count |->
     IF i = 1 /\ pc[Consumer] = "store" THEN item
     ELSE data_[(read_idx_ + i - 1) % (N + 1)]]

Fifo == INSTANCE BoundedFifo WITH q <- Queue, Capacity <- N

ASSUME NullAssumption == NULL \notin Fifo!Requests

\* RingQueue()
Init ==
  /\ data_ = [i \in Slots |-> NoValue]
  /\ read_idx_ = 0 /\ write_idx_ = 0
  /\ pc = [t \in Threads |-> "load"]
  /\ item = NoValue
  /\ req = [t \in Threads |-> NULL]
  /\ res = [t \in Threads |-> Fifo!Result(FALSE, NoValue)]

-----------------------------------------------------------------------------
\* A thread enters push or pop.
Call(t, r) ==
  /\ req[t] = NULL
  /\ req' = [req EXCEPT ![t] = r]
  /\ UNCHANGED <<ringVars, pc, item, res>>

\* The call of thread t returns r and its program counter starts over.
Return(t, r) ==
  /\ req' = [req EXCEPT ![t] = NULL]
  /\ res' = [res EXCEPT ![t] = r]
  /\ pc' = [pc EXCEPT ![t] = "load"]

\* Faulty variants: a full ring is not recognised; an empty ring passes for a
\* full one.
PushLoadUnchecked ==
  /\ req[Producer] # NULL /\ pc[Producer] = "load"
  /\ pc' = [pc EXCEPT ![Producer] = "slot"]
  /\ UNCHANGED <<ringVars, item, req, res>>
PushLoadEmptyIsFull ==
  /\ req[Producer] # NULL /\ pc[Producer] = "load"
  /\ write_idx_ # read_idx_
  /\ pc' = [pc EXCEPT ![Producer] = "slot"]
  /\ UNCHANGED <<ringVars, item, req, res>>

\* pushImpl compares with read_idx_: go on, return false, or (block) spin.
PushLoad ==
  /\ req[Producer] # NULL /\ pc[Producer] = "load"
  /\ \/ /\ NextIdx(write_idx_) # read_idx_
        /\ pc' = [pc EXCEPT ![Producer] = "slot"]
        /\ UNCHANGED <<req, res>>
     \/ /\ NextIdx(write_idx_) = read_idx_ /\ ~req[Producer].block
        /\ Return(Producer, Fifo!Result(FALSE, NoValue))
  /\ UNCHANGED <<ringVars, item>>

\* data_[current_write_idx] = item
PushSlot ==
  /\ pc[Producer] = "slot"
  /\ data_' = [data_ EXCEPT ![write_idx_] = req[Producer].v]
  /\ pc' = [pc EXCEPT ![Producer] = "store"]
  /\ UNCHANGED <<read_idx_, write_idx_, item, req, res>>

\* write_idx_.store(next_write_idx); return true
PushStore ==
  /\ pc[Producer] = "store"
  /\ write_idx_' = NextIdx(write_idx_)
  /\ Return(Producer, Fifo!Result(TRUE, NoValue))
  /\ UNCHANGED <<data_, read_idx_, item>>

\* Both overloads of pop compare with write_idx_.
PopLoad ==
  /\ req[Consumer] # NULL /\ pc[Consumer] = "load"
  /\ \/ /\ read_idx_ # write_idx_
        /\ pc' = [pc EXCEPT ![Consumer] = "slot"]
        /\ UNCHANGED <<req, res>>
     \/ /\ read_idx_ = write_idx_ /\ ~req[Consumer].block
        /\ Return(Consumer, Fifo!Result(FALSE, NoValue))
  /\ UNCHANGED <<ringVars, item>>

\* Faulty variant: the index is moved on before the slot is read.
PopSlotNext ==
  /\ pc[Consumer] = "slot"
  /\ item' = data_[NextIdx(read_idx_)]
  /\ data_' = [data_ EXCEPT ![NextIdx(read_idx_)] = NoValue]
  /\ pc' = [pc EXCEPT ![Consumer] = "store"]
  /\ UNCHANGED <<read_idx_, write_idx_, req, res>>

\* item = std::move(data_[current_read_idx])
PopSlot ==
  /\ pc[Consumer] = "slot"
  /\ item' = data_[read_idx_]
  /\ data_' = [data_ EXCEPT ![read_idx_] = NoValue]
  /\ pc' = [pc EXCEPT ![Consumer] = "store"]
  /\ UNCHANGED <<read_idx_, write_idx_, req, res>>

\* read_idx_.store(Next(current_read_idx)); return true
PopStore ==
  /\ pc[Consumer] = "store"
  /\ read_idx_' = NextIdx(read_idx_)
  /\ item' = NoValue
  /\ Return(Consumer, Fifo!Result(TRUE, item))
  /\ UNCHANGED <<data_, write_idx_>>

PushStep == PushLoad \/ PushSlot \/ PushStore
PopStep == PopLoad \/ PopSlot \/ PopStore

Next ==
  \/ \E r \in Fifo!PushCalls : Call(Producer, r)
  \/ \E r \in Fifo!PopCalls : Call(Consumer, r)
  \/ PushStep
  \/ PopStep

Spec == Init /\ [][Next]_vars

\* Both threads run; nothing makes them call again.
FairSpec == Spec /\ WF_vars(PushStep) /\ WF_vars(PopStep)

-----------------------------------------------------------------------------
(* Properties *)

\* Types and ranges.
TypeOK ==
  /\ data_ \in [Slots -> Values \cup {NoValue}]
  /\ read_idx_ \in Slots /\ write_idx_ \in Slots
  /\ pc \in [Threads -> {"load", "slot", "store"}]
  /\ item \in Values \cup {NoValue}
  /\ req \in [Threads -> Fifo!Requests \cup {NULL}]
  /\ res \in [Threads -> Fifo!Results]

\* The two threads never access the same slot at the same time: the slot the
\* producer fills is free, the one the consumer empties is full, although
\* each decided so from an index the other has moved since.
NoSlotRace ==
  ~(pc[Producer] = "slot" /\ pc[Consumer] = "slot" /\ write_idx_ = read_idx_)

\* The ring is a first-in first-out queue of N values (one of the N + 1 slots
\* stays free): nothing is lost, duplicated, reordered or read before it is
\* written, and a call is refused only when the ring is full or empty at the
\* moment the other thread's index is read.
ImplementsFifo == Fifo!Spec

\* Two blocking calls never spin for ever on each other: of a push and a pop
\* in progress, one returns.
OneSideReturns ==
  req[Producer] # NULL /\ req[Consumer] # NULL
    ~> req[Producer] = NULL \/ req[Consumer] = NULL

=============================================================================
