---------------------------- MODULE CircularQueue ----------------------------
(***************************************************************************)
(* CircularQueue<T> of inc/os/CircularQueue.hpp: a ring buffer under one     *)
(* mutex with the condition variables not_full_ and not_empty_.  A call that *)
(* goes to sleep gives the mutex up, so each stretch from taking the mutex   *)
(* to sleeping or returning is one action; a thread that is woken up must    *)
(* take the mutex again and look again, and others may come before it.       *)
(***************************************************************************)
EXTENDS Integers, FiniteSets

CONSTANTS Threads, Values, NoValue, NULL, Capacity

ASSUME ThreadAssumption == IsFiniteSet(Threads)
ASSUME ValueAssumption == NoValue \notin Values
ASSUME CapacityAssumption == Capacity \in Nat

VARIABLES
  buffer_, head_, tail_, size_,
  req,      \* per thread: the call of push or pop it is in, or NULL
  asleep,   \* threads in wait(): on not_full_ if pushing, else on not_empty_
  res       \* per thread: what its last call returned

bufferVars == <<buffer_, head_, tail_, size_>>
vars == <<bufferVars, req, asleep, res>>

Slots == 0 .. Capacity - 1

\* The values in the queue, oldest first.
Queue == [i \in 1 .. size_ |-> buffer_[(head_ + i - 1) % Capacity]]

Fifo == INSTANCE BoundedFifo WITH q <- Queue

ASSUME NullAssumption == NULL \notin Fifo!Requests

\* The constructor: new T[capacity] holds no value anyone stored.
Init ==
  /\ buffer_ = [i \in Slots |-> NoValue]
  /\ head_ = 0 /\ tail_ = 0 /\ size_ = 0
  /\ req = [t \in Threads |-> NULL]
  /\ asleep = {}
  /\ res = [t \in Threads |-> Fifo!Result(FALSE, NoValue)]

-----------------------------------------------------------------------------
\* The threads in a call of push or pop, and those of them that sleep or do
\* not: the latter wait for the mutex only.
Callers(op) == {t \in Threads : req[t] # NULL /\ req[t].op = op}
Sleepers(op) == Callers(op) \cap asleep
Awake(op) == Callers(op) \ asleep

\* Thread t has entered push or pop and does not hold the mutex yet.
Call(t, r) ==
  /\ req[t] = NULL
  /\ req' = [req EXCEPT ![t] = r]
  /\ UNCHANGED <<bufferVars, asleep, res>>

\* Faulty variant: a push wakes a popper only if the queue was empty.
NotifyFirstOnly(op) ==
  IF op = "pop" /\ size_ # 0 THEN UNCHANGED asleep
  ELSE \/ Sleepers(op) = {} /\ UNCHANGED asleep
       \/ \E w \in Sleepers(op) : asleep' = asleep \ {w}

\* notify_one() on the condition variable the callers of op sleep on.
NotifyOne(op) ==
  \/ Sleepers(op) = {} /\ UNCHANGED asleep
  \/ \E w \in Sleepers(op) : asleep' = asleep \ {w}

Return(t, r) ==
  /\ req' = [req EXCEPT ![t] = NULL]
  /\ res' = [res EXCEPT ![t] = r]

\* The index after i.
Advance(i) == (i + 1) % Capacity

\* push() finds room.
Push(t) ==
  /\ t \in Awake("push") /\ size_ # Capacity
  /\ buffer_' = [buffer_ EXCEPT ![tail_] = req[t].v]
  /\ tail_' = Advance(tail_)
  /\ size_' = size_ + 1
  /\ NotifyOne("pop")
  /\ Return(t, Fifo!Result(TRUE, NoValue))
  /\ UNCHANGED head_

\* pop() finds a value; the slot it is moved from holds nothing to rely on.
Pop(t) ==
  /\ t \in Awake("pop") /\ size_ # 0
  /\ buffer_' = [buffer_ EXCEPT ![head_] = NoValue]
  /\ head_' = Advance(head_)
  /\ size_' = size_ - 1
  /\ NotifyOne("push")
  /\ Return(t, Fifo!Result(TRUE, buffer_[head_]))
  /\ UNCHANGED tail_

\* Faulty variant: full one value too early.
StuckEarly(t) ==
  \/ t \in Awake("push") /\ size_ >= Capacity - 1
  \/ t \in Awake("pop") /\ size_ = 0

\* The call cannot be served: full for push, empty for pop.
Stuck(t) ==
  \/ t \in Awake("push") /\ size_ = Capacity
  \/ t \in Awake("pop") /\ size_ = 0

\* block = true: wait() sleeps and gives the mutex up.
Wait(t) ==
  /\ Stuck(t) /\ req[t].block
  /\ asleep' = asleep \cup {t}
  /\ UNCHANGED <<bufferVars, req, res>>

\* block = false: return false.
Fail(t) ==
  /\ Stuck(t) /\ ~req[t].block
  /\ Return(t, Fifo!Result(FALSE, NoValue))
  /\ UNCHANGED <<bufferVars, asleep>>

\* wait() may return without a notification.
Spurious(t) ==
  /\ t \in asleep
  /\ asleep' = asleep \ {t}
  /\ UNCHANGED <<bufferVars, req, res>>

Next ==
  \E t \in Threads :
    \/ \E r \in Fifo!Requests : Call(t, r)
    \/ Push(t) \/ Pop(t) \/ Wait(t) \/ Fail(t) \/ Spurious(t)

Spec == Init /\ [][Next]_vars

-----------------------------------------------------------------------------
(* Properties *)

\* Types and ranges; tail_ is where head_ and size_ say it is.
TypeOK ==
  /\ buffer_ \in [Slots -> Values \cup {NoValue}]
  /\ size_ \in 0 .. Capacity
  /\ head_ \in Nat /\ tail_ \in Nat
  /\ Capacity > 0 => head_ \in Slots /\ tail_ = (head_ + size_) % Capacity
  /\ req \in [Threads -> Fifo!Requests \cup {NULL}]
  /\ asleep \subseteq {t \in Threads : req[t] # NULL /\ req[t].block}
  /\ res \in [Threads -> Fifo!Results]

\* The ring buffer is a bounded first-in first-out queue: no value is lost,
\* duplicated, reordered or made up by the wrap-around of head_ and tail_,
\* and a non-blocking call is refused only when it cannot be served.
ImplementsFifo == Fifo!Spec

\* notify_one() wakes enough threads: while somebody sleeps on not_empty_,
\* every value in the queue has a popper that is awake to take it, and while
\* somebody sleeps on not_full_, every free slot has a pusher that is awake.
\* So no thread sleeps over work that nobody else is about to do, whatever
\* callers overtake a woken thread.
WakeupsSuffice ==
  /\ Sleepers("pop") # {} => size_ <= Cardinality(Awake("pop"))
  /\ Sleepers("push") # {} => Capacity - size_ <= Cardinality(Awake("push"))

=============================================================================
