--------------------------- MODULE RingQueueProofs ---------------------------
(***************************************************************************)
(* Proofs about RingQueue, for every N (zero included) and every set of     *)
(* values.                                                                  *)
(***************************************************************************)
EXTENDS RingQueue, Sequences, TLAPS

\* The next slot, and how many values there are, without modulo.
LEMMA NextSlot ==
  ASSUME NEW i \in Slots
  PROVE  NextIdx(i) = (IF i = N THEN 0 ELSE i + 1) /\ NextIdx(i) \in Slots
  BY CapacityAssumption DEF NextIdx, Slots

\* What a thread knows between its look at the other's index and its own
\* store: the slot it works on stays its own, because the other thread only
\* moves its index away from it.  The last two lines say which calls the two
\* threads make.
Guards ==
  /\ pc[Producer] # "load" =>
       req[Producer] # NULL /\ NextIdx(write_idx_) # read_idx_
  /\ pc[Consumer] # "load" =>
       req[Consumer] # NULL /\ read_idx_ # write_idx_
  /\ pc[Producer] = "store" => data_[write_idx_] = req[Producer].v
  /\ req[Producer] \in Fifo!PushCalls \cup {NULL}
  /\ req[Consumer] \in Fifo!PopCalls \cup {NULL}

RingInv == TypeOK /\ Guards

\* A call that returns leaves well-typed threads.
LEMMA ReturnTypes ==
  ASSUME TypeOK, NEW t \in Threads, NEW r \in Fifo!Results, Return(t, r)
  PROVE  /\ pc' \in [Threads -> {"load", "slot", "store"}]
         /\ req' \in [Threads -> Fifo!Requests \cup {NULL}]
         /\ res' \in [Threads -> Fifo!Results]
  BY DEF TypeOK, Return

LEMMA InitInv ==
  ASSUME Init
  PROVE  RingInv
  <1>1. TypeOK
    BY CapacityAssumption DEF Init, TypeOK, Slots, Fifo!Results, Fifo!Result
  <1>2. Guards
    BY DEF Init, Guards, Threads
  <1> QED
    BY <1>1, <1>2 DEF RingInv

LEMMA StepKeepsInv ==
  ASSUME RingInv, [Next]_vars
  PROVE  RingInv'
  <1> USE DEF Threads
  <1>r. Fifo!Result(FALSE, NoValue) \in Fifo!Results
    BY DEF Fifo!Results, Fifo!Result
  <1>0. /\ TypeOK /\ Guards
        /\ NextIdx(read_idx_) \in Slots /\ NextIdx(write_idx_) \in Slots
    BY NextSlot DEF RingInv, TypeOK
  <1>1. ASSUME NEW t \in Threads, NEW r \in Fifo!Requests, Call(t, r),
               \/ t = Producer /\ r \in Fifo!PushCalls
               \/ t = Consumer /\ r \in Fifo!PopCalls
        PROVE  RingInv'
    <2>1. TypeOK'
      BY <1>0, <1>1 DEF Call, ringVars, TypeOK
    <2>2. Guards'
      BY <1>0, <1>1, ThreadAssumption DEF Call, ringVars, TypeOK, Guards, NextIdx
    <2> QED
      BY <2>1, <2>2 DEF RingInv
  <1>2. CASE PushLoad
    <2>1. TypeOK'
      <3>1. CASE Return(Producer, Fifo!Result(FALSE, NoValue))
        BY <1>0, <1>2, <1>r, <3>1, ReturnTypes DEF PushLoad, ringVars, TypeOK
      <3>2. CASE pc' = [pc EXCEPT ![Producer] = "slot"] /\ UNCHANGED <<req, res>>
        BY <1>0, <1>2, <3>2 DEF PushLoad, ringVars, TypeOK
      <3> QED
        BY <1>2, <3>1, <3>2 DEF PushLoad
    <2>2. Guards'
      BY <1>0, <1>2, ThreadAssumption
      DEF PushLoad, Return, ringVars, TypeOK, Guards, NextIdx
    <2> QED
      BY <2>1, <2>2 DEF RingInv
  <1>3. CASE PushSlot
    <2>1. req[Producer].v \in Values
      BY <1>0, <1>3 DEF PushSlot, Guards, Fifo!PushCalls
    <2>2. TypeOK'
      BY <1>0, <1>3, <2>1 DEF PushSlot, TypeOK
    <2>3. Guards'
      BY <1>0, <1>3, ThreadAssumption DEF PushSlot, TypeOK, Guards, NextIdx
    <2> QED
      BY <2>2, <2>3 DEF RingInv
  <1>4. CASE PushStore
    <2>1. TypeOK'
      <3>1. Fifo!Result(TRUE, NoValue) \in Fifo!Results
        BY DEF Fifo!Results, Fifo!Result
      <3> QED
        BY <1>0, <1>4, <3>1, ReturnTypes DEF PushStore, TypeOK
    <2>2. Guards'
      BY <1>0, <1>4, ThreadAssumption DEF PushStore, Return, TypeOK, Guards
    <2> QED
      BY <2>1, <2>2 DEF RingInv
  <1>5. CASE PopLoad
    <2>1. TypeOK'
      <3>1. CASE Return(Consumer, Fifo!Result(FALSE, NoValue))
        BY <1>0, <1>5, <1>r, <3>1, ReturnTypes DEF PopLoad, ringVars, TypeOK
      <3>2. CASE pc' = [pc EXCEPT ![Consumer] = "slot"] /\ UNCHANGED <<req, res>>
        BY <1>0, <1>5, <3>2 DEF PopLoad, ringVars, TypeOK
      <3> QED
        BY <1>5, <3>1, <3>2 DEF PopLoad
    <2>2. Guards'
      BY <1>0, <1>5, ThreadAssumption
      DEF PopLoad, Return, ringVars, TypeOK, Guards, NextIdx
    <2> QED
      BY <2>1, <2>2 DEF RingInv
  <1>6. CASE PopSlot
    <2>1. TypeOK'
      BY <1>0, <1>6 DEF PopSlot, TypeOK
    <2>2. Guards'
      BY <1>0, <1>6, ThreadAssumption DEF PopSlot, TypeOK, Guards, NextIdx
    <2> QED
      BY <2>1, <2>2 DEF RingInv
  <1>7. CASE PopStore
    <2>1. TypeOK'
      <3>1. Fifo!Result(TRUE, item) \in Fifo!Results
        BY <1>0 DEF TypeOK, Fifo!Results, Fifo!Result
      <3> QED
        BY <1>0, <1>7, <3>1, ReturnTypes DEF PopStore, TypeOK
    <2>2. NextIdx(write_idx_) # NextIdx(read_idx_)
      <3>1. read_idx_ # write_idx_ /\ read_idx_ \in Slots /\ write_idx_ \in Slots
        BY <1>0, <1>7 DEF PopStore, Guards, TypeOK
      <3> QED
        BY <3>1, NextSlot, CapacityAssumption DEF Slots
    <2>3. Guards'
      BY <1>0, <1>7, <2>2, ThreadAssumption
      DEF PopStore, Return, TypeOK, Guards, NextIdx
    <2> QED
      BY <2>1, <2>3 DEF RingInv
  <1>8. CASE UNCHANGED vars
    BY <1>0, <1>8 DEF vars, ringVars, RingInv, TypeOK, Guards, NextIdx
  <1> QED
    BY <1>1, <1>2, <1>3, <1>4, <1>5, <1>6, <1>7, <1>8
    DEF Next, PushStep, PopStep, Fifo!Requests

THEOREM Invariance == Spec => []RingInv
  BY InitInv, StepKeepsInv, PTL DEF Spec

\* Type correctness: no access of data_ is out of bounds.
THEOREM TypeCorrect == Spec => []TypeOK
  <1>1. RingInv => TypeOK
    BY DEF RingInv
  <1> QED
    BY <1>1, Invariance, PTL

\* The two threads never access one slot at the same time.
THEOREM RaceFree == Spec => []NoSlotRace
  <1>1. RingInv => NoSlotRace
    BY DEF RingInv, Guards, NoSlotRace
  <1> QED
    BY <1>1, Invariance, PTL

-----------------------------------------------------------------------------
(* The ring implements the bounded queue *)

\* The slot of the i-th value, counted around the end of the ring.
Slot(i) == IF read_idx_ + i - 1 <= N THEN read_idx_ + i - 1
           ELSE read_idx_ + i - 1 - (N + 1)

\* Where the values of the abstract queue are.
QueueShape ==
  /\ Count = IF read_idx_ <= write_idx_ THEN write_idx_ - read_idx_
             ELSE write_idx_ - read_idx_ + N + 1
  /\ Count \in 0 .. N
  /\ Queue \in Seq(Values \cup {NoValue}) /\ Len(Queue) = Count
  /\ \A i \in 1 .. Count :
       /\ Slot(i) \in Slots
       /\ Queue[i] = IF i = 1 /\ pc[Consumer] = "store" THEN item
                     ELSE data_[Slot(i)]

LEMMA QueueSlots == RingInv => QueueShape
  <1> SUFFICES ASSUME RingInv PROVE QueueShape
    OBVIOUS
  <1>1. /\ N \in Nat /\ read_idx_ \in Nat /\ write_idx_ \in Nat
        /\ read_idx_ <= N /\ write_idx_ <= N
        /\ data_ \in [Slots -> Values \cup {NoValue}]
        /\ item \in Values \cup {NoValue}
    BY CapacityAssumption DEF RingInv, TypeOK, Slots
  <1>2. Count = IF read_idx_ <= write_idx_ THEN write_idx_ - read_idx_
                ELSE write_idx_ - read_idx_ + N + 1
    BY <1>1 DEF Count
  <1>3. Count \in 0 .. N
    BY <1>1, <1>2
  <1>4. ASSUME NEW i \in 1 .. Count
        PROVE  (read_idx_ + i - 1) % (N + 1) = Slot(i) /\ Slot(i) \in Slots
    BY <1>1, <1>3 DEF Slot, Slots
  <1>5. \A i \in 1 .. Count :
          Queue[i] = IF i = 1 /\ pc[Consumer] = "store" THEN item ELSE data_[Slot(i)]
    BY <1>4 DEF Queue
  <1>6. \A i \in 1 .. Count :
          (IF i = 1 /\ pc[Consumer] = "store" THEN item
           ELSE data_[(read_idx_ + i - 1) % (N + 1)]) \in Values \cup {NoValue}
    BY <1>1, <1>4
  <1>7. Queue \in Seq(Values \cup {NoValue}) /\ Len(Queue) = Count
    BY <1>3, <1>6 DEF Queue
  <1> QED
    BY <1>2, <1>3, <1>4, <1>5, <1>7 DEF QueueShape

\* Two sequences of the same length with the same elements are equal.
LEMMA SameSequence ==
  ASSUME NEW S, NEW a \in Seq(S), NEW b \in Seq(S), Len(a) = Len(b),
         \A i \in 1 .. Len(a) : a[i] = b[i]
  PROVE  a = b
  OBVIOUS

LEMMA StoreAppends ==
  ASSUME RingInv, RingInv', PushStore
  PROVE  Len(Queue) < N /\ Queue' = Append(Queue, req[Producer].v)
  <1>1. QueueShape /\ QueueShape'
    BY QueueSlots, PTL
  <1>2. /\ N \in Nat /\ read_idx_ \in Nat /\ write_idx_ \in Nat
        /\ read_idx_ <= N /\ write_idx_ <= N
        /\ write_idx_ \in Slots
    BY CapacityAssumption DEF RingInv, TypeOK, Slots
  <1>3. /\ write_idx_' = (IF write_idx_ = N THEN 0 ELSE write_idx_ + 1)
        /\ write_idx_' # read_idx_
    BY <1>2, NextSlot DEF PushStore, RingInv, Guards
  <1>4. /\ read_idx_' = read_idx_ /\ data_' = data_ /\ item' = item
        /\ pc'[Consumer] = pc[Consumer]
        /\ data_[write_idx_] = req[Producer].v
    BY ThreadAssumption DEF PushStore, Return, RingInv, Guards, TypeOK, Threads
  <1>5. Count' = Count + 1 /\ Count \in Nat /\ Count < N
    BY <1>1, <1>2, <1>3, <1>4 DEF QueueShape
  <1>6. Slot(Count + 1) = write_idx_ /\ \A i : Slot(i)' = Slot(i)
    BY <1>1, <1>2, <1>4 DEF QueueShape, Slot
  <1>7. Count = 0 => pc[Consumer] # "store"
    BY <1>1, <1>2 DEF QueueShape, RingInv, Guards
  <1>8. Queue'[Count + 1] = req[Producer].v
    BY <1>1, <1>4, <1>5, <1>6, <1>7 DEF QueueShape
  <1>9. \A i \in 1 .. Count : Queue'[i] = Queue[i]
    BY <1>1, <1>4, <1>5, <1>6 DEF QueueShape
  <1>10. /\ Queue \in Seq(Values \cup {NoValue}) /\ Len(Queue) = Count
         /\ Queue' \in Seq(Values \cup {NoValue}) /\ Len(Queue') = Count + 1
    BY <1>1, <1>5 DEF QueueShape
  <1>11. req[Producer].v \in Values \cup {NoValue}
    BY <1>5, <1>8, <1>10
  <1>12. Queue' = Append(Queue, req[Producer].v)
    BY <1>5, <1>8, <1>9, <1>10, <1>11
  <1> QED
    BY <1>5, <1>10, <1>12

LEMMA StoreRemoves ==
  ASSUME RingInv, RingInv', PopStore
  PROVE  Queue # <<>> /\ Queue' = Tail(Queue) /\ item = Head(Queue)
  <1>1. QueueShape /\ QueueShape'
    BY QueueSlots, PTL
  <1>2. /\ N \in Nat /\ read_idx_ \in Nat /\ write_idx_ \in Nat
        /\ read_idx_ <= N /\ write_idx_ <= N /\ read_idx_ \in Slots
        /\ read_idx_ # write_idx_ /\ pc[Consumer] = "store"
    BY CapacityAssumption DEF RingInv, TypeOK, Slots, Guards, PopStore
  <1>3. read_idx_' = (IF read_idx_ = N THEN 0 ELSE read_idx_ + 1)
    BY <1>2, NextSlot DEF PopStore
  <1>4. write_idx_' = write_idx_ /\ data_' = data_ /\ pc'[Consumer] = "load"
    BY DEF PopStore, Return, RingInv, TypeOK, Threads
  <1>5. Count' = Count - 1 /\ Count \in Nat /\ Count > 0
    BY <1>1, <1>2, <1>3, <1>4 DEF QueueShape
  <1>6. \A i \in 1 .. Count - 1 : Slot(i)' = Slot(i + 1)
    BY <1>1, <1>2, <1>3, <1>5 DEF QueueShape, Slot
  <1>7. ASSUME NEW i \in 1 .. Count - 1
        PROVE  Queue'[i] = Queue[i + 1]
    <2>1. Queue'[i] = data_'[Slot(i)']
      BY <1>1, <1>4, <1>5 DEF QueueShape
    <2>2. i + 1 \in 1 .. Count /\ i + 1 # 1
      BY <1>5
    <2>3. Queue[i + 1] = data_[Slot(i + 1)]
      BY <1>1, <2>2 DEF QueueShape
    <2> QED
      BY <1>4, <1>6, <2>1, <2>3
  <1>8. /\ Queue \in Seq(Values \cup {NoValue}) /\ Len(Queue) = Count
        /\ Queue' \in Seq(Values \cup {NoValue}) /\ Len(Queue') = Count - 1
        /\ Queue[1] = item
    <2>1. 1 \in 1 .. Count
      BY <1>5
    <2>2. Queue[1] = item
      BY <1>1, <1>2, <2>1 DEF QueueShape
    <2> QED
      BY <1>1, <1>5, <2>2 DEF QueueShape
  <1>9. Queue' = Tail(Queue)
    BY <1>5, <1>7, <1>8
  <1> QED
    BY <1>5, <1>8, <1>9

\* Filling the free slot and emptying the first full one change no value of
\* the queue.
LEMMA SlotStepsStutter ==
  ASSUME RingInv, RingInv', PushSlot \/ PopSlot
  PROVE  Queue' = Queue
  <1>1. QueueShape /\ QueueShape'
    BY QueueSlots, PTL
  <1>2. /\ N \in Nat /\ read_idx_ \in Nat /\ write_idx_ \in Nat
        /\ read_idx_ <= N /\ write_idx_ <= N
        /\ data_ \in [Slots -> Values \cup {NoValue}]
    BY CapacityAssumption DEF RingInv, TypeOK, Slots
  <1>3. read_idx_' = read_idx_ /\ write_idx_' = write_idx_
    BY DEF PushSlot, PopSlot
  <1>4. Count' = Count /\ Count \in Nat /\ \A i : Slot(i)' = Slot(i)
    BY <1>1, <1>2, <1>3 DEF QueueShape, Slot
  <1>5. \A i \in 1 .. Count : Queue'[i] = Queue[i]
    <2>1. CASE PushSlot
      <3>1. \A i \in 1 .. Count : Slot(i) # write_idx_
        BY <1>1, <1>2 DEF QueueShape, Slot
      <3>2. /\ item' = item /\ pc'[Consumer] = pc[Consumer]
            /\ data_' = [data_ EXCEPT ![write_idx_] = req[Producer].v]
        BY <2>1, ThreadAssumption DEF PushSlot, RingInv, TypeOK, Threads
      <3>3. \A i \in 1 .. Count : data_'[Slot(i)] = data_[Slot(i)]
        BY <1>1, <1>2, <3>1, <3>2 DEF QueueShape
      <3> QED
        BY <1>1, <1>4, <3>2, <3>3 DEF QueueShape
    <2>2. CASE PopSlot
      <3>1. Slot(1) = read_idx_ /\ \A i \in 2 .. Count : Slot(i) # read_idx_
        BY <1>1, <1>2 DEF QueueShape, Slot
      <3>2. /\ item' = data_[read_idx_] /\ pc[Consumer] = "slot"
            /\ pc'[Consumer] = "store"
            /\ data_' = [data_ EXCEPT ![read_idx_] = NoValue]
        BY <2>2 DEF PopSlot, RingInv, TypeOK, Threads
      <3>3. \A i \in 2 .. Count : data_'[Slot(i)] = data_[Slot(i)]
        BY <1>1, <1>2, <3>1, <3>2 DEF QueueShape
      <3> QED
        BY <1>1, <1>4, <3>1, <3>2, <3>3 DEF QueueShape
    <2> QED
      BY <2>1, <2>2
  <1>6. /\ Queue \in Seq(Values \cup {NoValue}) /\ Len(Queue) = Count
        /\ Queue' \in Seq(Values \cup {NoValue}) /\ Len(Queue') = Count
    BY <1>1, <1>4 DEF QueueShape
  <1> QED
    BY <1>5, <1>6, SameSequence

\* A step that leaves the ring alone and does not move the consumer to or from
\* its store leaves the queue alone.
LEMMA SameRingSameQueue ==
  ASSUME UNCHANGED ringVars, item' = item,
         pc'[Consumer] = "store" <=> pc[Consumer] = "store"
  PROVE  Queue' = Queue
  <1>1. Count' = Count
    BY DEF Count, ringVars
  <1> QED
    BY <1>1 DEF Queue, ringVars

LEMMA StepImplements ==
  ASSUME RingInv, RingInv', [Next]_vars
  PROVE  [Fifo!Next]_(Fifo!fifoVars)
  <1>0. QueueShape /\ pc \in [Threads -> {"load", "slot", "store"}]
    BY QueueSlots DEF RingInv, TypeOK
  <1>1. ASSUME NEW t \in Threads, NEW r \in Fifo!Requests, Call(t, r)
        PROVE  Fifo!Call(t, r)
    BY <1>1, SameRingSameQueue DEF Call, Fifo!Call
  <1>2. CASE PushLoad
    <2>1. Queue' = Queue
      BY <1>0, <1>2, ThreadAssumption, SameRingSameQueue DEF PushLoad, Return, Threads
    <2>2. CASE UNCHANGED <<req, res>>
      BY <2>1, <2>2 DEF Fifo!fifoVars
    <2>3. CASE /\ NextIdx(write_idx_) = read_idx_ /\ ~req[Producer].block
               /\ Return(Producer, Fifo!Result(FALSE, NoValue))
      <3>1. Len(Queue) = N
        <4>1. write_idx_ \in Slots /\ read_idx_ = IF write_idx_ = N THEN 0 ELSE write_idx_ + 1
          BY <2>3, NextSlot DEF RingInv, TypeOK
        <4> QED
          BY <1>0, <4>1, CapacityAssumption DEF QueueShape, Slots
      <3>2. req[Producer] \in Fifo!PushCalls
        BY <1>2 DEF PushLoad, RingInv, Guards
      <3>3. Fifo!Return(Producer, Fifo!Result(FALSE, NoValue))
        BY <2>3 DEF Return, Fifo!Return
      <3>4. Fifo!RefusePut(Producer)
        BY <2>1, <2>3, <3>1, <3>2, <3>3 DEF Fifo!RefusePut
      <3> QED
        BY <3>4 DEF Fifo!Next, Threads
    <2> QED
      BY <1>2, <2>2, <2>3 DEF PushLoad
  <1>3. CASE PushSlot \/ PopSlot
    <2>1. Queue' = Queue
      BY <1>3, SlotStepsStutter
    <2> QED
      BY <1>3, <2>1 DEF PushSlot, PopSlot, Fifo!fifoVars
  <1>4. CASE PushStore
    <2>1. Len(Queue) < N /\ Queue' = Append(Queue, req[Producer].v)
      BY <1>4, StoreAppends
    <2>2. req[Producer] \in Fifo!PushCalls
      BY <1>4 DEF PushStore, RingInv, Guards
    <2>3. Fifo!Return(Producer, Fifo!Result(TRUE, NoValue))
      BY <1>4 DEF PushStore, Return, Fifo!Return
    <2>4. Fifo!Put(Producer)
      BY <2>1, <2>2, <2>3 DEF Fifo!Put
    <2> QED
      BY <2>4 DEF Fifo!Next, Threads
  <1>5. CASE PopLoad
    <2>1. Queue' = Queue
      BY <1>0, <1>5, SameRingSameQueue DEF PopLoad, Return, Threads
    <2>2. CASE UNCHANGED <<req, res>>
      BY <2>1, <2>2 DEF Fifo!fifoVars
    <2>3. CASE /\ read_idx_ = write_idx_ /\ ~req[Consumer].block
               /\ Return(Consumer, Fifo!Result(FALSE, NoValue))
      <3>1. Len(Queue) = 0 /\ Queue \in Seq(Values \cup {NoValue})
        BY <1>0, <2>3, CapacityAssumption DEF QueueShape, RingInv, TypeOK, Slots
      <3>2. Queue = <<>>
        BY <3>1
      <3>3. req[Consumer] \in Fifo!PopCalls
        BY <1>5 DEF PopLoad, RingInv, Guards
      <3>4. Fifo!Return(Consumer, Fifo!Result(FALSE, NoValue))
        BY <2>3 DEF Return, Fifo!Return
      <3>5. Fifo!RefuseTake(Consumer)
        BY <2>1, <2>3, <3>2, <3>3, <3>4 DEF Fifo!RefuseTake
      <3> QED
        BY <3>5 DEF Fifo!Next, Threads
    <2> QED
      BY <1>5, <2>2, <2>3 DEF PopLoad
  <1>6. CASE PopStore
    <2>1. Queue # <<>> /\ Queue' = Tail(Queue) /\ item = Head(Queue)
      BY <1>6, StoreRemoves
    <2>2. req[Consumer] \in Fifo!PopCalls
      BY <1>6 DEF PopStore, RingInv, Guards
    <2>3. Fifo!Return(Consumer, Fifo!Result(TRUE, Head(Queue)))
      BY <1>6, <2>1 DEF PopStore, Return, Fifo!Return
    <2>4. Fifo!Take(Consumer)
      BY <2>1, <2>2, <2>3 DEF Fifo!Take
    <2> QED
      BY <2>4 DEF Fifo!Next, Threads
  <1>7. CASE UNCHANGED vars
    BY <1>7, SameRingSameQueue DEF vars, Fifo!fifoVars
  <1> QED
    BY <1>1, <1>2, <1>3, <1>4, <1>5, <1>6, <1>7
    DEF Next, PushStep, PopStep, Fifo!Next, Fifo!Requests, Threads

\* RingQueue is a bounded first-in first-out queue of N values for one pushing
\* and one popping thread, without a lock, for every N.
THEOREM Implementation == Spec => ImplementsFifo
  <1>1. Init => Fifo!Init
    <2> SUFFICES ASSUME Init PROVE Fifo!Init
      OBVIOUS
    <2>1. Queue \in Seq(Values \cup {NoValue}) /\ Len(Queue) = 0
      BY InitInv, QueueSlots, CapacityAssumption DEF Init, QueueShape
    <2>2. Queue = <<>>
      BY <2>1
    <2> QED
      BY <2>2 DEF Init, Fifo!Init
  <1> QED
    BY <1>1, InitInv, StepKeepsInv, StepImplements, PTL
    DEF Spec, ImplementsFifo, Fifo!Spec

=============================================================================
