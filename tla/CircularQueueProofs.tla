------------------------- MODULE CircularQueueProofs -------------------------
(***************************************************************************)
(* Proofs about CircularQueue, for every number of threads, every set of    *)
(* values and every capacity (zero included).                               *)
(***************************************************************************)
EXTENDS CircularQueue, Sequences, FiniteSetTheorems, TLAPS

\* An index that is at most one round too large wraps around once.
LEMMA WrapOnce ==
  ASSUME NEW c \in Nat, c > 0, NEW x \in Nat, x < 2 * c
  PROVE  x % c = IF x < c THEN x ELSE x - c
  OBVIOUS

-----------------------------------------------------------------------------
(* Type correctness *)

\* The part of TypeOK about the indices, which push and pop move.
Ranges ==
  /\ size_ \in 0 .. Capacity
  /\ head_ \in Nat /\ tail_ \in Nat
  /\ Capacity > 0 => head_ \in Slots /\ tail_ = (head_ + size_) % Capacity

\* The part about calls and sleepers.
CallTypes ==
  /\ req \in [Threads -> Fifo!Requests \cup {NULL}]
  /\ asleep \subseteq {t \in Threads : req[t] # NULL /\ req[t].block}
  /\ res \in [Threads -> Fifo!Results]

\* A call that returns is not asleep and leaves a well-typed result.
LEMMA ReturnKeepsCallTypes ==
  ASSUME CallTypes, NEW t \in Threads, t \notin asleep,
         NEW r \in Fifo!Results, Return(t, r), asleep' \subseteq asleep
  PROVE  CallTypes'
  BY DEF CallTypes, Return

LEMMA NotifyWakes ==
  ASSUME NEW op, NotifyOne(op)
  PROVE  asleep' \subseteq asleep
  BY DEF NotifyOne

LEMMA PushKeepsRanges ==
  ASSUME Ranges, size_ # Capacity, size_' = size_ + 1, head_' = head_,
         tail_' = (tail_ + 1) % Capacity
  PROVE  Ranges' /\ tail_ \in Slots
  <1>1. Capacity \in Nat /\ Capacity > 0 /\ size_ \in Nat /\ size_ < Capacity
    BY CapacityAssumption DEF Ranges
  <1>2. head_ \in Nat /\ head_ < Capacity
    BY <1>1 DEF Ranges, Slots
  <1>3. tail_ = IF head_ + size_ < Capacity THEN head_ + size_
                ELSE head_ + size_ - Capacity
    BY <1>1, <1>2, WrapOnce DEF Ranges
  <1>4. tail_ \in Nat /\ tail_ < Capacity
    BY <1>1, <1>2, <1>3
  <1>5. tail_' = IF tail_ + 1 < Capacity THEN tail_ + 1 ELSE tail_ + 1 - Capacity
    BY <1>1, <1>4, WrapOnce
  <1>6. (head_ + (size_ + 1)) % Capacity =
          IF head_ + (size_ + 1) < Capacity THEN head_ + (size_ + 1)
          ELSE head_ + (size_ + 1) - Capacity
    BY <1>1, <1>2, WrapOnce
  <1> QED
    BY <1>1, <1>2, <1>3, <1>4, <1>5, <1>6 DEF Ranges, Slots

LEMMA PopKeepsRanges ==
  ASSUME Ranges, size_ # 0, size_' = size_ - 1, tail_' = tail_,
         head_' = (head_ + 1) % Capacity
  PROVE  Ranges' /\ head_ \in Slots
  <1>1. Capacity \in Nat /\ Capacity > 0 /\ size_ \in Nat /\ size_ > 0
        /\ size_ <= Capacity
    BY CapacityAssumption DEF Ranges
  <1>2. head_ \in Nat /\ head_ < Capacity
    BY <1>1 DEF Ranges, Slots
  <1>3. tail_ = IF head_ + size_ < Capacity THEN head_ + size_
                ELSE head_ + size_ - Capacity
    BY <1>1, <1>2, WrapOnce DEF Ranges
  <1>4. head_' = IF head_ + 1 < Capacity THEN head_ + 1 ELSE head_ + 1 - Capacity
    BY <1>1, <1>2, WrapOnce
  <1>5. head_' \in Nat /\ head_' < Capacity
    BY <1>1, <1>2, <1>4
  <1>6. (head_' + (size_ - 1)) % Capacity =
          IF head_' + (size_ - 1) < Capacity THEN head_' + (size_ - 1)
          ELSE head_' + (size_ - 1) - Capacity
    BY <1>1, <1>5, WrapOnce
  <1> QED
    BY <1>1, <1>2, <1>3, <1>4, <1>5, <1>6 DEF Ranges, Slots

\* Every step keeps the types: the wrapped indices stay inside the buffer and
\* tail_ stays size_ slots behind head_.
LEMMA StepKeepsType ==
  ASSUME TypeOK, [Next]_vars
  PROVE  TypeOK'
  <1> USE DEF Fifo!Results, Fifo!Result
  <1>0. Ranges /\ CallTypes /\ buffer_ \in [Slots -> Values \cup {NoValue}]
    BY DEF TypeOK, Ranges, CallTypes
  <1> SUFFICES Ranges' /\ CallTypes' /\ buffer_' \in [Slots -> Values \cup {NoValue}]
    BY DEF TypeOK, Ranges, CallTypes
  <1>1. ASSUME NEW t \in Threads, NEW r \in Fifo!Requests, Call(t, r)
        PROVE  Ranges' /\ CallTypes' /\ buffer_' \in [Slots -> Values \cup {NoValue}]
    <2>1. t \notin asleep
      BY <1>0, <1>1 DEF Call, CallTypes
    <2>2. CallTypes'
      BY <1>0, <1>1, <2>1 DEF Call, CallTypes
    <2> QED
      BY <1>0, <1>1, <2>2 DEF Call, bufferVars, Ranges
  <1>2. ASSUME NEW t \in Threads, Push(t)
        PROVE  Ranges' /\ CallTypes' /\ buffer_' \in [Slots -> Values \cup {NoValue}]
    <2>1. Ranges' /\ tail_ \in Slots
      BY <1>0, <1>2, PushKeepsRanges DEF Push, Advance
    <2>2. t \notin asleep /\ req[t] # NULL /\ req[t].op = "push"
      BY <1>2 DEF Push, Awake, Callers
    <2>3. req[t].v \in Values \cup {NoValue}
      BY <1>0, <2>2 DEF CallTypes, Fifo!Requests, Fifo!PushCalls, Fifo!PopCalls
    <2>4. CallTypes'
      BY <1>0, <1>2, <2>2, NotifyWakes, ReturnKeepsCallTypes DEF Push, Advance
    <2> QED
      BY <1>0, <1>2, <2>1, <2>3, <2>4 DEF Push, Advance
  <1>3. ASSUME NEW t \in Threads, Pop(t)
        PROVE  Ranges' /\ CallTypes' /\ buffer_' \in [Slots -> Values \cup {NoValue}]
    <2>1. Ranges' /\ head_ \in Slots
      BY <1>0, <1>3, PopKeepsRanges DEF Pop, Advance
    <2>2. t \notin asleep
      BY <1>3 DEF Pop, Awake
    <2>3. buffer_[head_] \in Values \cup {NoValue}
      BY <1>0, <2>1
    <2>4. CallTypes'
      BY <1>0, <1>3, <2>2, <2>3, NotifyWakes, ReturnKeepsCallTypes DEF Pop, Advance
    <2> QED
      BY <1>0, <1>3, <2>1, <2>4 DEF Pop, Advance
  <1>4. ASSUME NEW t \in Threads, Wait(t)
        PROVE  Ranges' /\ CallTypes' /\ buffer_' \in [Slots -> Values \cup {NoValue}]
    <2>1. req[t] # NULL /\ req[t].block
      BY <1>4 DEF Wait, Stuck, Awake, Callers
    <2> QED
      BY <1>0, <1>4, <2>1 DEF Wait, bufferVars, Ranges, CallTypes
  <1>5. ASSUME NEW t \in Threads, Fail(t)
        PROVE  Ranges' /\ CallTypes' /\ buffer_' \in [Slots -> Values \cup {NoValue}]
    <2>1. t \notin asleep
      BY <1>5 DEF Fail, Stuck, Awake
    <2>2. CallTypes'
      BY <1>0, <1>5, <2>1, ReturnKeepsCallTypes DEF Fail
    <2> QED
      BY <1>0, <1>5, <2>2 DEF Fail, bufferVars, Ranges
  <1>6. ASSUME NEW t \in Threads, Spurious(t)
        PROVE  Ranges' /\ CallTypes' /\ buffer_' \in [Slots -> Values \cup {NoValue}]
    BY <1>0, <1>6 DEF Spurious, bufferVars, Ranges, CallTypes
  <1>7. CASE UNCHANGED vars
    BY <1>0, <1>7 DEF vars, bufferVars, Ranges, CallTypes
  <1> QED
    BY <1>1, <1>2, <1>3, <1>4, <1>5, <1>6, <1>7 DEF Next

LEMMA InitTyped ==
  ASSUME Init
  PROVE  TypeOK
  <1>1. Capacity > 0 => 0 % Capacity = 0
    BY CapacityAssumption, WrapOnce
  <1> QED
    BY <1>1, CapacityAssumption DEF Init, TypeOK, Slots, Fifo!Results, Fifo!Result

\* Type correctness of the ring buffer, with the relation of its indices: no
\* access of buffer_ is out of bounds, whatever the capacity.
THEOREM TypeCorrect == Spec => []TypeOK
  BY InitTyped, StepKeepsType, PTL DEF Spec

-----------------------------------------------------------------------------
(* Enough wakeups *)

\* Sets of threads are finite: their cardinalities can be counted with.
LEMMA CountThreads ==
  ASSUME NEW S \in SUBSET Threads
  PROVE  /\ IsFiniteSet(S) /\ Cardinality(S) \in Nat
         /\ \A t \in S : Cardinality(S \ {t}) = Cardinality(S) - 1
         /\ \A t \in Threads \ S : Cardinality(S \cup {t}) = Cardinality(S) + 1
         /\ \A R \in SUBSET S : Cardinality(R) <= Cardinality(S)
  <1>1. IsFiniteSet(S)
    BY ThreadAssumption, FS_Subset
  <1> QED
    BY <1>1, FS_CardinalityType, FS_AddElement, FS_RemoveElement, FS_Subset

\* A call of op that is served takes its thread out of the threads awake in
\* op and wakes one thread of the other kind, if one sleeps.
LEMMA ServedCall ==
  ASSUME NEW op, NEW other, op # other,
         TypeOK, NEW t \in Awake(op), req' = [req EXCEPT ![t] = NULL],
         NotifyOne(other)
  PROVE  /\ Sleepers(op)' = Sleepers(op)
         /\ Awake(op)' = Awake(op) \ {t}
         /\ \/ Sleepers(other)' = {}
            \/ /\ Sleepers(other) # {}
               /\ \E w \in Threads \ Awake(other) :
                    Awake(other)' = Awake(other) \cup {w}
  <1>1. t \in Threads /\ t \notin asleep /\ req[t] # NULL /\ req[t].op = op
    BY DEF Awake, Callers
  <1>2. req \in [Threads -> Fifo!Requests \cup {NULL}]
    BY DEF TypeOK
  <1>3. Callers(op)' = Callers(op) \ {t}
    BY <1>1, <1>2 DEF Callers
  <1>4. Callers(other)' = Callers(other)
    BY <1>1, <1>2 DEF Callers
  <1>5. CASE Sleepers(other) = {} /\ asleep' = asleep
    BY <1>1, <1>3, <1>4, <1>5 DEF Sleepers, Awake
  <1>6. ASSUME NEW w \in Sleepers(other), asleep' = asleep \ {w}
        PROVE  /\ Sleepers(op)' = Sleepers(op)
               /\ Awake(op)' = Awake(op) \ {t}
               /\ Sleepers(other) # {}
               /\ w \in Threads \ Awake(other)
               /\ Awake(other)' = Awake(other) \cup {w}
    <2>1. w \in Threads /\ w \in asleep /\ w \in Callers(other) /\ w \notin Callers(op)
      BY <1>6 DEF Sleepers, Callers
    <2> QED
      BY <1>1, <1>3, <1>4, <1>6, <2>1 DEF Sleepers, Awake
  <1> QED
    BY <1>5, <1>6 DEF NotifyOne

\* The two halves of WakeupsSuffice have the same shape.
Enough(op, n) == Sleepers(op) # {} => n <= Cardinality(Awake(op))

\* Serving a call of op, with n units of what op needs and k of what the
\* other kind needs: one unit moves from one side to the other.
LEMMA ServingKeepsEnough ==
  ASSUME NEW op, NEW other, op # other, NEW n \in Int, NEW k \in Int,
         TypeOK, NEW t \in Awake(op), req' = [req EXCEPT ![t] = NULL],
         NotifyOne(other),
         Enough(op, n), Enough(other, k)
  PROVE  /\ Sleepers(op)' # {} => n - 1 <= Cardinality(Awake(op)')
         /\ Sleepers(other)' # {} => k + 1 <= Cardinality(Awake(other)')
  <1>1. Awake(op) \in SUBSET Threads /\ Awake(other) \in SUBSET Threads
    BY DEF Awake, Callers
  <1>2. Cardinality(Awake(op) \ {t}) = Cardinality(Awake(op)) - 1
        /\ Cardinality(Awake(op)) \in Nat
    BY <1>1, CountThreads
  <1>3. \A w \in Threads \ Awake(other) :
          Cardinality(Awake(other) \cup {w}) = Cardinality(Awake(other)) + 1
    BY <1>1, CountThreads
  <1>4. Cardinality(Awake(other)) \in Nat
    BY <1>1, CountThreads
  <1>5. /\ Sleepers(op)' = Sleepers(op)
        /\ Awake(op)' = Awake(op) \ {t}
        /\ \/ Sleepers(other)' = {}
           \/ /\ Sleepers(other) # {}
              /\ \E w \in Threads \ Awake(other) :
                   Awake(other)' = Awake(other) \cup {w}
    BY ServedCall
  <1>6. Sleepers(op)' # {} => n - 1 <= Cardinality(Awake(op)')
    BY <1>2, <1>5 DEF Enough
  <1>7. Sleepers(other)' # {} => k + 1 <= Cardinality(Awake(other)')
    BY <1>3, <1>4, <1>5 DEF Enough
  <1> QED
    BY <1>6, <1>7

\* A step after which no fewer threads are awake in op and none sleeps that
\* did not before.
LEMMA MoreAwakeKeepsEnough ==
  ASSUME NEW op, NEW n \in Int, Enough(op, n),
         Sleepers(op)' \subseteq Sleepers(op), Awake(op) \subseteq Awake(op)',
         Awake(op)' \subseteq Threads
  PROVE  Sleepers(op)' # {} => n <= Cardinality(Awake(op)')
  <1>1. Cardinality(Awake(op)) <= Cardinality(Awake(op)')
    BY CountThreads
  <1>2. Cardinality(Awake(op)) \in Nat /\ Cardinality(Awake(op)') \in Nat
    BY CountThreads
  <1> QED
    BY <1>1, <1>2 DEF Enough

LEMMA StepKeepsWakeups ==
  ASSUME TypeOK, WakeupsSuffice, [Next]_vars
  PROVE  WakeupsSuffice'
  <1> DEFINE free == Capacity - size_
  <1>0. /\ Enough("pop", size_) /\ Enough("push", free)
        /\ size_ \in Int /\ free \in Int /\ size_ >= 0 /\ free >= 0
    BY CapacityAssumption DEF WakeupsSuffice, Enough, TypeOK
  <1>a. req \in [Threads -> Fifo!Requests \cup {NULL}]
    BY DEF TypeOK
  <1>b. \A op : Awake(op) \in SUBSET Threads /\ Awake(op)' \in SUBSET Threads
    BY DEF Awake, Callers
  <1>c. \A op : Cardinality(Awake(op)) \in Nat /\ Cardinality(Awake(op)') \in Nat
    BY <1>b, CountThreads
  <1>1. ASSUME NEW t \in Threads, NEW r \in Fifo!Requests, Call(t, r)
        PROVE  WakeupsSuffice'
    <2>1. t \notin asleep /\ asleep' = asleep /\ size_' = size_
      BY <1>1 DEF Call, bufferVars, TypeOK
    <2>2. \A op : Callers(op) \subseteq Callers(op)' /\ Callers(op)' \subseteq Callers(op) \cup {t}
      BY <1>1, <1>a DEF Call, Callers
    <2>3. \A op : Sleepers(op)' \subseteq Sleepers(op) /\ Awake(op) \subseteq Awake(op)'
      BY <2>1, <2>2 DEF Sleepers, Awake
    <2>4. Sleepers("pop")' # {} => size_ <= Cardinality(Awake("pop")')
      BY <1>0, <1>b, <2>3, MoreAwakeKeepsEnough
    <2>5. Sleepers("push")' # {} => free <= Cardinality(Awake("push")')
      BY <1>0, <1>b, <2>3, MoreAwakeKeepsEnough
    <2> QED
      BY <2>1, <2>4, <2>5 DEF WakeupsSuffice
  <1>2. ASSUME NEW t \in Threads, Push(t)
        PROVE  WakeupsSuffice'
    <2>1. /\ t \in Awake("push") /\ NotifyOne("pop")
          /\ req' = [req EXCEPT ![t] = NULL] /\ size_' = size_ + 1
      BY <1>2 DEF Push, Return
    <2>2. /\ Sleepers("push")' # {} => free - 1 <= Cardinality(Awake("push")')
          /\ Sleepers("pop")' # {} => size_ + 1 <= Cardinality(Awake("pop")')
      BY <1>0, <2>1, ServingKeepsEnough
    <2>3. Capacity - size_' = free - 1
      BY <1>0, <2>1, CapacityAssumption
    <2> QED
      BY <2>1, <2>2, <2>3 DEF WakeupsSuffice
  <1>3. ASSUME NEW t \in Threads, Pop(t)
        PROVE  WakeupsSuffice'
    <2>1. /\ t \in Awake("pop") /\ NotifyOne("push")
          /\ req' = [req EXCEPT ![t] = NULL] /\ size_' = size_ - 1
      BY <1>3 DEF Pop, Return
    <2>2. /\ Sleepers("pop")' # {} => size_ - 1 <= Cardinality(Awake("pop")')
          /\ Sleepers("push")' # {} => free + 1 <= Cardinality(Awake("push")')
      BY <1>0, <2>1, ServingKeepsEnough
    <2>3. Capacity - size_' = free + 1
      BY <1>0, <2>1, CapacityAssumption
    <2> QED
      BY <2>1, <2>2, <2>3 DEF WakeupsSuffice
  <1>4. ASSUME NEW t \in Threads, Wait(t) \/ Fail(t)
        PROVE  WakeupsSuffice'
    <2>1. size_' = size_ /\ req[t] # NULL /\ t \notin asleep
      BY <1>4 DEF Wait, Fail, bufferVars, Stuck, Awake, Callers
    <2>a. \/ t \in Awake("push") /\ size_ = Capacity
          \/ t \in Awake("pop") /\ size_ = 0
      BY <1>4 DEF Wait, Fail, Stuck
    <2>b. size_ = Capacity => free = 0
      BY CapacityAssumption
    <2>2. \/ req[t].op = "push" /\ free = 0
          \/ req[t].op = "pop" /\ size_ = 0
      BY <2>a, <2>b DEF Awake, Callers
    <2>3. \A op : op # req[t].op => Sleepers(op)' = Sleepers(op) /\ Awake(op)' = Awake(op)
      <3>1. CASE Wait(t)
        BY <1>a, <2>1, <3>1 DEF Wait, Sleepers, Awake, Callers
      <3>2. CASE Fail(t)
        BY <1>a, <2>1, <3>2 DEF Fail, Return, Sleepers, Awake, Callers
      <3> QED
        BY <1>4, <3>1, <3>2
    <2>4. Sleepers("pop")' # {} => size_ <= Cardinality(Awake("pop")')
      BY <1>0, <1>c, <2>2, <2>3 DEF Enough
    <2>5. Sleepers("push")' # {} => free <= Cardinality(Awake("push")')
      BY <1>0, <1>c, <2>2, <2>3 DEF Enough
    <2> QED
      BY <2>1, <2>4, <2>5 DEF WakeupsSuffice
  <1>5. ASSUME NEW t \in Threads, Spurious(t)
        PROVE  WakeupsSuffice'
    <2>1. /\ asleep' = asleep \ {t} /\ size_' = size_
          /\ \A op : Callers(op)' = Callers(op)
      BY <1>5 DEF Spurious, bufferVars, Callers
    <2>2. \A op : Sleepers(op)' \subseteq Sleepers(op) /\ Awake(op) \subseteq Awake(op)'
      BY <2>1 DEF Sleepers, Awake
    <2>3. Sleepers("pop")' # {} => size_ <= Cardinality(Awake("pop")')
      BY <1>0, <1>b, <2>2, MoreAwakeKeepsEnough
    <2>4. Sleepers("push")' # {} => free <= Cardinality(Awake("push")')
      BY <1>0, <1>b, <2>2, MoreAwakeKeepsEnough
    <2> QED
      BY <2>1, <2>3, <2>4 DEF WakeupsSuffice
  <1>6. CASE UNCHANGED vars
    BY <1>6 DEF vars, bufferVars, WakeupsSuffice, Sleepers, Awake, Callers
  <1> QED
    BY <1>1, <1>2, <1>3, <1>4, <1>5, <1>6 DEF Next

\* notify_one() is enough for any number of threads and any capacity: no
\* thread sleeps on a condition variable while a value (or a free slot) is
\* there that no thread awake is about to take.
THEOREM EnoughWakeups == Spec => []WakeupsSuffice
  <1>1. Init => WakeupsSuffice
    BY DEF Init, WakeupsSuffice, Sleepers
  <1> QED
    BY <1>1, InitTyped, StepKeepsType, StepKeepsWakeups, PTL DEF Spec

-----------------------------------------------------------------------------
(* The ring buffer implements the bounded queue *)

\* The abstract queue has size_ values; the i-th one is in the slot that is
\* i - 1 behind head_, counted around the end of the buffer.
Slot(i) == IF head_ + i - 1 < Capacity THEN head_ + i - 1
           ELSE head_ + i - 1 - Capacity

QueueShape ==
  /\ Queue \in Seq(Values \cup {NoValue})
  /\ Len(Queue) = size_
  /\ \A i \in 1 .. size_ : Slot(i) \in Slots /\ Queue[i] = buffer_[Slot(i)]

LEMMA QueueSlots == TypeOK => QueueShape
  <1> SUFFICES ASSUME TypeOK PROVE QueueShape
    OBVIOUS
  <1>1. Capacity \in Nat /\ size_ \in Nat /\ size_ <= Capacity
    BY CapacityAssumption DEF TypeOK
  <1>2. ASSUME NEW i \in 1 .. size_
        PROVE  (head_ + i - 1) % Capacity = Slot(i) /\ Slot(i) \in Slots
    <2>1. head_ \in Nat /\ head_ < Capacity /\ Capacity > 0 /\ i \in Nat /\ i > 0
          /\ i <= Capacity
      BY <1>1 DEF TypeOK, Slots
    <2>2. head_ + i - 1 \in Nat /\ head_ + i - 1 < 2 * Capacity
      BY <1>1, <2>1
    <2> QED
      BY <1>1, <2>1, <2>2, WrapOnce DEF Slot, Slots
  <1>3. \A i \in 1 .. size_ : Queue[i] = buffer_[Slot(i)]
    BY <1>2 DEF Queue
  <1>4. \A i \in 1 .. size_ : buffer_[(head_ + i - 1) % Capacity] \in Values \cup {NoValue}
    BY <1>2 DEF TypeOK
  <1>5. Queue \in Seq(Values \cup {NoValue}) /\ Len(Queue) = size_
    BY <1>1, <1>4 DEF Queue
  <1> QED
    BY <1>2, <1>3, <1>5 DEF QueueShape

LEMMA PushAppends ==
  ASSUME TypeOK, TypeOK', NEW t \in Threads, Push(t)
  PROVE  Queue' = Append(Queue, req[t].v)
  <1>1. Capacity \in Nat /\ size_ \in Nat /\ size_ < Capacity
    BY CapacityAssumption DEF TypeOK, Push
  <1>2. head_ \in Nat /\ head_ < Capacity
    BY <1>1 DEF TypeOK, Slots
  <1>3. tail_ = Slot(size_ + 1) /\ tail_ \in Slots
    <2>1. tail_ = (head_ + size_) % Capacity
      BY <1>1 DEF TypeOK
    <2> QED
      BY <1>1, <1>2, <2>1, WrapOnce DEF Slot, Slots
  <1>4. \A i \in 1 .. size_ : Slot(i) # tail_
    BY <1>1, <1>2, <1>3 DEF Slot
  <1>5. /\ Queue \in Seq(Values \cup {NoValue}) /\ Len(Queue) = size_
        /\ \A i \in 1 .. size_ : Slot(i) \in Slots /\ Queue[i] = buffer_[Slot(i)]
    BY QueueSlots DEF QueueShape
  <1>6. /\ Queue' \in Seq(Values \cup {NoValue}) /\ Len(Queue') = size_ + 1
        /\ \A i \in 1 .. size_ + 1 : Queue'[i] = buffer_'[Slot(i)]
    <2>1. QueueShape'
      BY QueueSlots, PTL
    <2>2. size_' = size_ + 1 /\ \A i : Slot(i)' = Slot(i)
      BY DEF Push, Slot
    <2> QED
      BY <2>1, <2>2 DEF QueueShape
  <1>7. buffer_' = [buffer_ EXCEPT ![tail_] = req[t].v] /\ buffer_ \in [Slots -> Values \cup {NoValue}]
    BY DEF Push, TypeOK
  <1>8. \A i \in 1 .. size_ : Queue'[i] = Queue[i]
    BY <1>1, <1>4, <1>5, <1>6, <1>7
  <1>9. Queue'[size_ + 1] = req[t].v
    BY <1>1, <1>3, <1>6, <1>7
  <1>10. req[t].v \in Values \cup {NoValue}
    BY <1>1, <1>6, <1>9
  <1> QED
    BY <1>1, <1>5, <1>6, <1>8, <1>9, <1>10

LEMMA PopRemoves ==
  ASSUME TypeOK, TypeOK', NEW t \in Threads, Pop(t)
  PROVE  Queue # <<>> /\ Queue' = Tail(Queue) /\ buffer_[head_] = Head(Queue)
  <1>1. Capacity \in Nat /\ size_ \in Nat /\ size_ > 0 /\ size_ <= Capacity
    BY CapacityAssumption DEF TypeOK, Pop
  <1>2. head_ \in Nat /\ head_ < Capacity
    BY <1>1 DEF TypeOK, Slots
  <1>3. head_' = IF head_ + 1 < Capacity THEN head_ + 1 ELSE head_ + 1 - Capacity
    BY <1>1, <1>2, WrapOnce DEF Pop, Advance
  <1>4. Slot(1) = head_
    BY <1>1, <1>2 DEF Slot
  <1>5. /\ Queue \in Seq(Values \cup {NoValue}) /\ Len(Queue) = size_
        /\ \A i \in 1 .. size_ : Slot(i) \in Slots /\ Queue[i] = buffer_[Slot(i)]
    BY QueueSlots DEF QueueShape
  <1>6. \A i \in 1 .. size_ - 1 : Slot(i)' = Slot(i + 1) /\ Slot(i + 1) # head_
    BY <1>1, <1>2, <1>3 DEF Slot
  <1>7. /\ Queue' \in Seq(Values \cup {NoValue}) /\ Len(Queue') = size_ - 1
        /\ \A i \in 1 .. size_ - 1 : Queue'[i] = buffer_'[Slot(i)']
    <2>1. QueueShape'
      BY QueueSlots, PTL
    <2>2. size_' = size_ - 1
      BY DEF Pop, Advance
    <2> QED
      BY <2>1, <2>2 DEF QueueShape
  <1>8. /\ buffer_' = [buffer_ EXCEPT ![head_] = NoValue]
        /\ buffer_ \in [Slots -> Values \cup {NoValue}]
    BY DEF Pop, TypeOK
  <1>9. \A i \in 1 .. size_ - 1 : Queue'[i] = Queue[i + 1]
    BY <1>1, <1>5, <1>6, <1>7, <1>8
  <1>10. buffer_[head_] = Head(Queue) /\ Queue # <<>>
    BY <1>1, <1>4, <1>5
  <1>11. Queue' = Tail(Queue)
    BY <1>1, <1>5, <1>7, <1>9
  <1> QED
    BY <1>10, <1>11

\* Which call a thread awake in op is in.
LEMMA CallOf ==
  ASSUME TypeOK, NEW t \in Threads
  PROVE  /\ t \in Awake("push") => req[t] \in Fifo!PushCalls
         /\ t \in Awake("pop") => req[t] \in Fifo!PopCalls
  BY DEF TypeOK, Awake, Callers, Fifo!Requests, Fifo!PushCalls, Fifo!PopCalls

LEMMA StepImplements ==
  ASSUME TypeOK, TypeOK', [Next]_vars
  PROVE  [Fifo!Next]_(Fifo!fifoVars)
  <1>0. Queue \in Seq(Values \cup {NoValue}) /\ Len(Queue) = size_
    BY QueueSlots DEF QueueShape
  <1>1. ASSUME NEW t \in Threads, NEW r \in Fifo!Requests, Call(t, r)
        PROVE  Fifo!Call(t, r)
    BY <1>1 DEF Call, bufferVars, Fifo!Call, Queue
  <1>2. ASSUME NEW t \in Threads, Push(t)
        PROVE  Fifo!Put(t)
    <2>1. Queue' = Append(Queue, req[t].v)
      BY <1>2, PushAppends
    <2>2. Len(Queue) < Capacity
      BY <1>0, <1>2, CapacityAssumption DEF Push, TypeOK
    <2>3. req[t] \in Fifo!PushCalls
      BY <1>2, CallOf DEF Push, Advance
    <2>4. Fifo!Return(t, Fifo!Result(TRUE, NoValue))
      BY <1>2 DEF Push, Return, Fifo!Return
    <2> QED
      BY <2>1, <2>2, <2>3, <2>4 DEF Fifo!Put
  <1>3. ASSUME NEW t \in Threads, Pop(t)
        PROVE  Fifo!Take(t)
    <2>1. Queue # <<>> /\ Queue' = Tail(Queue) /\ buffer_[head_] = Head(Queue)
      BY <1>3, PopRemoves
    <2>2. req[t] \in Fifo!PopCalls
      BY <1>3, CallOf DEF Pop, Advance
    <2>3. Fifo!Return(t, Fifo!Result(TRUE, Head(Queue)))
      BY <1>3, <2>1 DEF Pop, Return, Fifo!Return
    <2> QED
      BY <2>1, <2>2, <2>3 DEF Fifo!Take
  <1>4. ASSUME NEW t \in Threads, Fail(t)
        PROVE  Fifo!RefusePut(t) \/ Fifo!RefuseTake(t)
    <2>1. Queue' = Queue
      BY <1>4 DEF Fail, bufferVars, Queue
    <2>2. ~req[t].block /\ Fifo!Return(t, Fifo!Result(FALSE, NoValue))
      BY <1>4 DEF Fail, Return, Fifo!Return
    <2>3. CASE t \in Awake("push") /\ size_ = Capacity
      BY <1>0, <2>1, <2>2, <2>3, CallOf DEF Fifo!RefusePut
    <2>4. CASE t \in Awake("pop") /\ size_ = 0
      <3>1. Queue = <<>>
        BY <1>0, <2>4
      <3> QED
        BY <2>1, <2>2, <2>4, <3>1, CallOf DEF Fifo!RefuseTake
    <2> QED
      BY <1>4, <2>3, <2>4 DEF Fail, Stuck
  <1>5. ASSUME NEW t \in Threads, Wait(t) \/ Spurious(t)
        PROVE  UNCHANGED Fifo!fifoVars
    BY <1>5 DEF Wait, Spurious, bufferVars, Fifo!fifoVars, Queue
  <1>6. CASE UNCHANGED vars
    BY <1>6 DEF vars, bufferVars, Fifo!fifoVars, Queue
  <1> QED
    BY <1>1, <1>2, <1>3, <1>4, <1>5, <1>6 DEF Next, Fifo!Next

\* CircularQueue is a bounded first-in first-out queue, whatever the capacity,
\* the number of threads and the interleaving of their calls.
THEOREM Implementation == Spec => ImplementsFifo
  <1>1. Init => Fifo!Init
    <2> SUFFICES ASSUME Init PROVE Fifo!Init
      OBVIOUS
    <2>1. Queue = <<>>
      BY InitTyped, QueueSlots DEF Init, QueueShape
    <2> QED
      BY <2>1 DEF Init, Fifo!Init
  <1> QED
    BY <1>1, InitTyped, StepKeepsType, StepImplements, PTL
    DEF Spec, ImplementsFifo, Fifo!Spec

=============================================================================
