------------------------- MODULE LockFreeQueueProofs -------------------------
(***************************************************************************)
(* Proofs about LockFreeQueue with one thread on each side, for every size  *)
(* of the pool, every set of values and every number of attempts.           *)
(***************************************************************************)
EXTENDS LockFreeQueue, FiniteSets, FiniteSetTheorems, SequenceTheorems,
        WellFoundedInduction, TLAPS

\* At most one thread dequeues.
OneConsumer == \A t, u \in Consumers : t = u

Ptr == Nodes \cup {NULL}
Cells == Values \cup {NoValue, Moved}
Locals == [old : Ptr, ver : Nat, oldTail : Ptr, nxt : Ptr, node : Ptr,
           give : Seq(Nodes), item : Cells, left : Nat]

\* Where the producer is while it gets a node, and while it has one.
Allocating == {"pop", "popNext", "popSwap", "dry", "link", "give"}
Comparing == {"checkTail", "checkVersion", "append", "helpTail"}
Linking == {"version", "next"} \cup Comparing
Building == {"construct", "tail", "swing"} \cup Linking
ProducerPcs == {"idle"} \cup Allocating \cup Building

\* Where the consumer is before and after it has won head.
Reading == {"checkHead", "checkVersion", "helpTail", "checkElem", "take"}
Looking == {"version", "oldTail", "next"} \cup Reading
Freeing == {"move", "retire", "wipe"}
ConsumerPcs == {"idle", "head", "link", "give"} \cup Looking \cup Freeing

TypeOK ==
  /\ head \in Nodes /\ tail \in Nodes /\ free_list \in Ptr
  /\ elem \in [Nodes -> Cells]
  /\ next \in [Nodes -> Ptr]
  /\ version \in [Nodes -> Nat]
  /\ size \in 1 .. MaxNodes
  /\ mtx \in BOOLEAN
  /\ pc \in [Threads -> ProducerPcs \cup ConsumerPcs]
  /\ pc[Producer] \in ProducerPcs
  /\ \A t \in Consumers : pc[t] \in ConsumerPcs
  /\ loc \in [Threads -> Locals]

\* With the links nx, s is the list that starts at a.
Chain(nx, s, a) ==
  /\ s \in Seq(Nodes) /\ IsInjective(s)
  /\ a = IF s = <<>> THEN NULL ELSE s[1]
  /\ \A i \in 1 .. Len(s) : nx[s[i]] = IF i = Len(s) THEN NULL ELSE s[i + 1]

\* q and f are the queue and the free list; with the nodes of the threads
\* they share out the pool, and tail is in the queue.
Shared(q, f) ==
  /\ q # <<>> /\ Chain(next, q, head) /\ Chain(next, f, free_list)
  /\ tail \in ToSet(q)
  /\ ToSet(q) \cap ToSet(f) = {}
  /\ \A t \in Threads : Own(t) \cap (ToSet(q) \cup ToSet(f)) = {}
  /\ \A t \in Consumers : Own(t) \cap Own(Producer) = {}
  /\ \A n : n \in 1 .. size <=> \/ n \in ToSet(q) \cup ToSet(f)
                               \/ \E t \in Threads : n \in Own(t)

\* n is not behind tail in the queue q, so tail will never come to it.
NotAhead(q, n) ==
  \A i, k \in 1 .. Len(q) : q[i] = n /\ q[k] = tail => i <= k

\* What the producer knows at the place p with the locals l.
ProducerKnows(p, l, q, f) ==
  /\ l.give # <<>> <=> p \in {"link", "give"}
  /\ IsInjective(l.give)
  /\ p = "give" => next[Head(l.give)] = l.old
  /\ l.node # NULL <=> p \in Building
  /\ p \in {"popNext", "popSwap"} => l.old \in ToSet(f)
  /\ p = "popSwap" => l.nxt = next[l.old]
  /\ p \in Linking \cup {"tail"} => next[l.node] = NULL
  /\ p \in Linking => l.old \in Nodes /\ NotAhead(q, l.old)
  /\ p \in Comparing /\ l.old = tail => l.nxt = next[l.old]
  /\ (p = "checkVersion" /\ l.nxt = NULL) \/ p = "append" => l.old = q[Len(q)]
  /\ p = "helpTail" => l.nxt # NULL
  /\ p = "swing" => l.node = q[Len(q)]

\* What the consumer knows at the place p with the locals l.
ConsumerKnows(p, l) ==
  /\ Len(l.give) = IF p \in {"link", "give"} THEN 1 ELSE 0
  /\ p = "give" => next[Head(l.give)] = l.old
  /\ l.node = NULL
  /\ p \in Looking => l.old = head
  /\ p \in {"next", "checkHead", "checkVersion"} /\ l.oldTail # l.old => tail # head
  /\ p \in Reading /\ l.nxt # NULL => l.nxt = next[l.old]
  /\ p \in {"helpTail", "checkElem", "take"} => l.nxt # NULL
  /\ p = "helpTail" => l.oldTail = l.old
  /\ p \in {"checkElem", "take"} => tail # head
  /\ p \in Freeing => l.old \in Nodes
  /\ p = "move" => l.nxt = head

Shape(q, f) ==
  /\ Shared(q, f)
  /\ ProducerKnows(pc[Producer], loc[Producer], q, f)
  /\ \A t \in Consumers : ConsumerKnows(pc[t], loc[t])

PoolInv == TypeOK /\ \E q, f \in Seq(Nodes) : Shape(q, f)

\* A thread is idle or in the call it has made.
Answers == [ok : BOOLEAN, v : Cells]
Dequeue == [op |-> "pop", v |-> NoValue, block |-> FALSE]
CallInv ==
  /\ req \in [Threads -> Fifo!Requests \cup {NULL}]
  /\ res \in [Threads -> Answers]
  /\ IF pc[Producer] = "idle" THEN req[Producer] = NULL
     ELSE \E v \in Values : req[Producer] = [op |-> "push", v |-> v, block |-> FALSE]
  /\ \A t \in Consumers : req[t] = IF pc[t] = "idle" THEN NULL ELSE Dequeue

-----------------------------------------------------------------------------
(* The initial state *)

\* Both lists are chains in the pool QueueCAS() builds.
LEMMA InitShape ==
  ASSUME Init
  PROVE  PoolInv
  <1> DEFINE q == <<InitSize>>
             f == [i \in 1 .. InitSize - 1 |-> InitSize - i]
  <1>n. MaxNodes \in Nat /\ InitSize \in 1 .. MaxNodes /\ NULL \notin Nat
    BY SizeAssumption, NullAssumption
  <1>1. TypeOK
    <2>1. NoLocals \in Locals
      BY DEF NoLocals, Locals, Ptr, Cells
    <2>2. /\ head \in Nodes /\ tail \in Nodes /\ free_list \in Ptr
          /\ next \in [Nodes -> Ptr] /\ size \in 1 .. MaxNodes
      BY <1>n DEF Init, Nodes, Ptr
    <2>3. elem \in [Nodes -> Cells] /\ version \in [Nodes -> Nat] /\ mtx \in BOOLEAN
      BY DEF Init, Cells
    <2>4. /\ pc \in [Threads -> ProducerPcs \cup ConsumerPcs]
          /\ pc[Producer] \in ProducerPcs
          /\ \A t \in Consumers : pc[t] \in ConsumerPcs
      BY DEF Init, Threads, ProducerPcs, ConsumerPcs
    <2>5. loc \in [Threads -> Locals]
      BY <2>1 DEF Init
    <2> QED
      BY <2>2, <2>3, <2>4, <2>5 DEF TypeOK
  <1>2. q \in Seq(Nodes) /\ f \in Seq(Nodes) /\ Len(q) = 1 /\ Len(f) = InitSize - 1
    BY <1>n DEF Nodes
  <1>3. Chain(next, q, head)
    BY <1>n, <1>2 DEF Chain, Init, Nodes, IsInjective
  <1>4. Chain(next, f, free_list)
    <2>1. IsInjective(f)
      BY <1>n DEF IsInjective
    <2>2. ASSUME NEW i \in 1 .. Len(f)
          PROVE  next[f[i]] = IF i = Len(f) THEN NULL ELSE f[i + 1]
      BY <1>n, <1>2 DEF Init, Nodes
    <2>3. free_list = IF f = <<>> THEN NULL ELSE f[1]
      <3>1. f = <<>> <=> Len(f) = 0
        <4> HIDE DEF f
        <4> QED BY <1>2, EmptySeq
      <3>2. InitSize # 1 => f[1] = InitSize - 1
        BY <1>n
      <3>3. InitSize = 1 <=> Len(f) = 0
        BY <1>n, <1>2
      <3> HIDE DEF f
      <3> QED
        BY <3>1, <3>2, <3>3 DEF Init
    <2> QED
      BY <1>2, <2>1, <2>2, <2>3 DEF Chain
  <1>5. \A t \in Threads : Own(t) = {}
    BY DEF Init, Own, NoLocals, ToSet
  <1>6. ToSet(q) = {InitSize} /\ ToSet(f) = 1 .. InitSize - 1
    <2>1. ToSet(q) = {InitSize}
      BY <1>2 DEF ToSet
    <2>2. ASSUME NEW n \in 1 .. InitSize - 1
          PROVE  n \in ToSet(f)
      <3>1. InitSize - n \in DOMAIN f /\ f[InitSize - n] = n
        BY <1>n
      <3> QED
        BY <3>1 DEF ToSet
    <2>3. ASSUME NEW n \in ToSet(f)
          PROVE  n \in 1 .. InitSize - 1
      BY <1>n DEF ToSet
    <2> QED
      BY <2>1, <2>2, <2>3
  <1>7. Shared(q, f)
    BY <1>n, <1>2, <1>3, <1>4, <1>5, <1>6 DEF Shared, Init, Threads
  <1>8. ProducerKnows(pc[Producer], loc[Producer], q, f)
    BY DEF ProducerKnows, Init, Threads, NoLocals, IsInjective, Building, Linking,
       Comparing
  <1>9. \A t \in Consumers : ConsumerKnows(pc[t], loc[t])
    BY DEF ConsumerKnows, Init, Threads, NoLocals, Looking, Reading, Freeing
  <1> QED
    BY <1>1, <1>2, <1>7, <1>8, <1>9 DEF PoolInv, Shape

-----------------------------------------------------------------------------
(* Steps that leave both lists alone *)

\* The nodes a thread has for itself at the place p with the locals l.
OwnAt(p, l) ==
  ToSet(l.give)
  \cup (IF p = "swing" THEN {} ELSE {l.node} \ {NULL})
  \cup (IF p \in Freeing THEN {l.old} ELSE {})

\* What a thread owns depends on its place and its locals only.
LEMMA OwnIs == \A t \in Threads : Own(t) = OwnAt(pc[t], loc[t])
  BY DEF Own, OwnAt, Freeing

\* Thread t comes to p with the locals l.
Moves(t, p, l) ==
  /\ pc' = [pc EXCEPT ![t] = p]
  /\ loc' = [loc EXCEPT ![t] = l]

\* A step of one thread leaves the places and locals of the others alone.
LEMMA MovesOne ==
  ASSUME TypeOK, NEW t \in Threads, NEW p, NEW l, Moves(t, p, l)
  PROVE  /\ pc'[t] = p /\ loc'[t] = l
         /\ \A u \in Threads \ {t} : pc'[u] = pc[u] /\ loc'[u] = loc[u]
  BY DEF TypeOK, Moves

\* Neither the lists nor the size of the pool change.
ListsKept == UNCHANGED <<head, tail, free_list, next, size>>

\* What is in the nodes may change.
NodesTyped == elem' \in [Nodes -> Cells] /\ version' \in [Nodes -> Nat] /\ mtx' \in BOOLEAN

\* The types survive a step of one thread.
LEMMA MovesTypes ==
  ASSUME TypeOK, NEW t \in Threads, NEW p, NEW l \in Locals, Moves(t, p, l),
         IF t = Producer THEN p \in ProducerPcs ELSE p \in ConsumerPcs,
         head' \in Nodes, tail' \in Nodes, free_list' \in Ptr, next' \in [Nodes -> Ptr],
         size' \in 1 .. MaxNodes, NodesTyped
  PROVE  TypeOK'
  <1>1. /\ pc' \in [Threads -> ProducerPcs \cup ConsumerPcs]
        /\ pc'[Producer] \in ProducerPcs
        /\ \A u \in Consumers : pc'[u] \in ConsumerPcs
    BY MovesOne, ThreadAssumption DEF TypeOK, Moves, Threads
  <1>2. loc' \in [Threads -> Locals]
    BY DEF TypeOK, Moves
  <1> QED
    BY <1>1, <1>2 DEF TypeOK, NodesTyped

\* A step of the producer that changes no list disturbs nothing else.
LEMMA ProducerQuiet ==
  ASSUME TypeOK, NEW q, NEW f, Shape(q, f),
         NEW p \in ProducerPcs, NEW l \in Locals, Moves(Producer, p, l),
         ListsKept, NodesTyped,
         OwnAt(p, l) = OwnAt(pc[Producer], loc[Producer]), ProducerKnows(p, l, q, f)
  PROVE  TypeOK' /\ Shape(q, f)'
  <1>0. /\ Producer \in Threads /\ Consumers \subseteq Threads \ {Producer}
        /\ pc'[Producer] = p /\ loc'[Producer] = l
        /\ \A u \in Consumers : pc'[u] = pc[u] /\ loc'[u] = loc[u]
    BY MovesOne, ThreadAssumption DEF Threads
  <1>1. TypeOK'
    BY <1>0, MovesTypes DEF TypeOK, ListsKept
  <1>2. \A u \in Threads : Own(u)' = Own(u)
    BY <1>0, OwnIs DEF Threads, Own, OwnAt, Freeing
  <1>3. Shared(q, f)'
    <2>1. Chain(next, q, head)' /\ Chain(next, f, free_list)'
      BY DEF Shape, Shared, ListsKept, Chain
    <2> QED
      BY <1>2, <2>1 DEF Shape, Shared, ListsKept, Threads
  <1>4. ProducerKnows(pc[Producer], loc[Producer], q, f)'
    BY <1>0 DEF ListsKept, ProducerKnows, NotAhead
  <1>5. \A u \in Consumers : ConsumerKnows(pc[u], loc[u])'
    BY <1>0 DEF Shape, ListsKept, ConsumerKnows
  <1> QED
    BY <1>1, <1>3, <1>4, <1>5 DEF Shape

\* The same for a step of the consumer.
LEMMA ConsumerQuiet ==
  ASSUME TypeOK, OneConsumer, NEW q, NEW f, Shape(q, f), NEW t \in Consumers,
         NEW p \in ConsumerPcs, NEW l \in Locals, Moves(t, p, l),
         ListsKept, NodesTyped,
         OwnAt(p, l) = OwnAt(pc[t], loc[t]), ConsumerKnows(p, l)
  PROVE  TypeOK' /\ Shape(q, f)'
  <1>0. /\ t \in Threads /\ Producer \in Threads \ {t} /\ Consumers = {t}
        /\ pc'[t] = p /\ loc'[t] = l
        /\ pc'[Producer] = pc[Producer] /\ loc'[Producer] = loc[Producer]
    BY MovesOne, ThreadAssumption DEF Threads, OneConsumer
  <1>1. TypeOK'
    BY <1>0, MovesTypes DEF TypeOK, ListsKept
  <1>2. \A u \in Threads : Own(u)' = Own(u)
    BY <1>0, OwnIs DEF Threads, Own, OwnAt, Freeing
  <1>3. Shared(q, f)'
    <2>1. Chain(next, q, head)' /\ Chain(next, f, free_list)'
      BY DEF Shape, Shared, ListsKept, Chain
    <2> QED
      BY <1>2, <2>1 DEF Shape, Shared, ListsKept, Threads
  <1>4. ProducerKnows(pc[Producer], loc[Producer], q, f)'
    BY <1>0 DEF Shape, ListsKept, ProducerKnows, NotAhead
  <1>5. \A u \in Consumers : ConsumerKnows(pc[u], loc[u])'
    BY <1>0 DEF ListsKept, ConsumerKnows
  <1> QED
    BY <1>1, <1>3, <1>4, <1>5 DEF Shape

\* What the two lists say of their ends.
LEMMA ListFacts ==
  ASSUME NEW q \in Seq(Nodes), NEW f \in Seq(Nodes), Shared(q, f)
  PROVE  /\ ToSet(q) \subseteq Nodes /\ ToSet(f) \subseteq Nodes
         /\ \A n \in Nodes : n # NULL
         /\ Len(q) \in Nat \ {0} /\ head = q[1] /\ head \in ToSet(q)
         /\ free_list # NULL => free_list \in ToSet(f)
         /\ NotAhead(q, tail)
         /\ \A n \in ToSet(q) : next[n] = NULL => n = q[Len(q)]
  <1>1. ToSet(q) \subseteq Nodes /\ ToSet(f) \subseteq Nodes
    BY DEF ToSet
  <1>2. \A n \in Nodes : n # NULL
    BY SizeAssumption, NullAssumption DEF Nodes
  <1>3. Len(q) \in Nat \ {0} /\ head = q[1] /\ head \in ToSet(q)
    BY EmptySeq DEF Shared, Chain, ToSet
  <1>4. free_list # NULL => free_list \in ToSet(f)
    BY EmptySeq DEF Shared, Chain, ToSet
  <1>5. NotAhead(q, tail)
    BY DEF Shared, Chain, NotAhead, IsInjective
  <1>6. \A n \in ToSet(q) : next[n] = NULL => n = q[Len(q)]
    BY <1>2 DEF Shared, Chain, ToSet
  <1> QED
    BY <1>1, <1>2, <1>3, <1>4, <1>5, <1>6

\* The producer reads, compares or fails: it only learns.
LEMMA ProducerReads ==
  ASSUME TypeOK, NEW q \in Seq(Nodes), NEW f \in Seq(Nodes), Shape(q, f),
         \/ \E v \in Values : CallEnqueue(Producer, v)
         \/ LoadFree(Producer) \/ LoadFreeNext(Producer) \/ PopFreeFails(Producer)
         \/ LockPool(Producer) \/ PushFreeFails(Producer) \/ LoadTail(Producer)
         \/ LoadVersion(Producer) \/ LoadNext(Producer) \/ CheckTail(Producer)
         \/ CheckTailVersion(Producer) \/ AppendFails(Producer) \/ HelpTailFails(Producer)
  PROVE  TypeOK' /\ Shape(q, f)'
  <1> DEFINE P == Producer
             Enqueues(t) == \E v \in Values : CallEnqueue(t, v)
  <1>1. ProducerKnows(pc[P], loc[P], q, f) /\ Shared(q, f)
    BY DEF Shape
  <1>2. loc[P] \in Locals /\ pc[P] \in ProducerPcs /\ P \in Threads
    BY DEF TypeOK, Threads
  <1>3. /\ \A n \in Nodes : next[n] \in Ptr /\ version[n] \in Nat /\ n # NULL
        /\ ToSet(f) \subseteq Nodes /\ ToSet(q) \subseteq Nodes /\ tail \in ToSet(q)
        /\ free_list # NULL => free_list \in ToSet(f)
        /\ NotAhead(q, tail)
        /\ \A n \in ToSet(q) : next[n] = NULL => n = q[Len(q)]
    BY <1>1, ListFacts DEF TypeOK, Shared
  <1> USE DEF Load, Step
  <1>4. CASE LoadFree(P)
    <2> DEFINE p == IF free_list = NULL THEN "dry" ELSE "popNext"
               l == [loc[P] EXCEPT !.old = free_list]
    <2>1. Moves(P, p, l) /\ ListsKept /\ NodesTyped
      BY <1>4, <1>2
      DEF LoadFree, Moves, ListsKept, NodesTyped, TypeOK, sharedVars, endVars,
          nodeVars, poolVars
    <2>2. p \in ProducerPcs /\ l \in Locals
      BY <1>4, <1>1, <1>2, <1>3
      DEF LoadFree, TypeOK, ProducerKnows, Linking, Comparing, Locals, Ptr,
          ProducerPcs, Allocating, Building
    <2>3. OwnAt(p, l) = OwnAt(pc[P], loc[P])
      BY <1>4, <1>2 DEF LoadFree, OwnAt, Freeing, Locals
    <2>4. ProducerKnows(p, l, q, f)
      BY <1>4, <1>1, <1>2, <1>3
      DEF LoadFree, ProducerKnows, Locals, Linking, Comparing, Building
    <2> QED
      BY <2>1, <2>2, <2>3, <2>4, ProducerQuiet
  <1>5. CASE LoadFreeNext(P)
    <2> DEFINE p == "popSwap"
               l == [loc[P] EXCEPT !.nxt = next[loc[P].old]]
    <2>1. Moves(P, p, l) /\ ListsKept /\ NodesTyped
      BY <1>5, <1>2
      DEF LoadFreeNext, Moves, ListsKept, NodesTyped, TypeOK, sharedVars, endVars,
          nodeVars, poolVars
    <2>2. p \in ProducerPcs /\ l \in Locals
      BY <1>5, <1>1, <1>2, <1>3
      DEF LoadFreeNext, TypeOK, ProducerKnows, Linking, Comparing, Locals, Ptr,
          ProducerPcs, Allocating, Building
    <2>3. OwnAt(p, l) = OwnAt(pc[P], loc[P])
      BY <1>5, <1>2 DEF LoadFreeNext, OwnAt, Freeing, Locals
    <2>4. ProducerKnows(p, l, q, f)
      BY <1>5, <1>1, <1>2, <1>3
      DEF LoadFreeNext, ProducerKnows, Locals, Linking, Comparing, Building
    <2> QED
      BY <2>1, <2>2, <2>3, <2>4, ProducerQuiet
  <1>6. CASE PopFreeFails(P)
    <2> DEFINE p == IF free_list = NULL THEN "dry" ELSE "popNext"
               l == [loc[P] EXCEPT !.old = free_list, !.nxt = NULL]
    <2>1. Moves(P, p, l) /\ ListsKept /\ NodesTyped
      BY <1>6, <1>2
      DEF PopFreeFails, Moves, ListsKept, NodesTyped, TypeOK, sharedVars, endVars,
          nodeVars, poolVars
    <2>2. p \in ProducerPcs /\ l \in Locals
      BY <1>6, <1>1, <1>2, <1>3
      DEF PopFreeFails, TypeOK, ProducerKnows, Linking, Comparing, Locals, Ptr,
          ProducerPcs, Allocating, Building
    <2>3. OwnAt(p, l) = OwnAt(pc[P], loc[P])
      BY <1>6, <1>2 DEF PopFreeFails, OwnAt, Freeing, Locals
    <2>4. ProducerKnows(p, l, q, f)
      BY <1>6, <1>1, <1>2, <1>3
      DEF PopFreeFails, ProducerKnows, Locals, Linking, Comparing, Building
    <2> QED
      BY <2>1, <2>2, <2>3, <2>4, ProducerQuiet
  <1>7. CASE LockPool(P)
    <2> DEFINE p == "pop"
               l == loc[P]
    <2>1. Moves(P, p, l) /\ ListsKept /\ NodesTyped
      BY <1>7, <1>2
      DEF LockPool, Moves, ListsKept, NodesTyped, TypeOK, sharedVars, endVars,
          nodeVars, poolVars
    <2>2. p \in ProducerPcs /\ l \in Locals
      BY <1>7, <1>1, <1>2, <1>3
      DEF LockPool, TypeOK, ProducerKnows, Linking, Comparing, Locals, Ptr,
          ProducerPcs, Allocating, Building
    <2>3. OwnAt(p, l) = OwnAt(pc[P], loc[P])
      BY <1>7, <1>2 DEF LockPool, OwnAt, Freeing, Locals
    <2>4. ProducerKnows(p, l, q, f)
      BY <1>7, <1>1, <1>2, <1>3
      DEF LockPool, ProducerKnows, Locals, Linking, Comparing, Building
    <2> QED
      BY <2>1, <2>2, <2>3, <2>4, ProducerQuiet
  <1>8. CASE PushFreeFails(P)
    <2> DEFINE p == "link"
               l == [loc[P] EXCEPT !.old = free_list]
    <2>1. Moves(P, p, l) /\ ListsKept /\ NodesTyped
      BY <1>8, <1>2
      DEF PushFreeFails, Moves, ListsKept, NodesTyped, TypeOK, sharedVars, endVars,
          nodeVars, poolVars
    <2>2. p \in ProducerPcs /\ l \in Locals
      BY <1>8, <1>1, <1>2, <1>3
      DEF PushFreeFails, TypeOK, ProducerKnows, Linking, Comparing, Locals, Ptr,
          ProducerPcs, Allocating, Building
    <2>3. OwnAt(p, l) = OwnAt(pc[P], loc[P])
      BY <1>8, <1>2 DEF PushFreeFails, OwnAt, Freeing, Locals
    <2>4. ProducerKnows(p, l, q, f)
      BY <1>8, <1>1, <1>2, <1>3
      DEF PushFreeFails, ProducerKnows, Locals, Linking, Comparing, Building
    <2> QED
      BY <2>1, <2>2, <2>3, <2>4, ProducerQuiet
  <1>9. CASE LoadTail(P)
    <2> DEFINE p == "version"
               l == [loc[P] EXCEPT !.old = tail]
    <2>1. Moves(P, p, l) /\ ListsKept /\ NodesTyped
      BY <1>9, <1>2
      DEF LoadTail, Moves, ListsKept, NodesTyped, TypeOK, sharedVars, endVars,
          nodeVars, poolVars
    <2>2. p \in ProducerPcs /\ l \in Locals
      BY <1>9, <1>1, <1>2, <1>3
      DEF LoadTail, TypeOK, ProducerKnows, Linking, Comparing, Locals, Ptr,
          ProducerPcs, Allocating, Building
    <2>3. OwnAt(p, l) = OwnAt(pc[P], loc[P])
      BY <1>9, <1>2 DEF LoadTail, OwnAt, Freeing, Locals
    <2>4. ProducerKnows(p, l, q, f)
      BY <1>9, <1>1, <1>2, <1>3
      DEF LoadTail, ProducerKnows, Locals, Linking, Comparing, Building
    <2> QED
      BY <2>1, <2>2, <2>3, <2>4, ProducerQuiet
  <1>10. CASE LoadVersion(P)
    <2> DEFINE p == "next"
               l == [loc[P] EXCEPT !.ver = version[loc[P].old]]
    <2>1. Moves(P, p, l) /\ ListsKept /\ NodesTyped
      BY <1>10, <1>2
      DEF LoadVersion, Moves, ListsKept, NodesTyped, TypeOK, sharedVars, endVars,
          nodeVars, poolVars
    <2>2. p \in ProducerPcs /\ l \in Locals
      BY <1>10, <1>1, <1>2, <1>3
      DEF LoadVersion, TypeOK, ProducerKnows, Linking, Comparing, Locals, Ptr,
          ProducerPcs, Allocating, Building
    <2>3. OwnAt(p, l) = OwnAt(pc[P], loc[P])
      BY <1>10, <1>2 DEF LoadVersion, OwnAt, Freeing, Locals
    <2>4. ProducerKnows(p, l, q, f)
      BY <1>10, <1>1, <1>2, <1>3
      DEF LoadVersion, ProducerKnows, Locals, Linking, Comparing, Building
    <2> QED
      BY <2>1, <2>2, <2>3, <2>4, ProducerQuiet
  <1>11. CASE LoadNext(P)
    <2> DEFINE p == "checkTail"
               l == [loc[P] EXCEPT !.nxt = next[loc[P].old]]
    <2>1. Moves(P, p, l) /\ ListsKept /\ NodesTyped
      BY <1>11, <1>2
      DEF LoadNext, Moves, ListsKept, NodesTyped, TypeOK, sharedVars, endVars,
          nodeVars, poolVars
    <2>2. p \in ProducerPcs /\ l \in Locals
      BY <1>11, <1>1, <1>2, <1>3
      DEF LoadNext, TypeOK, ProducerKnows, Linking, Comparing, Locals, Ptr,
          ProducerPcs, Allocating, Building
    <2>3. OwnAt(p, l) = OwnAt(pc[P], loc[P])
      BY <1>11, <1>2 DEF LoadNext, OwnAt, Freeing, Locals
    <2>4. ProducerKnows(p, l, q, f)
      BY <1>11, <1>1, <1>2, <1>3
      DEF LoadNext, ProducerKnows, Locals, Linking, Comparing, Building
    <2> QED
      BY <2>1, <2>2, <2>3, <2>4, ProducerQuiet
  <1>12. CASE CheckTail(P)
    <2> DEFINE p == IF tail = loc[P].old THEN "checkVersion" ELSE "tail"
               l == IF tail = loc[P].old THEN loc[P]
                    ELSE [loc[P] EXCEPT !.old = NULL, !.ver = 0, !.nxt = NULL]
    <2>1. Moves(P, p, l) /\ ListsKept /\ NodesTyped
      BY <1>12, <1>2
      DEF CheckTail, Goto, Restart, Moves, ListsKept, NodesTyped, TypeOK, sharedVars,
          endVars, nodeVars, poolVars
    <2>2. p \in ProducerPcs /\ l \in Locals
      BY <1>12, <1>1, <1>2, <1>3
      DEF CheckTail, TypeOK, ProducerKnows, Linking, Comparing, Locals, Ptr,
          ProducerPcs, Allocating, Building
    <2>3. OwnAt(p, l) = OwnAt(pc[P], loc[P])
      BY <1>12, <1>2 DEF CheckTail, OwnAt, Freeing, Locals
    <2>4. ProducerKnows(p, l, q, f)
      BY <1>12, <1>1, <1>2, <1>3
      DEF CheckTail, ProducerKnows, Locals, Linking, Comparing, Building
    <2> QED
      BY <2>1, <2>2, <2>3, <2>4, ProducerQuiet
  <1>13. CASE CheckTailVersion(P)
    <2> DEFINE p == IF version[loc[P].old] # loc[P].ver THEN "tail"
                    ELSE IF loc[P].nxt = NULL THEN "append" ELSE "helpTail"
               l == IF version[loc[P].old] = loc[P].ver THEN loc[P]
                    ELSE [loc[P] EXCEPT !.old = NULL, !.ver = 0, !.nxt = NULL]
    <2>1. Moves(P, p, l) /\ ListsKept /\ NodesTyped
      BY <1>13, <1>2
      DEF CheckTailVersion, Goto, Restart, Moves, ListsKept, NodesTyped, TypeOK,
          sharedVars, endVars, nodeVars, poolVars
    <2>2. p \in ProducerPcs /\ l \in Locals
      BY <1>13, <1>1, <1>2, <1>3
      DEF CheckTailVersion, TypeOK, ProducerKnows, Linking, Comparing, Locals, Ptr,
          ProducerPcs, Allocating, Building
    <2>3. OwnAt(p, l) = OwnAt(pc[P], loc[P])
      BY <1>13, <1>2 DEF CheckTailVersion, OwnAt, Freeing, Locals
    <2>4. ProducerKnows(p, l, q, f)
      BY <1>13, <1>1, <1>2, <1>3
      DEF CheckTailVersion, ProducerKnows, Locals, Linking, Comparing, Building
    <2> QED
      BY <2>1, <2>2, <2>3, <2>4, ProducerQuiet
  <1>14. CASE AppendFails(P)
    <2> DEFINE p == "tail"
               l == [loc[P] EXCEPT !.old = NULL, !.ver = 0, !.nxt = NULL]
    <2>1. Moves(P, p, l) /\ ListsKept /\ NodesTyped
      BY <1>14, <1>2
      DEF AppendFails, Restart, Moves, ListsKept, NodesTyped, TypeOK, sharedVars,
          endVars, nodeVars, poolVars
    <2>2. p \in ProducerPcs /\ l \in Locals
      BY <1>14, <1>1, <1>2, <1>3
      DEF AppendFails, TypeOK, ProducerKnows, Linking, Comparing, Locals, Ptr,
          ProducerPcs, Allocating, Building
    <2>3. OwnAt(p, l) = OwnAt(pc[P], loc[P])
      BY <1>14, <1>2 DEF AppendFails, OwnAt, Freeing, Locals
    <2>4. ProducerKnows(p, l, q, f)
      BY <1>14, <1>1, <1>2, <1>3
      DEF AppendFails, ProducerKnows, Locals, Linking, Comparing, Building
    <2> QED
      BY <2>1, <2>2, <2>3, <2>4, ProducerQuiet
  <1>15. CASE HelpTailFails(P)
    <2> DEFINE p == "tail"
               l == [loc[P] EXCEPT !.old = NULL, !.ver = 0, !.nxt = NULL]
    <2>1. Moves(P, p, l) /\ ListsKept /\ NodesTyped
      BY <1>15, <1>2
      DEF HelpTailFails, Restart, Moves, ListsKept, NodesTyped, TypeOK, sharedVars,
          endVars, nodeVars, poolVars
    <2>2. p \in ProducerPcs /\ l \in Locals
      BY <1>15, <1>1, <1>2, <1>3
      DEF HelpTailFails, TypeOK, ProducerKnows, Linking, Comparing, Locals, Ptr,
          ProducerPcs, Allocating, Building
    <2>3. OwnAt(p, l) = OwnAt(pc[P], loc[P])
      BY <1>15, <1>2 DEF HelpTailFails, OwnAt, Freeing, Locals
    <2>4. ProducerKnows(p, l, q, f)
      BY <1>15, <1>1, <1>2, <1>3
      DEF HelpTailFails, ProducerKnows, Locals, Linking, Comparing, Building
    <2> QED
      BY <2>1, <2>2, <2>3, <2>4, ProducerQuiet
  <1>16. CASE Enqueues(P)
    <2> DEFINE p == "pop"
               l == loc[P]
    <2>1. Moves(P, p, l) /\ ListsKept /\ NodesTyped
      BY <1>16, <1>2
      DEF CallEnqueue, Moves, ListsKept, NodesTyped, TypeOK, sharedVars, endVars,
          nodeVars, poolVars
    <2>2. p \in ProducerPcs /\ l \in Locals
      BY <1>16, <1>1, <1>2, <1>3
      DEF CallEnqueue, TypeOK, ProducerKnows, Linking, Comparing, Locals, Ptr,
          ProducerPcs, Allocating, Building
    <2>3. OwnAt(p, l) = OwnAt(pc[P], loc[P])
      BY <1>16, <1>2 DEF CallEnqueue, OwnAt, Freeing, Locals
    <2>4. ProducerKnows(p, l, q, f)
      BY <1>16, <1>1, <1>2, <1>3
      DEF CallEnqueue, ProducerKnows, Locals, Linking, Comparing, Building
    <2> QED
      BY <2>1, <2>2, <2>3, <2>4, ProducerQuiet
  <1> QED
    BY <1>4, <1>5, <1>6, <1>7, <1>8, <1>9, <1>10, <1>11, <1>12, <1>13, <1>14, <1>15,
       <1>16

\* The consumer ends its call or starts over: it has no node, and none then.
LEMMA LeavesTo ==
  ASSUME TypeOK, NEW q, NEW f, Shape(q, f), NEW t \in Consumers, pc[t] \in Looking,
         Continue(t) \/ \E r : Return(t, r)
  PROVE  \E p \in ConsumerPcs, l \in Locals :
           Moves(t, p, l) /\ OwnAt(p, l) = OwnAt(pc[t], loc[t]) /\ ConsumerKnows(p, l)
  <1>1. ConsumerKnows(pc[t], loc[t]) /\ loc[t] \in Locals
    BY DEF Shape, TypeOK, Threads
  <1>2. OwnAt(pc[t], loc[t]) = {}
    BY <1>1, EmptySeq DEF OwnAt, ConsumerKnows, Looking, Reading, Freeing, ToSet, Locals
  <1>3. ASSUME NEW p \in {"idle", "head"}, NEW n \in Nat
        PROVE  /\ p \in ConsumerPcs /\ [NoLocals EXCEPT !.left = n] \in Locals
               /\ OwnAt(p, [NoLocals EXCEPT !.left = n]) = {}
               /\ ConsumerKnows(p, [NoLocals EXCEPT !.left = n])
    <2> DEFINE l == [NoLocals EXCEPT !.left = n]
    <2>1. p \in ConsumerPcs /\ l \in Locals
      <3>1. NoLocals \in Locals
        BY DEF Locals, NoLocals, Ptr, Cells
      <3> QED
        BY <3>1 DEF ConsumerPcs, Locals
    <2>2. OwnAt(p, l) = {}
      BY DEF OwnAt, Freeing, NoLocals, ToSet
    <2>3. ConsumerKnows(p, l)
      BY DEF ConsumerKnows, NoLocals, Looking, Reading, Freeing
    <2> QED
      BY <2>1, <2>2, <2>3
  <1>4. \E p \in {"idle", "head"}, n \in Nat : Moves(t, p, [NoLocals EXCEPT !.left = n])
    <2>1. ASSUME NEW r, Return(t, r)
          PROVE  Moves(t, "idle", [NoLocals EXCEPT !.left = 0])
      BY <2>1 DEF Return, Moves, NoLocals
    <2>2. ASSUME Continue(t), ~GiveUp(t)
          PROVE  /\ loc[t].left - 1 \in Nat
                 /\ Moves(t, "head", [NoLocals EXCEPT !.left = loc[t].left - 1])
      BY <1>1, <2>2 DEF Continue, Moves, Locals
    <2> QED
      BY <2>1, <2>2 DEF GiveUp
  <1> QED
    BY <1>2, <1>3, <1>4

\* A consumer that starts over or returns leaves both lists as they are.
LEMMA ConsumerLeaves ==
  ASSUME TypeOK, OneConsumer, NEW q \in Seq(Nodes), NEW f \in Seq(Nodes), Shape(q, f),
         NEW t \in Consumers, pc[t] \in Looking, ListsKept, NodesTyped,
         Continue(t) \/ \E r : Return(t, r)
  PROVE  TypeOK' /\ Shape(q, f)'
  BY LeavesTo, ConsumerQuiet

\* The consumer reads, moves the element out or changes the version.
LEMMA ConsumerReads ==
  ASSUME TypeOK, OneConsumer, NEW q \in Seq(Nodes), NEW f \in Seq(Nodes), Shape(q, f),
         NEW t \in Consumers,
         \/ LoadHead(t) \/ LoadVersion(t) \/ LoadOldTail(t) \/ LoadNext(t)
         \/ MoveOut(t) \/ Retire(t) \/ PushFreeFails(t)
         \/ \E n \in Attempts : CallDequeue(t, n)
  PROVE  TypeOK' /\ Shape(q, f)'
  <1>1. ConsumerKnows(pc[t], loc[t]) /\ Shared(q, f)
    BY DEF Shape
  <1>2. loc[t] \in Locals /\ pc[t] \in ConsumerPcs /\ t \in Threads /\ t # Producer
    BY ThreadAssumption DEF TypeOK, Threads
  <1>3. \A n \in Nodes :
          next[n] \in Ptr /\ version[n] \in Nat /\ elem[n] \in Cells /\ n # NULL
    BY <1>1, ListFacts DEF TypeOK
  <1> USE DEF Load, Step
  <1>4. CASE LoadHead(t)
    <2> DEFINE p == "version"
               l == [loc[t] EXCEPT !.old = head]
    <2>1. Moves(t, p, l) /\ ListsKept /\ NodesTyped
      BY <1>4, <1>1, <1>2, <1>3
      DEF LoadHead, Moves, ListsKept, NodesTyped, TypeOK, Cells, Freeing,
          ConsumerKnows, sharedVars, endVars, nodeVars, poolVars
    <2>2. p \in ConsumerPcs /\ l \in Locals
      BY <1>4, <1>1, <1>2, <1>3
      DEF LoadHead, TypeOK, ConsumerKnows, Looking, Reading, Locals, Ptr,
          ConsumerPcs, Freeing
    <2>3. OwnAt(p, l) = OwnAt(pc[t], loc[t])
      BY <1>4, <1>2 DEF LoadHead, OwnAt, Freeing, Locals
    <2>4. ConsumerKnows(p, l)
      BY <1>4, <1>1, <1>2, <1>3
      DEF LoadHead, ConsumerKnows, Locals, Looking, Reading, Freeing
    <2> QED
      BY <2>1, <2>2, <2>3, <2>4, ConsumerQuiet
  <1>5. CASE LoadVersion(t)
    <2> DEFINE p == "oldTail"
               l == [loc[t] EXCEPT !.ver = version[loc[t].old]]
    <2>1. Moves(t, p, l) /\ ListsKept /\ NodesTyped
      BY <1>5, <1>1, <1>2, <1>3
      DEF LoadVersion, Moves, ListsKept, NodesTyped, TypeOK, Cells, Freeing,
          ConsumerKnows, sharedVars, endVars, nodeVars, poolVars
    <2>2. p \in ConsumerPcs /\ l \in Locals
      BY <1>5, <1>1, <1>2, <1>3
      DEF LoadVersion, TypeOK, ConsumerKnows, Looking, Reading, Locals, Ptr,
          ConsumerPcs, Freeing
    <2>3. OwnAt(p, l) = OwnAt(pc[t], loc[t])
      BY <1>5, <1>2 DEF LoadVersion, OwnAt, Freeing, Locals
    <2>4. ConsumerKnows(p, l)
      BY <1>5, <1>1, <1>2, <1>3
      DEF LoadVersion, ConsumerKnows, Locals, Looking, Reading, Freeing
    <2> QED
      BY <2>1, <2>2, <2>3, <2>4, ConsumerQuiet
  <1>6. CASE LoadOldTail(t)
    <2> DEFINE p == "next"
               l == [loc[t] EXCEPT !.oldTail = tail]
    <2>1. Moves(t, p, l) /\ ListsKept /\ NodesTyped
      BY <1>6, <1>1, <1>2, <1>3
      DEF LoadOldTail, Moves, ListsKept, NodesTyped, TypeOK, Cells, Freeing,
          ConsumerKnows, sharedVars, endVars, nodeVars, poolVars
    <2>2. p \in ConsumerPcs /\ l \in Locals
      BY <1>6, <1>1, <1>2, <1>3
      DEF LoadOldTail, TypeOK, ConsumerKnows, Looking, Reading, Locals, Ptr,
          ConsumerPcs, Freeing
    <2>3. OwnAt(p, l) = OwnAt(pc[t], loc[t])
      BY <1>6, <1>2 DEF LoadOldTail, OwnAt, Freeing, Locals
    <2>4. ConsumerKnows(p, l)
      BY <1>6, <1>1, <1>2, <1>3
      DEF LoadOldTail, ConsumerKnows, Locals, Looking, Reading, Freeing
    <2> QED
      BY <2>1, <2>2, <2>3, <2>4, ConsumerQuiet
  <1>7. CASE LoadNext(t)
    <2> DEFINE p == "checkHead"
               l == [loc[t] EXCEPT !.nxt = next[loc[t].old]]
    <2>1. Moves(t, p, l) /\ ListsKept /\ NodesTyped
      BY <1>7, <1>1, <1>2, <1>3
      DEF LoadNext, Moves, ListsKept, NodesTyped, TypeOK, Cells, Freeing,
          ConsumerKnows, sharedVars, endVars, nodeVars, poolVars
    <2>2. p \in ConsumerPcs /\ l \in Locals
      BY <1>7, <1>1, <1>2, <1>3
      DEF LoadNext, TypeOK, ConsumerKnows, Looking, Reading, Locals, Ptr,
          ConsumerPcs, Freeing
    <2>3. OwnAt(p, l) = OwnAt(pc[t], loc[t])
      BY <1>7, <1>2 DEF LoadNext, OwnAt, Freeing, Locals
    <2>4. ConsumerKnows(p, l)
      BY <1>7, <1>1, <1>2, <1>3
      DEF LoadNext, ConsumerKnows, Locals, Looking, Reading, Freeing
    <2> QED
      BY <2>1, <2>2, <2>3, <2>4, ConsumerQuiet
  <1>8. CASE MoveOut(t)
    <2> DEFINE p == "retire"
               l == [loc[t] EXCEPT !.item = elem[loc[t].nxt], !.nxt = NULL, !.oldTail = NULL]
    <2>1. Moves(t, p, l) /\ ListsKept /\ NodesTyped
      BY <1>8, <1>1, <1>2, <1>3
      DEF MoveOut, Moves, ListsKept, NodesTyped, TypeOK, Cells, Freeing,
          ConsumerKnows, sharedVars, endVars, nodeVars, poolVars
    <2>2. p \in ConsumerPcs /\ l \in Locals
      BY <1>8, <1>1, <1>2, <1>3
      DEF MoveOut, TypeOK, ConsumerKnows, Looking, Reading, Locals, Ptr, ConsumerPcs,
          Freeing
    <2>3. OwnAt(p, l) = OwnAt(pc[t], loc[t])
      BY <1>8, <1>2 DEF MoveOut, OwnAt, Freeing, Locals
    <2>4. ConsumerKnows(p, l)
      BY <1>8, <1>1, <1>2, <1>3
      DEF MoveOut, ConsumerKnows, Locals, Looking, Reading, Freeing
    <2> QED
      BY <2>1, <2>2, <2>3, <2>4, ConsumerQuiet
  <1>9. CASE Retire(t)
    <2> DEFINE p == "wipe"
               l == loc[t]
    <2>1. Moves(t, p, l) /\ ListsKept /\ NodesTyped
      BY <1>9, <1>1, <1>2, <1>3
      DEF Retire, Moves, ListsKept, NodesTyped, TypeOK, Cells, Freeing,
          ConsumerKnows, sharedVars, endVars, nodeVars, poolVars
    <2>2. p \in ConsumerPcs /\ l \in Locals
      BY <1>9, <1>1, <1>2, <1>3
      DEF Retire, TypeOK, ConsumerKnows, Looking, Reading, Locals, Ptr, ConsumerPcs,
          Freeing
    <2>3. OwnAt(p, l) = OwnAt(pc[t], loc[t])
      BY <1>9, <1>2 DEF Retire, OwnAt, Freeing, Locals
    <2>4. ConsumerKnows(p, l)
      BY <1>9, <1>1, <1>2, <1>3
      DEF Retire, ConsumerKnows, Locals, Looking, Reading, Freeing
    <2> QED
      BY <2>1, <2>2, <2>3, <2>4, ConsumerQuiet
  <1>10. CASE PushFreeFails(t)
    <2> DEFINE p == "link"
               l == [loc[t] EXCEPT !.old = free_list]
    <2>1. Moves(t, p, l) /\ ListsKept /\ NodesTyped
      BY <1>10, <1>1, <1>2, <1>3
      DEF PushFreeFails, Moves, ListsKept, NodesTyped, TypeOK, Cells, Freeing,
          ConsumerKnows, sharedVars, endVars, nodeVars, poolVars
    <2>2. p \in ConsumerPcs /\ l \in Locals
      BY <1>10, <1>1, <1>2, <1>3
      DEF PushFreeFails, TypeOK, ConsumerKnows, Looking, Reading, Locals, Ptr,
          ConsumerPcs, Freeing
    <2>3. OwnAt(p, l) = OwnAt(pc[t], loc[t])
      BY <1>10, <1>2 DEF PushFreeFails, OwnAt, Freeing, Locals
    <2>4. ConsumerKnows(p, l)
      BY <1>10, <1>1, <1>2, <1>3
      DEF PushFreeFails, ConsumerKnows, Locals, Looking, Reading, Freeing
    <2> QED
      BY <2>1, <2>2, <2>3, <2>4, ConsumerQuiet
  <1>11. ASSUME NEW n \in Attempts, CallDequeue(t, n)
        PROVE  TypeOK' /\ Shape(q, f)'
    <2> DEFINE l == [loc[t] EXCEPT !.left = n]
    <2>1. Moves(t, "head", l) /\ ListsKept /\ NodesTyped
      BY <1>11, <1>2
      DEF CallDequeue, Moves, ListsKept, NodesTyped, TypeOK, endVars, nodeVars, poolVars
    <2>2. "head" \in ConsumerPcs /\ l \in Locals
      BY <1>11, <1>2, AttemptAssumption DEF ConsumerPcs, Locals
    <2>3. OwnAt("head", l) = OwnAt(pc[t], loc[t])
      BY <1>11, <1>2 DEF CallDequeue, OwnAt, Freeing, Locals
    <2>4. ConsumerKnows("head", l)
      BY <1>11, <1>1, <1>2
      DEF CallDequeue, ConsumerKnows, Locals, Looking, Reading, Freeing
    <2> QED
      BY <2>1, <2>2, <2>3, <2>4, ConsumerQuiet
  <1> QED
    BY <1>4, <1>5, <1>6, <1>7, <1>8, <1>9, <1>10, <1>11

\* The consumer decides on what it has read.
LEMMA ConsumerDecides ==
  ASSUME TypeOK, OneConsumer, NEW q \in Seq(Nodes), NEW f \in Seq(Nodes), Shape(q, f),
         NEW t \in Consumers,
         CheckHead(t) \/ CheckHeadVersion(t) \/ CheckElem(t) \/ TakeFails(t)
  PROVE  TypeOK' /\ Shape(q, f)'
  <1>1. ConsumerKnows(pc[t], loc[t]) /\ loc[t] \in Locals
    BY DEF Shape, TypeOK, Threads
  <1>2. pc[t] \in Reading /\ ListsKept /\ NodesTyped
    BY DEF CheckHead, CheckHeadVersion, CheckElem, TakeFails, Reading, ListsKept,
           NodesTyped, TypeOK, sharedVars, endVars, nodeVars, poolVars
  <1>3. pc[t] \in Looking
    BY <1>2 DEF Looking
  <1>4. ASSUME NEW p \in Reading, GoOn(t, p), ConsumerKnows(p, loc[t])
        PROVE  TypeOK' /\ Shape(q, f)'
    <2>1. Moves(t, p, loc[t])
      BY <1>4 DEF GoOn, Goto, Moves, TypeOK, Threads
    <2>2. p \in ConsumerPcs
      BY <1>4 DEF ConsumerPcs, Looking
    <2>3. OwnAt(p, loc[t]) = OwnAt(pc[t], loc[t])
      BY <1>2, <1>4 DEF OwnAt, Reading, Freeing
    <2> QED
      BY <1>1, <1>2, <1>4, <2>1, <2>2, <2>3, ConsumerQuiet
  <1>5. ASSUME Continue(t) \/ \E r : Return(t, r)
        PROVE  TypeOK' /\ Shape(q, f)'
    BY <1>2, <1>3, <1>5, ConsumerLeaves
  <1> USE DEF Looking, Reading, Freeing
  <1>6. CASE CheckHead(t)
    BY <1>1, <1>4, <1>5, <1>6 DEF CheckHead, ConsumerKnows
  <1>7. CASE CheckHeadVersion(t)
    <2>1. loc[t].old = loc[t].oldTail /\ loc[t].nxt # NULL /\ pc[t] = "checkVersion"
            => ConsumerKnows("helpTail", loc[t])
      BY <1>1 DEF ConsumerKnows
    <2>2. loc[t].old # loc[t].oldTail /\ loc[t].nxt # NULL /\ pc[t] = "checkVersion"
            => ConsumerKnows("checkElem", loc[t])
      BY <1>1 DEF ConsumerKnows
    <2> QED
      BY <1>4, <1>5, <1>7, <2>1, <2>2 DEF CheckHeadVersion
  <1>8. CASE CheckElem(t)
    BY <1>1, <1>4, <1>5, <1>8 DEF CheckElem, ConsumerKnows
  <1>9. CASE TakeFails(t)
    BY <1>5, <1>9 DEF TakeFails
  <1> QED
    BY <1>6, <1>7, <1>8, <1>9

-----------------------------------------------------------------------------
(* What happens to a list *)

\* A sequence without repetition and what is behind its head.
LEMMA InjectiveTail ==
  ASSUME NEW s \in Seq(Nodes), s # <<>>, IsInjective(s)
  PROVE  /\ Tail(s) \in Seq(Nodes) /\ IsInjective(Tail(s))
         /\ ToSet(s) = {s[1]} \cup ToSet(Tail(s)) /\ s[1] \notin ToSet(Tail(s))
         /\ Len(Tail(s)) = Len(s) - 1 /\ Len(s) \in Nat \ {0}
         /\ \A i \in 1 .. Len(s) - 1 : Tail(s)[i] = s[i + 1]
         /\ Tail(s) = <<>> <=> Len(s) = 1
  <1> DEFINE r == Tail(s)
  <1>1. /\ Len(s) \in Nat \ {0} /\ r \in Seq(Nodes) /\ Len(r) = Len(s) - 1
        /\ \A i \in 1 .. Len(s) - 1 : r[i] = s[i + 1]
        /\ DOMAIN s = 1 .. Len(s) /\ DOMAIN r = 1 .. Len(r)
    BY EmptySeq
  <1> HIDE DEF r
  <1>2. \A i, j \in 1 .. Len(s) : s[i] = s[j] => i = j
    BY <1>1 DEF IsInjective
  <1>3. IsInjective(r)
    BY <1>1, <1>2 DEF IsInjective
  <1>4. r = <<>> <=> Len(s) = 1
    <2>1. r = <<>> <=> Len(r) = 0
      BY <1>1, EmptySeq
    <2> QED
      BY <1>1, <2>1
  <1>5. ToSet(s) = {s[1]} \cup ToSet(r)
    <2>1. ASSUME NEW n \in ToSet(s), n # s[1]
          PROVE  n \in ToSet(r)
      <3>1. PICK i \in 1 .. Len(s) : n = s[i]
        BY <1>1 DEF ToSet
      <3>2. i - 1 \in 1 .. Len(r) /\ r[i - 1] = n
        BY <1>1, <1>2, <2>1, <3>1
      <3> QED
        BY <1>1, <3>2 DEF ToSet
    <2>2. ToSet(r) \subseteq ToSet(s) /\ s[1] \in ToSet(s)
      BY <1>1 DEF ToSet
    <2> QED
      BY <2>1, <2>2
  <1>6. s[1] \notin ToSet(r)
    BY <1>1, <1>2 DEF ToSet
  <1> QED
    BY <1>1, <1>3, <1>4, <1>5, <1>6 DEF r

\* Without its first node a chain is a chain.
LEMMA ChainTail ==
  ASSUME NEW nx, NEW s \in Seq(Nodes), NEW a, Chain(nx, s, a), s # <<>>
  PROVE  /\ Tail(s) \in Seq(Nodes) /\ Chain(nx, Tail(s), nx[a])
         /\ ToSet(s) = {a} \cup ToSet(Tail(s)) /\ a \notin ToSet(Tail(s))
         /\ Len(Tail(s)) = Len(s) - 1 /\ Len(s) \in Nat \ {0}
         /\ \A i \in 1 .. Len(s) - 1 : Tail(s)[i] = s[i + 1]
  <1> DEFINE r == Tail(s)
  <1>1. /\ r \in Seq(Nodes) /\ IsInjective(r)
        /\ ToSet(s) = {s[1]} \cup ToSet(r) /\ s[1] \notin ToSet(r)
        /\ Len(r) = Len(s) - 1 /\ Len(s) \in Nat \ {0}
        /\ \A i \in 1 .. Len(s) - 1 : r[i] = s[i + 1]
        /\ r = <<>> <=> Len(s) = 1
    BY InjectiveTail DEF Chain
  <1> HIDE DEF r
  <1>2. a = s[1]
    BY DEF Chain
  <1>3. nx[a] = IF r = <<>> THEN NULL ELSE r[1]
    BY <1>1, <1>2 DEF Chain
  <1>4. ASSUME NEW i \in 1 .. Len(r)
        PROVE  nx[r[i]] = IF i = Len(r) THEN NULL ELSE r[i + 1]
    BY <1>1 DEF Chain
  <1> QED
    BY <1>1, <1>2, <1>3, <1>4 DEF Chain, r

\* A node linked to the first node of a chain makes a longer chain.
LEMMA ChainCons ==
  ASSUME NEW nx, NEW s \in Seq(Nodes), NEW b, Chain(nx, s, b),
         NEW n \in Nodes, n \notin ToSet(s), nx[n] = b
  PROVE  /\ <<n>> \o s \in Seq(Nodes) /\ Chain(nx, <<n>> \o s, n)
         /\ ToSet(<<n>> \o s) = {n} \cup ToSet(s)
  <1> DEFINE r == <<n>> \o s
  <1>1. /\ Len(s) \in Nat /\ r \in Seq(Nodes) /\ Len(r) = Len(s) + 1 /\ r[1] = n
        /\ DOMAIN s = 1 .. Len(s) /\ DOMAIN r = 1 .. Len(r)
    OBVIOUS
  <1>2. \A i \in 2 .. Len(r) : i - 1 \in 1 .. Len(s) /\ r[i] = s[i - 1]
    OBVIOUS
  <1>b. b = IF Len(s) = 0 THEN NULL ELSE s[1]
    BY EmptySeq DEF Chain
  <1>c. \A j \in 1 .. Len(s) : nx[s[j]] = IF j = Len(s) THEN NULL ELSE s[j + 1]
    BY DEF Chain
  <1> HIDE DEF r
  <1>3. IsInjective(r)
    <2>1. \A i, j \in 1 .. Len(s) : s[i] = s[j] => i = j
      BY <1>1 DEF Chain, IsInjective
    <2>2. \A i \in 1 .. Len(s) : s[i] # n
      BY <1>1 DEF ToSet
    <2> QED
      BY <1>1, <1>2, <2>1, <2>2 DEF IsInjective
  <1>4. r # <<>>
    BY <1>1
  <1>5. ASSUME NEW i \in 1 .. Len(r)
        PROVE  nx[r[i]] = IF i = Len(r) THEN NULL ELSE r[i + 1]
    <2>1. i # Len(r) => r[i + 1] = s[i]
      <3>1. i # Len(r) => i + 1 \in 2 .. Len(r) /\ (i + 1) - 1 = i
        BY <1>1
      <3> QED
        BY <1>2, <3>1
    <2>2. CASE i = 1
      BY <1>1, <1>b, <2>1, <2>2
    <2>3. CASE i # 1
      <3>1. i \in 2 .. Len(r)
        BY <1>1, <2>3
      <3>2. i - 1 \in 1 .. Len(s) /\ r[i] = s[i - 1]
        BY <1>2, <3>1
      <3>3. nx[s[i - 1]] = IF i - 1 = Len(s) THEN NULL ELSE s[(i - 1) + 1]
        BY <1>c, <3>2
      <3>4. (i - 1) + 1 = i /\ (i - 1 = Len(s) <=> i = Len(r))
        BY <1>1
      <3> QED
        BY <2>1, <3>2, <3>3, <3>4
    <2> QED
      BY <2>2, <2>3
  <1>6. ToSet(r) = {n} \cup ToSet(s)
    <2>1. ToSet(r) \subseteq {n} \cup ToSet(s)
      BY <1>1, <1>2 DEF ToSet
    <2>2. ASSUME NEW m \in ToSet(s)
          PROVE  m \in ToSet(r)
      <3>1. PICK i \in 1 .. Len(s) : m = s[i]
        BY <1>1 DEF ToSet
      <3>2. i + 1 \in 2 .. Len(r) /\ (i + 1) - 1 = i
        BY <1>1
      <3>3. i + 1 \in DOMAIN r /\ r[i + 1] = m
        BY <1>1, <1>2, <3>1, <3>2
      <3> QED
        BY <3>3 DEF ToSet
    <2>3. n \in ToSet(r)
      BY <1>1 DEF ToSet
    <2> QED
      BY <2>1, <2>2, <2>3
  <1> QED
    BY <1>1, <1>3, <1>4, <1>5, <1>6 DEF Chain, r

\* So does a node that the last node of a chain is linked to.
LEMMA ChainAppend ==
  ASSUME NEW nx, NEW s \in Seq(Nodes), NEW a, Chain(nx, s, a), s # <<>>,
         NEW n \in Nodes, n \notin ToSet(s), nx[n] = NULL,
         NEW ny, ny[s[Len(s)]] = n, \A m \in Nodes : m # s[Len(s)] => ny[m] = nx[m]
  PROVE  /\ Append(s, n) \in Seq(Nodes)
         /\ Chain(ny, Append(s, n), a)
         /\ ToSet(Append(s, n)) = ToSet(s) \cup {n}
         /\ Len(Append(s, n)) = Len(s) + 1 /\ Append(s, n)[Len(s) + 1] = n
         /\ \A i \in 1 .. Len(s) : Append(s, n)[i] = s[i]
  <1> DEFINE r == Append(s, n)
  <1>1. /\ Len(s) \in Nat \ {0} /\ r \in Seq(Nodes) /\ Len(r) = Len(s) + 1
        /\ DOMAIN s = 1 .. Len(s) /\ DOMAIN r = 1 .. Len(r)
        /\ r[Len(s) + 1] = n
    BY EmptySeq
  <1>n. Len(s) \in Nat \ {0} /\ Len(r) = Len(s) + 1
    BY <1>1
  <1>2. \A i \in 1 .. Len(s) : r[i] = s[i] /\ s[i] \in Nodes /\ s[i] # n
    BY DEF ToSet
  <1>3. \A i, j \in 1 .. Len(s) : s[i] = s[j] => i = j
    BY <1>1 DEF Chain, IsInjective
  <1>4. /\ \A m \in Nodes : m # s[Len(s)] => ny[m] = nx[m]
        /\ ny[s[Len(s)]] = n
    OBVIOUS
  <1>b. a = s[1]
    BY DEF Chain
  <1>c. \A j \in 1 .. Len(s) : nx[s[j]] = IF j = Len(s) THEN NULL ELSE s[j + 1]
    BY DEF Chain
  <1> HIDE DEF r
  <1>5. IsInjective(r)
    BY <1>1, <1>2, <1>3 DEF IsInjective
  <1>6. r # <<>> /\ a = r[1]
    <2>1. 1 \in 1 .. Len(s) /\ 1 \in DOMAIN r
      BY <1>1
    <2> QED
      BY <1>1, <1>2, <1>b, <2>1, EmptySeq
  <1>7. ASSUME NEW i \in 1 .. Len(r)
        PROVE  ny[r[i]] = IF i = Len(r) THEN NULL ELSE r[i + 1]
    <2>1. i = Len(r) \/ i = Len(s) \/ (i \in 1 .. Len(s) /\ i + 1 \in 1 .. Len(s))
      BY <1>n
    <2>2. CASE i = Len(r)
      <3>1. r[i] = n /\ n # s[Len(s)]
        BY <1>1, <1>2, <2>2
      <3> QED
        BY <1>4, <2>2, <3>1
    <2>3. CASE i = Len(s)
      <3>1. i \in 1 .. Len(s) /\ i # Len(r)
        BY <1>n, <2>3
      <3> QED
        BY <1>1, <1>2, <1>4, <2>3, <3>1
    <2>4. CASE i \in 1 .. Len(s) /\ i + 1 \in 1 .. Len(s)
      <3>1. i # Len(s) /\ i # Len(r) /\ Len(s) \in 1 .. Len(s)
        BY <1>n, <2>4
      <3>2. r[i] = s[i] /\ r[i + 1] = s[i + 1] /\ s[i] \in Nodes /\ s[i] # s[Len(s)]
        BY <1>2, <1>3, <2>4, <3>1
      <3>3. nx[s[i]] = s[i + 1]
        BY <1>c, <2>4, <3>1
      <3> QED
        BY <1>4, <3>1, <3>2, <3>3
    <2> QED
      BY <2>1, <2>2, <2>3, <2>4
  <1>8. ToSet(r) = ToSet(s) \cup {n}
    <2>1. ToSet(r) \subseteq ToSet(s) \cup {n}
      BY <1>1, <1>2 DEF ToSet
    <2>2. ToSet(s) \subseteq ToSet(r) /\ n \in ToSet(r)
      BY <1>1, <1>2 DEF ToSet
    <2> QED
      BY <2>1, <2>2
  <1> QED
    BY <1>1, <1>2, <1>5, <1>6, <1>7, <1>8 DEF Chain, r

\* A list does not change with links outside of it.
LEMMA ChainFrame ==
  ASSUME NEW nx, NEW ny, NEW s \in Seq(Nodes), NEW a, Chain(nx, s, a),
         \A n \in ToSet(s) : ny[n] = nx[n]
  PROVE  Chain(ny, s, a)
  BY DEF Chain, ToSet

-----------------------------------------------------------------------------
(* Steps that change a list *)

\* Whose nodes a step of t changes.
LEMMA OwnMoves ==
  ASSUME TypeOK, NEW t \in Threads, NEW p, NEW l, Moves(t, p, l)
  PROVE  /\ Own(t)' = OwnAt(p, l)
         /\ \A u \in Threads \ {t} : Own(u)' = Own(u)
  BY MovesOne DEF Own, OwnAt, Freeing

\* The producer's knowledge survives a change of links elsewhere, and a longer
\* free list.
LEMMA ProducerKeeps ==
  ASSUME NEW q \in Seq(Nodes), q # <<>>, NEW f, NEW g, NEW p, NEW l \in Locals,
         ProducerKnows(p, l, q, f), ToSet(f) \subseteq ToSet(g),
         tail \in ToSet(q), tail' = tail,
         \A n \in ToSet(q) \cup ToSet(f) \cup OwnAt(p, l) : next'[n] = next[n]
  PROVE  ProducerKnows(p, l, q, g)'
  <1>1. p = "give" => next'[Head(l.give)] = l.old
    <2>1. p = "give" => Head(l.give) \in ToSet(l.give)
      BY EmptySeq DEF ProducerKnows, Locals, ToSet
    <2> QED
      BY <2>1 DEF ProducerKnows, OwnAt
  <1>2. p = "popSwap" => l.nxt = next'[l.old]
    BY DEF ProducerKnows
  <1>3. p \in Linking \cup {"tail"} => next'[l.node] = NULL
    <2>1. p \in Linking \cup {"tail"} => l.node \in OwnAt(p, l)
      BY DEF ProducerKnows, OwnAt, Linking, Comparing, Building
    <2> QED
      BY <2>1 DEF ProducerKnows
  <1>4. p \in Comparing /\ l.old = tail => l.nxt = next'[l.old]
    BY DEF ProducerKnows
  <1> QED
    BY <1>1, <1>2, <1>3, <1>4 DEF ProducerKnows, NotAhead

\* The consumer's knowledge survives a change of links elsewhere, and the
\* append of a node to the dummy node.
LEMMA ConsumerKeeps ==
  ASSUME NEW p, NEW l \in Locals, ConsumerKnows(p, l), head' = head, tail' = tail,
         \A n \in OwnAt(p, l) : next'[n] = next[n],
         next'[head] = next[head] \/ next[head] = NULL
  PROVE  ConsumerKnows(p, l)'
  <1>1. p = "give" => next'[Head(l.give)] = l.old
    <2>1. p = "give" => Head(l.give) \in ToSet(l.give)
      BY EmptySeq DEF ConsumerKnows, Locals, ToSet
    <2> QED
      BY <2>1 DEF ConsumerKnows, OwnAt
  <1>2. p \in Reading /\ l.nxt # NULL => l.nxt = next'[l.old]
    BY DEF ConsumerKnows, Looking
  <1> QED
    BY <1>1, <1>2 DEF ConsumerKnows

\* tail moves on in the queue: nobody's knowledge is lost.
LEMMA TailForward ==
  ASSUME NEW q \in Seq(Nodes), NEW f, IsInjective(q), head = q[1],
         NEW i \in 1 .. Len(q), NEW k \in i .. Len(q), q[i] = tail, q[k] = tail',
         head' = head, next' = next
  PROVE  /\ \A p, l : ProducerKnows(p, l, q, f) => ProducerKnows(p, l, q, f)'
         /\ \A p, l : ConsumerKnows(p, l) => ConsumerKnows(p, l)'
  <1>0. /\ \A x, y \in 1 .. Len(q) : q[x] = q[y] => x = y
        /\ 1 \in 1 .. Len(q) /\ k \in 1 .. Len(q) /\ i <= k
    BY DEF IsInjective
  <1>1. \A n : NotAhead(q, n) => NotAhead(q, n)'
    <2> SUFFICES ASSUME NEW n, NotAhead(q, n), NEW x \in 1 .. Len(q), NEW y \in 1 .. Len(q),
                        q[x] = n, q[y] = tail'
                 PROVE  x <= y
      BY DEF NotAhead
    <2>1. y = k
      BY <1>0
    <2>2. x <= i
      BY DEF NotAhead
    <2> QED
      BY <1>0, <2>1, <2>2
  <1>2. \A n : NotAhead(q, n) /\ n = tail' => n = tail
    <2> SUFFICES ASSUME NotAhead(q, tail')
                 PROVE  tail' = tail
      OBVIOUS
    <2>1. k <= i
      BY <1>0 DEF NotAhead
    <2> QED
      BY <1>0, <2>1
  <1>3. tail # head => tail' # head
    <2>1. tail' = head => k = 1
      BY <1>0
    <2> QED
      BY <1>0, <2>1
  <1>4. ASSUME NEW p, NEW l, ProducerKnows(p, l, q, f)
        PROVE  ProducerKnows(p, l, q, f)'
    <2>1. p \in Comparing => NotAhead(q, l.old)
      BY <1>4 DEF ProducerKnows, Linking
    <2>2. p \in Comparing /\ l.old = tail' => l.nxt = next[l.old]
      BY <1>2, <1>4, <2>1 DEF ProducerKnows
    <2> QED
      BY <1>1, <1>4, <2>2 DEF ProducerKnows
  <1>5. ASSUME NEW p, NEW l, ConsumerKnows(p, l)
        PROVE  ConsumerKnows(p, l)'
    BY <1>3, <1>5 DEF ConsumerKnows
  <1> QED
    BY <1>4, <1>5

\* A step of the producer: what has to be shown of it.
LEMMA ProducerStep ==
  ASSUME TypeOK, NEW q \in Seq(Nodes), NEW f \in Seq(Nodes),
         NEW p \in ProducerPcs, NEW l \in Locals, Moves(Producer, p, l),
         head' \in Nodes, tail' \in Nodes, free_list' \in Ptr, next' \in [Nodes -> Ptr],
         size' \in 1 .. MaxNodes, NodesTyped,
         Shared(q, f)', ProducerKnows(p, l, q, f)',
         \A u \in Consumers : \A pu, lu :
           pu = pc[u] /\ lu = loc[u] => ConsumerKnows(pu, lu)'
  PROVE  TypeOK' /\ Shape(q, f)'
  <1>0. /\ Producer \in Threads /\ Consumers \subseteq Threads \ {Producer}
        /\ pc'[Producer] = p /\ loc'[Producer] = l
        /\ \A u \in Consumers : pc'[u] = pc[u] /\ loc'[u] = loc[u]
    BY MovesOne, ThreadAssumption DEF Threads
  <1>1. TypeOK'
    BY <1>0, MovesTypes
  <1>2. ProducerKnows(pc[Producer], loc[Producer], q, f)'
    BY <1>0 DEF ProducerKnows
  <1>3. \A u \in Consumers : ConsumerKnows(pc[u], loc[u])'
    BY <1>0 DEF ConsumerKnows
  <1> QED
    BY <1>1, <1>2, <1>3 DEF Shape

\* A step of the consumer: what has to be shown of it.
LEMMA ConsumerStep ==
  ASSUME TypeOK, OneConsumer, NEW q \in Seq(Nodes), NEW f \in Seq(Nodes),
         NEW t \in Consumers,
         NEW p \in ConsumerPcs, NEW l \in Locals, Moves(t, p, l),
         head' \in Nodes, tail' \in Nodes, free_list' \in Ptr, next' \in [Nodes -> Ptr],
         size' = size, NodesTyped,
         Shared(q, f)', ConsumerKnows(p, l)',
         \A pu, lu : pu = pc[Producer] /\ lu = loc[Producer] => ProducerKnows(pu, lu, q, f)'
  PROVE  TypeOK' /\ Shape(q, f)'
  <1>0. /\ t \in Threads /\ t # Producer /\ Producer \in Threads \ {t} /\ Consumers = {t}
        /\ pc'[t] = p /\ loc'[t] = l
        /\ pc'[Producer] = pc[Producer] /\ loc'[Producer] = loc[Producer]
    BY MovesOne, ThreadAssumption DEF Threads, OneConsumer
  <1>1. TypeOK'
    BY <1>0, MovesTypes DEF TypeOK
  <1>2. ProducerKnows(pc[Producer], loc[Producer], q, f)'
    BY <1>0 DEF ProducerKnows
  <1>3. \A u \in Consumers : ConsumerKnows(pc[u], loc[u])'
    BY <1>0 DEF ConsumerKnows
  <1> QED
    BY <1>1, <1>2, <1>3 DEF Shape

\* What a producer's step may rely on.
LEMMA ProducerStarts ==
  ASSUME TypeOK, NEW q \in Seq(Nodes), NEW f \in Seq(Nodes), Shape(q, f)
  PROVE  /\ Producer \in Threads /\ Consumers \subseteq Threads \ {Producer}
         /\ Threads = {Producer} \cup Consumers
         /\ loc[Producer] \in Locals /\ pc[Producer] \in ProducerPcs
         /\ ProducerKnows(pc[Producer], loc[Producer], q, f)
         /\ Shared(q, f)
         /\ Own(Producer) = OwnAt(pc[Producer], loc[Producer])
         /\ \A u \in Consumers : /\ ConsumerKnows(pc[u], loc[u]) /\ loc[u] \in Locals
                                 /\ Own(u) = OwnAt(pc[u], loc[u])
  BY ThreadAssumption, OwnIs DEF Shape, TypeOK, Threads

\* pop_free takes the first node off the free list.
LEMMA PopFreeStep ==
  ASSUME TypeOK, NEW q \in Seq(Nodes), NEW f \in Seq(Nodes), Shape(q, f), PopFree(Producer)
  PROVE  TypeOK' /\ Shape(q, Tail(f))' /\ Tail(f) \in Seq(Nodes)
  <1> DEFINE P == Producer
             p == "construct"
             g == Tail(f)
  <1>l. PICK l : l = [loc[P] EXCEPT !.node = loc[P].old, !.old = NULL, !.nxt = NULL]
    OBVIOUS
  <1>0. /\ P \in Threads /\ Consumers \subseteq Threads \ {P}
        /\ Threads = {P} \cup Consumers
        /\ loc[P] \in Locals /\ pc[P] = "popSwap"
        /\ ProducerKnows(pc[P], loc[P], q, f) /\ Shared(q, f)
        /\ Own(P) = OwnAt(pc[P], loc[P])
        /\ \A u \in Consumers : /\ ConsumerKnows(pc[u], loc[u]) /\ loc[u] \in Locals
                                /\ Own(u) = OwnAt(pc[u], loc[u])
    BY ProducerStarts DEF PopFree, Step
  <1>1. /\ Moves(P, p, l) /\ NodesTyped
        /\ free_list' = loc[P].nxt /\ UNCHANGED <<head, tail, next, size>>
    BY <1>l, <1>0 DEF PopFree, Step, Moves, NodesTyped, TypeOK, endVars, nodeVars
  <1>2. /\ loc[P].old \in ToSet(f) /\ loc[P].nxt = next[loc[P].old]
        /\ loc[P].give = <<>> /\ loc[P].node = NULL /\ IsInjective(loc[P].give)
    BY <1>0 DEF ProducerKnows, Building, Linking, Comparing
  <1>3. /\ ToSet(f) \subseteq Nodes /\ f # <<>> /\ free_list = loc[P].old
        /\ loc[P].old # NULL /\ loc[P].old \in Nodes
    BY <1>0, <1>2, ListFacts DEF ToSet, PopFree
  <1>4. /\ g \in Seq(Nodes) /\ Chain(next, g, next[free_list])
        /\ ToSet(f) = {free_list} \cup ToSet(g) /\ free_list \notin ToSet(g)
    BY <1>0, <1>3, ChainTail DEF Shared
  <1> HIDE DEF g
  <1>5. p \in ProducerPcs /\ l \in Locals
    BY <1>l, <1>0, <1>3 DEF ProducerPcs, Building, Locals, Ptr
  <1>6. OwnAt(p, l) = {free_list} /\ Own(P) = {}
    BY <1>l, <1>0, <1>2, <1>3 DEF OwnAt, Freeing, Locals, ToSet
  <1>7. Own(P)' = {free_list} /\ \A u \in Consumers : Own(u)' = Own(u)
    BY <1>0, <1>1, <1>6, OwnMoves
  <1>8. Shared(q, g)'
    <2>1. Chain(next, q, head)' /\ Chain(next, g, free_list)'
      BY <1>0, <1>1, <1>2, <1>3, <1>4 DEF Shared
    <2> QED
      BY <1>0, <1>1, <1>4, <1>6, <1>7, <2>1 DEF Shared
  <1>9. ProducerKnows(p, l, q, g)'
    BY <1>l, <1>0, <1>2, <1>3 DEF ProducerKnows, Locals, Building, Linking, Comparing
  <1>10. ASSUME NEW u \in Consumers, NEW pu, NEW lu, pu = pc[u], lu = loc[u]
         PROVE  ConsumerKnows(pu, lu)'
    BY <1>0, <1>1, <1>10 DEF ConsumerKnows
  <1>11. free_list' \in Ptr /\ head' \in Nodes /\ tail' \in Nodes
         /\ next' \in [Nodes -> Ptr] /\ size' \in 1 .. MaxNodes
    BY <1>0, <1>1 DEF TypeOK, Locals
  <1> QED
    BY <1>1, <1>4, <1>5, <1>8, <1>9, <1>10, <1>11, ProducerStep DEF g

\* expand() brings new nodes, which are the producer's own at first.
LEMMA ExpandStep ==
  ASSUME TypeOK, NEW q \in Seq(Nodes), NEW f \in Seq(Nodes), Shape(q, f), Expand(Producer)
  PROVE  TypeOK' /\ Shape(q, f)'
  <1> DEFINE P == Producer
             new == [i \in 1 .. size |-> size + i]
             p == "link"
  <1>l. PICK l : l = [loc[P] EXCEPT !.give = new, !.old = free_list]
    OBVIOUS
  <1>0. /\ P \in Threads /\ Consumers \subseteq Threads \ {P}
        /\ Threads = {P} \cup Consumers
        /\ loc[P] \in Locals /\ pc[P] = "dry"
        /\ ProducerKnows(pc[P], loc[P], q, f) /\ Shared(q, f)
        /\ Own(P) = OwnAt(pc[P], loc[P])
        /\ \A u \in Consumers : /\ ConsumerKnows(pc[u], loc[u]) /\ loc[u] \in Locals
                                /\ Own(u) = OwnAt(pc[u], loc[u])
    BY ProducerStarts DEF Expand, Step
  <1>1. /\ Moves(P, p, l) /\ NodesTyped
        /\ size' = size * 2 /\ UNCHANGED <<head, tail, free_list, next>>
    BY <1>l, <1>0 DEF Expand, Step, Moves, NodesTyped, TypeOK, endVars, nodeVars
  <1>2. size \in 1 .. MaxNodes /\ MaxNodes \in Nat /\ size * 2 <= MaxNodes
    BY SizeAssumption DEF Expand, TypeOK
  <1>3. /\ new \in Seq(Nodes) /\ Len(new) = size /\ new # <<>> /\ IsInjective(new)
        /\ ToSet(new) = size + 1 .. size * 2
    <2>2. new \in Seq(Nodes) /\ Len(new) = size
      BY <1>2 DEF Nodes
    <2>3. IsInjective(new)
      BY <1>2 DEF IsInjective
    <2>4. ASSUME NEW n \in size + 1 .. size * 2
          PROVE  n \in ToSet(new)
      <3>1. n - size \in DOMAIN new /\ new[n - size] = n
        BY <1>2
      <3> QED
        BY <3>1 DEF ToSet
    <2>5. ToSet(new) \subseteq size + 1 .. size * 2
      BY <1>2 DEF ToSet
    <2>6. new # <<>>
      <3> HIDE DEF new
      <3> QED
        BY <1>2, <2>2
    <2> QED
      BY <2>2, <2>3, <2>4, <2>5, <2>6
  <1> HIDE DEF new
  <1>4. loc[P].give = <<>> /\ loc[P].node = NULL
    BY <1>0 DEF ProducerKnows, Building, Linking, Comparing
  <1>5. p \in ProducerPcs /\ l \in Locals
    BY <1>l, <1>0, <1>3 DEF ProducerPcs, Allocating, Locals, TypeOK
  <1>6. OwnAt(p, l) = size + 1 .. size * 2 /\ Own(P) = {}
    BY <1>l, <1>0, <1>3, <1>4 DEF OwnAt, Freeing, Locals, ToSet
  <1>7. Own(P)' = size + 1 .. size * 2 /\ \A u \in Consumers : Own(u)' = Own(u)
    BY <1>0, <1>1, <1>6, OwnMoves
  <1>8. Shared(q, f)'
    <2>1. Chain(next, q, head)' /\ Chain(next, f, free_list)'
      BY <1>0, <1>1 DEF Shared
    <2>2. \A n : n \in 1 .. size * 2 <=> n \in 1 .. size \/ n \in size + 1 .. size * 2
      BY <1>2
    <2>3. \A n : n \in 1 .. size => n \notin size + 1 .. size * 2
      BY <1>2
    <2>4. /\ ToSet(q) \cup ToSet(f) \subseteq 1 .. size
          /\ \A u \in Consumers : Own(u) \subseteq 1 .. size
      BY <1>0 DEF Shared
    <2>5. \A n : n \in 1 .. size' <=> \/ n \in ToSet(q) \cup ToSet(f)
                                   \/ \E t \in Threads : n \in Own(t)'
      <3>1. \A n : (\E t \in Threads : n \in Own(t)')
                    <=> n \in size + 1 .. size * 2 \/ \E u \in Consumers : n \in Own(u)
        BY <1>0, <1>7
      <3>2. \A n : n \in 1 .. size <=> \/ n \in ToSet(q) \cup ToSet(f)
                                     \/ \E u \in Consumers : n \in Own(u)
        BY <1>0, <1>6 DEF Shared
      <3> QED
        BY <1>1, <2>2, <3>1, <3>2
    <2>6. /\ \A t \in Threads : Own(t)' \cap (ToSet(q) \cup ToSet(f)) = {}
          /\ \A t \in Consumers : Own(t)' \cap Own(Producer)' = {}
      BY <1>0, <1>7, <2>3, <2>4 DEF Shared
    <2> QED
      BY <1>0, <1>1, <2>1, <2>5, <2>6 DEF Shared
  <1>9. ProducerKnows(p, l, q, f)'
    BY <1>l, <1>0, <1>3, <1>4 DEF ProducerKnows, Locals, Building, Linking, Comparing
  <1>10. ASSUME NEW u \in Consumers, NEW pu, NEW lu, pu = pc[u], lu = loc[u]
         PROVE  ConsumerKnows(pu, lu)'
    BY <1>0, <1>1, <1>10 DEF ConsumerKnows
  <1>11. free_list' \in Ptr /\ head' \in Nodes /\ tail' \in Nodes
         /\ next' \in [Nodes -> Ptr] /\ size' \in 1 .. MaxNodes
    BY <1>1, <1>2 DEF TypeOK
  <1> QED
    BY <1>1, <1>5, <1>8, <1>9, <1>10, <1>11, ProducerStep

\* What a consumer's step may rely on.
LEMMA ConsumerStarts ==
  ASSUME TypeOK, OneConsumer, NEW q \in Seq(Nodes), NEW f \in Seq(Nodes), Shape(q, f),
         NEW t \in Consumers
  PROVE  /\ Consumers = {t} /\ t \in Threads /\ Producer # t /\ Threads = {Producer, t}
         /\ loc[t] \in Locals /\ pc[t] \in ConsumerPcs /\ ConsumerKnows(pc[t], loc[t])
         /\ loc[Producer] \in Locals
         /\ ProducerKnows(pc[Producer], loc[Producer], q, f)
         /\ Shared(q, f)
         /\ Own(Producer) = OwnAt(pc[Producer], loc[Producer])
         /\ Own(t) = OwnAt(pc[t], loc[t])
  BY ThreadAssumption, OwnIs DEF Shape, TypeOK, Threads, OneConsumer

\* The producer writes the link of a node of its own.
LEMMA ProducerWrites ==
  ASSUME TypeOK, NEW q \in Seq(Nodes), NEW f \in Seq(Nodes), Shape(q, f),
         NEW n \in Own(Producer), NEW v \in Ptr, next' = [next EXCEPT ![n] = v],
         NEW p \in ProducerPcs, NEW l \in Locals, Moves(Producer, p, l),
         UNCHANGED <<head, tail, free_list, size>>, NodesTyped,
         OwnAt(p, l) = Own(Producer), ProducerKnows(p, l, q, f)'
  PROVE  TypeOK' /\ Shape(q, f)'
  <1>0. /\ Producer \in Threads /\ Consumers \subseteq Threads \ {Producer}
        /\ Threads = {Producer} \cup Consumers /\ Shared(q, f)
        /\ \A u \in Consumers : /\ ConsumerKnows(pc[u], loc[u]) /\ loc[u] \in Locals
                                /\ Own(u) = OwnAt(pc[u], loc[u])
    BY ProducerStarts
  <1>1. /\ n \notin ToSet(q) \cup ToSet(f) /\ head \in ToSet(q)
        /\ \A u \in Consumers : n \notin Own(u)
    BY <1>0, ListFacts DEF Shared
  <1>2. \A m : m # n => next'[m] = next[m]
    BY DEF TypeOK
  <1>3. \A u \in Threads : Own(u)' = Own(u)
    BY <1>0, OwnMoves
  <1>4. Shared(q, f)'
    <2>1. Chain(next', q, head) /\ Chain(next', f, free_list)
      <3>1. \A m \in ToSet(q) \cup ToSet(f) : next'[m] = next[m]
        BY <1>1, <1>2
      <3> QED
        BY <1>0, <3>1, ChainFrame DEF Shared
    <2> QED
      BY <1>0, <1>3, <2>1 DEF Shared
  <1>5. ASSUME NEW u \in Consumers, NEW pu, NEW lu, pu = pc[u], lu = loc[u]
        PROVE  ConsumerKnows(pu, lu)'
    <2>1. \A m \in OwnAt(pu, lu) : next'[m] = next[m]
      BY <1>0, <1>1, <1>2, <1>5
    <2>2. next'[head] = next[head]
      BY <1>1, <1>2
    <2> QED
      BY <1>0, <1>5, <2>1, <2>2, ConsumerKeeps
  <1>6. /\ free_list' \in Ptr /\ head' \in Nodes /\ tail' \in Nodes
        /\ next' \in [Nodes -> Ptr] /\ size' \in 1 .. MaxNodes
    BY DEF TypeOK
  <1> QED
    BY <1>4, <1>5, <1>6, ProducerStep

\* The consumer writes the link of a node of its own.
LEMMA ConsumerWrites ==
  ASSUME TypeOK, OneConsumer, NEW q \in Seq(Nodes), NEW f \in Seq(Nodes), Shape(q, f),
         NEW t \in Consumers,
         NEW n \in Own(t), NEW v \in Ptr, next' = [next EXCEPT ![n] = v],
         NEW p \in ConsumerPcs, NEW l \in Locals, Moves(t, p, l),
         UNCHANGED <<head, tail, free_list, size>>, NodesTyped,
         OwnAt(p, l) = Own(t), ConsumerKnows(p, l)'
  PROVE  TypeOK' /\ Shape(q, f)'
  <1>0. /\ Consumers = {t} /\ t \in Threads /\ Producer # t /\ Threads = {Producer, t}
        /\ loc[Producer] \in Locals /\ Shared(q, f)
        /\ ProducerKnows(pc[Producer], loc[Producer], q, f)
        /\ Own(Producer) = OwnAt(pc[Producer], loc[Producer])
    BY ConsumerStarts
  <1>1. n \notin ToSet(q) \cup ToSet(f) /\ n \notin Own(Producer)
    BY <1>0 DEF Shared
  <1>2. \A m : m # n => next'[m] = next[m]
    BY DEF TypeOK
  <1>3. \A u \in Threads : Own(u)' = Own(u)
    BY <1>0, OwnMoves
  <1>4. Shared(q, f)'
    <2>1. Chain(next', q, head) /\ Chain(next', f, free_list)
      <3>1. \A m \in ToSet(q) \cup ToSet(f) : next'[m] = next[m]
        BY <1>1, <1>2
      <3> QED
        BY <1>0, <3>1, ChainFrame DEF Shared
    <2> QED
      BY <1>0, <1>3, <2>1 DEF Shared
  <1>5. ASSUME NEW pu, NEW lu, pu = pc[Producer], lu = loc[Producer]
        PROVE  ProducerKnows(pu, lu, q, f)'
    <2>1. \A m \in ToSet(q) \cup ToSet(f) \cup OwnAt(pu, lu) : next'[m] = next[m]
      BY <1>0, <1>1, <1>2, <1>5
    <2>2. q # <<>> /\ tail \in ToSet(q)
      BY <1>0 DEF Shared
    <2> QED
      BY <1>0, <1>5, <2>1, <2>2, ProducerKeeps
  <1>6. /\ free_list' \in Ptr /\ head' \in Nodes /\ tail' \in Nodes
        /\ next' \in [Nodes -> Ptr] /\ size' = size
    BY DEF TypeOK
  <1> QED
    BY <1>4, <1>5, <1>6, ConsumerStep

\* allocate() writes the node it has popped, which nobody else can reach.
LEMMA ConstructStep ==
  ASSUME TypeOK, NEW q \in Seq(Nodes), NEW f \in Seq(Nodes), Shape(q, f),
         Construct(Producer),
         req[Producer].v \in Values
  PROVE  TypeOK' /\ Shape(q, f)'
  <1> DEFINE P == Producer
             p == "tail"
  <1>l. PICK l : l = loc[P]
    OBVIOUS
  <1>0. /\ P \in Threads /\ loc[P] \in Locals /\ pc[P] = "construct"
        /\ ProducerKnows(pc[P], loc[P], q, f)
        /\ Own(P) = OwnAt(pc[P], loc[P])
    BY ProducerStarts DEF Construct, Step
  <1>1. /\ Moves(P, p, l) /\ NodesTyped /\ next' = [next EXCEPT ![l.node] = NULL]
        /\ UNCHANGED <<head, tail, free_list, size>>
    BY <1>l, <1>0
    DEF Construct, Step, Moves, NodesTyped, Cells, TypeOK, endVars, poolVars
  <1>2. /\ l.give = <<>> /\ l.node # NULL /\ l.node \in Nodes /\ l \in Locals
        /\ l.node \in Own(P) /\ OwnAt(p, l) = Own(P)
    BY <1>l, <1>0 DEF ProducerKnows, OwnAt, Freeing, Building, Locals, Ptr
  <1>3. p \in ProducerPcs /\ NULL \in Ptr
    BY DEF ProducerPcs, Building, Ptr
  <1>4. next'[l.node] = NULL
    BY <1>1, <1>2 DEF TypeOK
  <1>5. ProducerKnows(p, l, q, f)'
    BY <1>l, <1>0, <1>2, <1>4 DEF ProducerKnows, Building, Linking, Comparing
  <1> QED
    BY <1>1, <1>2, <1>3, <1>5, ProducerWrites

\* push_free writes the link of a node of its own.
LEMMA LinkFreeStep ==
  ASSUME TypeOK, OneConsumer, NEW q \in Seq(Nodes), NEW f \in Seq(Nodes), Shape(q, f),
         NEW t \in Threads, LinkFree(t)
  PROVE  TypeOK' /\ Shape(q, f)'
  <1> DEFINE p == "give"
  <1>l. PICK l : l = loc[t]
    OBVIOUS
  <1>n. PICK n : n = Head(l.give)
    OBVIOUS
  <1>1. pc[t] = "link" /\ l \in Locals /\ Own(t) = OwnAt(pc[t], l)
    BY <1>l, OwnIs DEF LinkFree, Step, TypeOK
  <1>2. /\ Moves(t, p, l) /\ NodesTyped /\ next' = [next EXCEPT ![n] = l.old]
        /\ UNCHANGED <<head, tail, free_list, size>>
    BY <1>l, <1>n DEF LinkFree, Step, Moves, NodesTyped, TypeOK, endVars, poolVars
  <1>3. l.old \in Ptr /\ l.give \in Seq(Nodes)
    BY <1>1 DEF Locals
  <1>4. OwnAt(p, l) = Own(t)
    BY <1>1 DEF OwnAt, Freeing
  <1>5. CASE t = Producer
    <2>1. ProducerKnows(pc[t], l, q, f)
      BY <1>l, <1>5 DEF Shape
    <2>2. l.give # <<>>
      BY <1>1, <2>1 DEF ProducerKnows
    <2>3. n \in ToSet(l.give) /\ n \in Nodes
      BY <1>n, <1>3, <2>2, EmptySeq DEF ToSet
    <2>4. n \in Own(t) /\ next'[n] = l.old
      BY <1>2, <1>4, <2>3 DEF OwnAt, TypeOK
    <2>5. ProducerKnows(p, l, q, f)'
      BY <1>1, <1>n, <2>1, <2>4 DEF ProducerKnows, Building, Linking, Comparing
    <2>6. p \in ProducerPcs
      BY DEF ProducerPcs, Allocating
    <2> QED
      BY <1>1, <1>2, <1>3, <1>4, <1>5, <2>4, <2>5, <2>6, ProducerWrites
  <1>6. CASE t \in Consumers
    <2>1. ConsumerKnows(pc[t], l)
      BY <1>l, <1>6 DEF Shape
    <2>2. Len(l.give) = 1
      BY <1>1, <2>1 DEF ConsumerKnows
    <2>3. n \in ToSet(l.give) /\ n \in Nodes
      BY <1>n, <1>3, <2>2 DEF ToSet
    <2>4. n \in Own(t) /\ next'[n] = l.old
      BY <1>2, <1>4, <2>3 DEF OwnAt, TypeOK
    <2>5. ConsumerKnows(p, l)'
      BY <1>1, <1>n, <2>1, <2>4 DEF ConsumerKnows, Looking, Reading, Freeing
    <2>6. p \in ConsumerPcs
      BY DEF ConsumerPcs
    <2> QED
      BY <1>1, <1>2, <1>3, <1>4, <1>6, <2>4, <2>5, <2>6, ConsumerWrites
  <1> QED
    BY <1>5, <1>6 DEF Threads

\* deallocate() writes a node that is no longer in the queue.
LEMMA WipeStep ==
  ASSUME TypeOK, OneConsumer, NEW q \in Seq(Nodes), NEW f \in Seq(Nodes), Shape(q, f),
         NEW t \in Consumers, Wipe(t)
  PROVE  TypeOK' /\ Shape(q, f)'
  <1> DEFINE p == "link"
  <1>n. PICK n : n = loc[t].old
    OBVIOUS
  <1>l. PICK l : l = [loc[t] EXCEPT !.give = <<n>>, !.old = free_list]
    OBVIOUS
  <1>0. /\ t \in Threads /\ loc[t] \in Locals /\ pc[t] = "wipe"
        /\ ConsumerKnows(pc[t], loc[t]) /\ Own(t) = OwnAt(pc[t], loc[t])
    BY ConsumerStarts DEF Wipe, Step
  <1>1. /\ Moves(t, p, l) /\ NodesTyped /\ next' = [next EXCEPT ![n] = NULL]
        /\ UNCHANGED <<head, tail, free_list, size>>
    BY <1>n, <1>l, <1>0
    DEF Wipe, Step, Moves, NodesTyped, Cells, TypeOK, endVars, poolVars
  <1>2. n \in Nodes /\ Len(loc[t].give) = 0 /\ loc[t].node = NULL
    BY <1>n, <1>0 DEF ConsumerKnows, Freeing
  <1>3. l \in Locals /\ l.give = <<n>> /\ l.node = NULL
    <2>1. <<n>> \in Seq(Nodes)
      BY <1>2
    <2> QED
      BY <1>l, <1>0, <1>2, <2>1 DEF Locals, TypeOK
  <1>4. OwnAt(p, l) = {n}
    BY <1>3 DEF OwnAt, Freeing, ToSet
  <1>5. Own(t) = {n}
    <2>1. loc[t].give = <<>>
      BY <1>0, <1>2, EmptySeq DEF Locals
    <2> QED
      BY <1>n, <1>0, <1>2, <2>1 DEF OwnAt, Freeing, ToSet
  <1>6. ConsumerKnows(p, l)'
    BY <1>3 DEF ConsumerKnows, Looking, Reading, Freeing
  <1>7. p \in ConsumerPcs /\ NULL \in Ptr
    BY DEF ConsumerPcs, Ptr
  <1> QED
    BY <1>1, <1>3, <1>4, <1>5, <1>6, <1>7, ConsumerWrites

\* A node goes to the head of the free list.
LEMMA PushFreeStep ==
  ASSUME TypeOK, NEW q \in Seq(Nodes), NEW f \in Seq(Nodes), Shape(q, f), PushFree(Producer)
  PROVE  \E g \in Seq(Nodes) : TypeOK' /\ Shape(q, g)'
  <1> DEFINE P == Producer
  <1>n. PICK n : n = Head(loc[P].give)
    OBVIOUS
  <1>l. PICK l : l = [loc[P] EXCEPT !.give = Tail(loc[P].give), !.old = n]
    OBVIOUS
  <1>p. PICK p : p = IF Len(loc[P].give) = 1 THEN "pop" ELSE "link"
    OBVIOUS
  <1>0. /\ P \in Threads /\ Consumers \subseteq Threads \ {P}
        /\ Threads = {P} \cup Consumers
        /\ loc[P] \in Locals /\ pc[P] = "give"
        /\ ProducerKnows(pc[P], loc[P], q, f) /\ Shared(q, f)
        /\ Own(P) = OwnAt(pc[P], loc[P])
        /\ \A u \in Consumers : ConsumerKnows(pc[u], loc[u])
    BY ProducerStarts DEF PushFree
  <1>1. /\ Moves(P, p, l) /\ NodesTyped /\ free_list = loc[P].old /\ free_list' = n
        /\ UNCHANGED <<head, tail, next, size>>
    BY <1>n, <1>l, <1>p, <1>0 DEF PushFree, Moves, NodesTyped, TypeOK, endVars, nodeVars
  <1>2. /\ loc[P].give \in Seq(Nodes) /\ loc[P].give # <<>> /\ IsInjective(loc[P].give)
        /\ next[n] = free_list /\ loc[P].node = NULL
    BY <1>n, <1>0, <1>1 DEF ProducerKnows, Locals, Building, Linking, Comparing
  <1>3. /\ n \in Nodes /\ Tail(loc[P].give) \in Seq(Nodes) /\ IsInjective(Tail(loc[P].give))
        /\ ToSet(loc[P].give) = {n} \cup ToSet(Tail(loc[P].give))
        /\ n \notin ToSet(Tail(loc[P].give))
        /\ Tail(loc[P].give) = <<>> <=> Len(loc[P].give) = 1
    <2>1. n = loc[P].give[1] /\ n \in Nodes
      BY <1>n, <1>2, EmptySeq
    <2> QED
      BY <1>2, <2>1, InjectiveTail
  <1>4. p \in ProducerPcs /\ l \in Locals
    BY <1>l, <1>p, <1>0, <1>3 DEF ProducerPcs, Allocating, Locals, Ptr
  <1>5. /\ Own(P) = ToSet(loc[P].give) /\ OwnAt(p, l) = ToSet(Tail(loc[P].give))
    BY <1>l, <1>p, <1>0, <1>2, <1>3 DEF OwnAt, Freeing, Locals
  <1>6. n \notin ToSet(q) \cup ToSet(f)
    BY <1>0, <1>3, <1>5 DEF Shared
  <1>7. PICK g : g = <<n>> \o f
    OBVIOUS
  <1>8. g \in Seq(Nodes) /\ Chain(next, g, n) /\ ToSet(g) = {n} \cup ToSet(f)
    BY <1>0, <1>2, <1>3, <1>6, <1>7, ChainCons DEF Shared
  <1>9. /\ Own(P)' = ToSet(Tail(loc[P].give))
        /\ \A u \in Consumers : Own(u)' = Own(u)
    BY <1>0, <1>1, <1>5, OwnMoves
  <1>10. Shared(q, g)'
    <2>1. Chain(next, q, head)' /\ Chain(next, g, free_list)'
      BY <1>0, <1>1, <1>8 DEF Shared
    <2> QED
      BY <1>0, <1>1, <1>3, <1>5, <1>6, <1>8, <1>9, <2>1 DEF Shared
  <1>11. ProducerKnows(p, l, q, g)'
    BY <1>l, <1>p, <1>0, <1>2, <1>3
    DEF ProducerKnows, Locals, Building, Linking, Comparing
  <1>12. ASSUME NEW u \in Consumers, NEW pu, NEW lu, pu = pc[u], lu = loc[u]
         PROVE  ConsumerKnows(pu, lu)'
    BY <1>0, <1>1, <1>12 DEF ConsumerKnows
  <1>13. /\ free_list' \in Ptr /\ head' \in Nodes /\ tail' \in Nodes
         /\ next' \in [Nodes -> Ptr] /\ size' \in 1 .. MaxNodes
    BY <1>1, <1>3 DEF TypeOK, Ptr
  <1>14. TypeOK' /\ Shape(q, g)'
    BY <1>1, <1>4, <1>8, <1>10, <1>11, <1>12, <1>13, ProducerStep
  <1> QED
    BY <1>8, <1>14

\* The same at the end of a dequeue.
LEMMA PushFreeLastStep ==
  ASSUME TypeOK, OneConsumer, NEW q \in Seq(Nodes), NEW f \in Seq(Nodes), Shape(q, f),
         NEW t \in Consumers, PushFreeLast(t)
  PROVE  \E g \in Seq(Nodes) : TypeOK' /\ Shape(q, g)'
  <1> DEFINE P == Producer
             p == "idle"
             l == NoLocals
  <1>n. PICK n : n = Head(loc[t].give)
    OBVIOUS
  <1>0. /\ Consumers = {t} /\ t \in Threads /\ Producer # t /\ Threads = {Producer, t}
        /\ loc[t] \in Locals /\ pc[t] = "give" /\ ConsumerKnows(pc[t], loc[t])
        /\ loc[P] \in Locals /\ ProducerKnows(pc[P], loc[P], q, f) /\ Shared(q, f)
        /\ Own(P) = OwnAt(pc[P], loc[P])
        /\ Own(t) = OwnAt(pc[t], loc[t])
    BY ConsumerStarts DEF PushFreeLast
  <1>1. /\ Moves(t, p, l) /\ NodesTyped /\ free_list = loc[t].old /\ free_list' = n
        /\ UNCHANGED <<head, tail, next, size>>
    BY <1>n, <1>0 DEF PushFreeLast, Return, Moves, NodesTyped, TypeOK, endVars, nodeVars
  <1>2. /\ loc[t].give \in Seq(Nodes) /\ Len(loc[t].give) = 1
        /\ next[n] = free_list /\ loc[t].node = NULL
    BY <1>n, <1>0, <1>1 DEF ConsumerKnows, Locals
  <1>3. n \in Nodes /\ ToSet(loc[t].give) = {n}
    BY <1>n, <1>2 DEF ToSet
  <1>4. p \in ConsumerPcs /\ l \in Locals
    BY DEF ConsumerPcs, Locals, NoLocals, Ptr, Cells
  <1>5. Own(t) = {n} /\ OwnAt(p, l) = {}
    BY <1>0, <1>2, <1>3 DEF OwnAt, Freeing, NoLocals, ToSet
  <1>6. n \notin ToSet(q) \cup ToSet(f)
    BY <1>0, <1>5 DEF Shared
  <1>7. PICK g : g = <<n>> \o f
    OBVIOUS
  <1>8. g \in Seq(Nodes) /\ Chain(next, g, n) /\ ToSet(g) = {n} \cup ToSet(f)
    BY <1>0, <1>2, <1>3, <1>6, <1>7, ChainCons DEF Shared
  <1>9. Own(t)' = {} /\ Own(P)' = Own(P)
    BY <1>0, <1>1, <1>5, OwnMoves
  <1>10. Shared(q, g)'
    <2>1. Chain(next, q, head)' /\ Chain(next, g, free_list)'
      BY <1>0, <1>1, <1>8 DEF Shared
    <2> QED
      BY <1>0, <1>1, <1>5, <1>6, <1>8, <1>9, <2>1 DEF Shared
  <1>11. ConsumerKnows(p, l)'
    BY DEF ConsumerKnows, NoLocals, Looking, Reading, Freeing
  <1>12. ASSUME NEW pu, NEW lu, pu = pc[P], lu = loc[P]
         PROVE  ProducerKnows(pu, lu, q, g)'
    BY <1>0, <1>1, <1>8, <1>12, ProducerKeeps DEF Shared
  <1>13. /\ free_list' \in Ptr /\ head' \in Nodes /\ tail' \in Nodes
         /\ next' \in [Nodes -> Ptr] /\ size' = size
    BY <1>1, <1>3 DEF TypeOK, Ptr
  <1>14. TypeOK' /\ Shape(q, g)'
    BY <1>1, <1>4, <1>8, <1>10, <1>11, <1>12, <1>13, ConsumerStep
  <1> QED
    BY <1>8, <1>14

\* tail stays or moves on in the queue.
Forward(q) ==
  \E i, k \in 1 .. Len(q) : i <= k /\ q[i] = tail /\ q[k] = tail'

\* What both threads know after tail has moved on.
LEMMA ForwardKeeps ==
  ASSUME NEW q \in Seq(Nodes), NEW f \in Seq(Nodes), Shared(q, f), Forward(q),
         UNCHANGED <<head, free_list, next, size>>
  PROVE  /\ \A p, l : ProducerKnows(p, l, q, f) => ProducerKnows(p, l, q, f)'
         /\ \A p, l : ConsumerKnows(p, l) => ConsumerKnows(p, l)'
         /\ tail' \in ToSet(q) /\ tail' \in Nodes
  <1>1. PICK i \in 1 .. Len(q), k \in 1 .. Len(q) : i <= k /\ q[i] = tail /\ q[k] = tail'
    BY DEF Forward
  <1>2. k \in i .. Len(q) /\ IsInjective(q) /\ head = q[1]
    BY <1>1, ListFacts DEF Shared, Chain
  <1>3. tail' \in ToSet(q) /\ tail' \in Nodes
    BY <1>1 DEF ToSet
  <1> QED
    BY <1>1, <1>2, <1>3, TailForward

\* The node behind tail, and the last one, are ahead of it.
LEMMA GoesForward ==
  ASSUME NEW q \in Seq(Nodes), NEW f \in Seq(Nodes), Shared(q, f),
         \/ tail' = next[tail] /\ tail' # NULL
         \/ tail' = q[Len(q)]
         \/ tail' = tail
  PROVE  Forward(q)
  <1>1. Len(q) \in Nat \ {0}
    BY ListFacts
  <1>2. PICK i \in 1 .. Len(q) : q[i] = tail
    BY DEF Shared, ToSet
  <1>3. CASE tail' = next[tail] /\ tail' # NULL
    <2>1. i # Len(q) /\ next[q[i]] = q[i + 1]
      BY <1>2, <1>3 DEF Shared, Chain
    <2>2. i + 1 \in 1 .. Len(q) /\ i <= i + 1
      BY <1>1, <2>1
    <2> QED
      BY <1>2, <1>3, <2>1, <2>2 DEF Forward
  <1>4. CASE tail' = q[Len(q)]
    <2>1. Len(q) \in 1 .. Len(q) /\ i <= Len(q)
      BY <1>1
    <2> QED
      BY <1>2, <1>4, <2>1 DEF Forward
  <1>5. CASE tail' = tail
    BY <1>2, <1>5 DEF Forward
  <1> QED
    BY <1>3, <1>4, <1>5

\* The producer helps tail on, or swings it to its node.
LEMMA ProducerTail ==
  ASSUME TypeOK, NEW q \in Seq(Nodes), NEW f \in Seq(Nodes), Shape(q, f),
         HelpTail(Producer) \/ Swing(Producer)
  PROVE  TypeOK' /\ Shape(q, f)'
  <1> DEFINE P == Producer
  <1>0. /\ P \in Threads /\ Consumers \subseteq Threads \ {P}
        /\ Threads = {P} \cup Consumers
        /\ loc[P] \in Locals
        /\ ProducerKnows(pc[P], loc[P], q, f) /\ Shared(q, f)
        /\ Own(P) = OwnAt(pc[P], loc[P])
        /\ \A u \in Consumers : ConsumerKnows(pc[u], loc[u])
    BY ProducerStarts
  <1>1. UNCHANGED <<head, free_list, next, size>> /\ NodesTyped
    BY DEF HelpTail, Swing, NodesTyped, TypeOK, nodeVars, poolVars
  <1>2. Forward(q)
    <2>1. CASE HelpTail(P)
      <3>1. tail = loc[P].old /\ tail' = loc[P].nxt /\ pc[P] = "helpTail"
        BY <2>1 DEF HelpTail
      <3>2. tail' = next[tail] /\ tail' # NULL
        BY <1>0, <3>1 DEF ProducerKnows, Comparing
      <3> QED
        BY <1>0, <3>2, GoesForward
    <2>2. CASE Swing(P)
      <3>1. pc[P] = "swing" /\ (tail' = loc[P].node \/ tail' = tail)
        BY <2>2 DEF Swing
      <3>2. tail' = q[Len(q)] \/ tail' = tail
        BY <1>0, <3>1 DEF ProducerKnows
      <3> QED
        BY <1>0, <3>2, GoesForward
    <2> QED
      BY <2>1, <2>2
  <1>3. \E p \in ProducerPcs, l \in Locals :
          Moves(P, p, l) /\ OwnAt(p, l) = Own(P) /\ ProducerKnows(p, l, q, f)
    <2>1. CASE HelpTail(P)
      <3> DEFINE p == "tail"
                 l == [loc[P] EXCEPT !.old = NULL, !.ver = 0, !.nxt = NULL]
      <3>1. Moves(P, p, l) /\ pc[P] = "helpTail"
        BY <1>0, <2>1 DEF HelpTail, Restart, Moves, TypeOK
      <3>2. p \in ProducerPcs /\ l \in Locals
        BY <1>0 DEF ProducerPcs, Building, Locals, Ptr
      <3>3. OwnAt(p, l) = Own(P)
        BY <1>0, <3>1 DEF OwnAt, Freeing, Locals
      <3>4. ProducerKnows(p, l, q, f)
        BY <1>0, <3>1 DEF ProducerKnows, Locals, Building, Linking, Comparing
      <3> QED
        BY <3>1, <3>2, <3>3, <3>4
    <2>2. CASE Swing(P)
      <3> DEFINE p == "idle"
                 l == NoLocals
      <3>1. Moves(P, p, l) /\ pc[P] = "swing"
        BY <2>2 DEF Swing, Return, Moves
      <3>2. p \in ProducerPcs /\ l \in Locals
        BY DEF ProducerPcs, Locals, NoLocals, Ptr, Cells
      <3>3. OwnAt(p, l) = {}
        BY DEF OwnAt, Freeing, NoLocals, ToSet
      <3>4. Own(P) = {}
        BY <1>0, <3>1 DEF OwnAt, Freeing, ToSet, ProducerKnows
      <3>5. ProducerKnows(p, l, q, f)
        BY DEF ProducerKnows, NoLocals, IsInjective, Building, Linking, Comparing
      <3> QED
        BY <3>1, <3>2, <3>3, <3>4, <3>5
    <2> QED
      BY <2>1, <2>2
  <1>4. PICK p \in ProducerPcs, l \in Locals :
          Moves(P, p, l) /\ OwnAt(p, l) = Own(P) /\ ProducerKnows(p, l, q, f)
    BY <1>3
  <1>5. /\ ProducerKnows(p, l, q, f)' /\ tail' \in ToSet(q) /\ tail' \in Nodes
        /\ \A pu, lu : ConsumerKnows(pu, lu) => ConsumerKnows(pu, lu)'
    BY <1>0, <1>1, <1>2, <1>4, ForwardKeeps
  <1>6. \A u \in Threads : Own(u)' = Own(u)
    BY <1>0, <1>4, OwnMoves
  <1>7. Shared(q, f)'
    <2>1. Chain(next, q, head)' /\ Chain(next, f, free_list)'
      BY <1>0, <1>1 DEF Shared
    <2> QED
      BY <1>0, <1>1, <1>5, <1>6, <2>1 DEF Shared
  <1>8. /\ free_list' \in Ptr /\ head' \in Nodes
        /\ next' \in [Nodes -> Ptr] /\ size' \in 1 .. MaxNodes
    BY <1>1 DEF TypeOK
  <1>9. ASSUME NEW u \in Consumers, NEW pu, NEW lu, pu = pc[u], lu = loc[u]
        PROVE  ConsumerKnows(pu, lu)'
    BY <1>0, <1>5, <1>9
  <1> QED
    BY <1>1, <1>4, <1>5, <1>7, <1>8, <1>9, ProducerStep

\* The consumer helps tail on.
LEMMA HelpTailOnStep ==
  ASSUME TypeOK, OneConsumer, NEW q \in Seq(Nodes), NEW f \in Seq(Nodes), Shape(q, f),
         NEW t \in Consumers, HelpTailOn(t)
  PROVE  TypeOK' /\ Shape(q, f)'
  <1> DEFINE P == Producer
  <1>0. /\ Consumers = {t} /\ t \in Threads /\ Producer # t /\ Threads = {Producer, t}
        /\ loc[t] \in Locals /\ pc[t] = "helpTail" /\ ConsumerKnows(pc[t], loc[t])
        /\ ProducerKnows(pc[P], loc[P], q, f) /\ Shared(q, f)
        /\ Own(t) = OwnAt(pc[t], loc[t])
    BY ConsumerStarts DEF HelpTailOn
  <1>1. UNCHANGED <<head, free_list, next, size>> /\ NodesTyped
    BY DEF HelpTailOn, NodesTyped, TypeOK, nodeVars, poolVars
  <1>2. Forward(q)
    <2>1. \/ tail = loc[t].oldTail /\ tail' = loc[t].nxt
          \/ tail' = tail
      BY DEF HelpTailOn
    <2>2. loc[t].oldTail = loc[t].old /\ loc[t].nxt # NULL /\ loc[t].nxt = next[loc[t].old]
      BY <1>0 DEF ConsumerKnows, Reading
    <2> QED
      BY <1>0, <2>1, <2>2, GoesForward
  <1>3. PICK p \in ConsumerPcs, l \in Locals :
          Moves(t, p, l) /\ OwnAt(p, l) = OwnAt(pc[t], loc[t]) /\ ConsumerKnows(p, l)
    BY <1>0, LeavesTo DEF HelpTailOn, Looking, Reading
  <1>4. /\ ConsumerKnows(p, l)' /\ tail' \in ToSet(q) /\ tail' \in Nodes
        /\ \A pu, lu : ProducerKnows(pu, lu, q, f) => ProducerKnows(pu, lu, q, f)'
    BY <1>0, <1>1, <1>2, <1>3, ForwardKeeps
  <1>5. \A u \in Threads : Own(u)' = Own(u)
    BY <1>0, <1>3, OwnMoves
  <1>6. Shared(q, f)'
    <2>1. Chain(next, q, head)' /\ Chain(next, f, free_list)'
      BY <1>0, <1>1 DEF Shared
    <2> QED
      BY <1>0, <1>1, <1>4, <1>5, <2>1 DEF Shared
  <1>7. free_list' \in Ptr /\ head' \in Nodes /\ next' \in [Nodes -> Ptr] /\ size' = size
    BY <1>1 DEF TypeOK
  <1>8. ASSUME NEW pu, NEW lu, pu = pc[P], lu = loc[P]
        PROVE  ProducerKnows(pu, lu, q, f)'
    BY <1>0, <1>4, <1>8
  <1> QED
    BY <1>1, <1>3, <1>4, <1>6, <1>7, <1>8, ConsumerStep

\* The node of the producer goes to the end of the queue.
LEMMA AppendNodeStep ==
  ASSUME TypeOK, NEW q \in Seq(Nodes), NEW f \in Seq(Nodes), Shape(q, f),
         AppendNode(Producer)
  PROVE  /\ Append(q, loc[Producer].node) \in Seq(Nodes)
         /\ \E r \in Seq(Nodes) : r = Append(q, loc[Producer].node) /\ TypeOK' /\ Shape(r, f)'
  <1> DEFINE P == Producer
             p == "swing"
  <1>l. PICK l : l = loc[P]
    OBVIOUS
  <1>r. PICK r : r = Append(q, l.node)
    OBVIOUS
  <1>0. /\ P \in Threads /\ Consumers \subseteq Threads \ {P}
        /\ Threads = {P} \cup Consumers
        /\ l \in Locals /\ pc[P] = "append"
        /\ ProducerKnows("append", l, q, f) /\ Shared(q, f)
        /\ Own(P) = OwnAt("append", l)
        /\ \A u \in Consumers : /\ ConsumerKnows(pc[u], loc[u]) /\ loc[u] \in Locals
                                /\ Own(u) = OwnAt(pc[u], loc[u])
    BY <1>l, ProducerStarts DEF AppendNode, Step
  <1>1. /\ Moves(P, p, l) /\ NodesTyped /\ next[l.old] = NULL
        /\ next' = [next EXCEPT ![l.old] = l.node]
        /\ UNCHANGED <<head, tail, free_list, size>>
    BY <1>l, <1>0 DEF AppendNode, Step, Moves, NodesTyped, TypeOK, endVars, poolVars
  <1>2. /\ l.give = <<>> /\ l.node # NULL /\ l.node \in Nodes /\ next[l.node] = NULL
        /\ l.old = q[Len(q)]
    BY <1>0 DEF ProducerKnows, Building, Linking, Comparing, Locals, Ptr
  <1>3. Own(P) = {l.node} /\ OwnAt(p, l) = {}
    BY <1>0, <1>2 DEF OwnAt, Freeing, ToSet
  <1>4. l.node \notin ToSet(q) \cup ToSet(f) /\ q # <<>> /\ Chain(next, q, head)
    BY <1>0, <1>3 DEF Shared
  <1>5. /\ r \in Seq(Nodes) /\ Chain(next', r, head) /\ ToSet(r) = ToSet(q) \cup {l.node}
        /\ Len(r) = Len(q) + 1 /\ r[Len(q) + 1] = l.node
        /\ \A i \in 1 .. Len(q) : r[i] = q[i]
    <2>1. /\ next'[q[Len(q)]] = l.node
          /\ \A m \in Nodes : m # q[Len(q)] => next'[m] = next[m]
      <3>1. l.old \in Nodes /\ next \in [Nodes -> Ptr]
        BY <1>0 DEF ProducerKnows, Linking, Comparing, TypeOK
      <3> QED
        BY <1>1, <1>2, <3>1
    <2>2. l.node \notin ToSet(q)
      BY <1>4
    <2> QED
      BY <1>r, <1>2, <1>4, <2>1, <2>2, ChainAppend
  <1>6. l.old \in ToSet(q) /\ \A m : m # l.old => next'[m] = next[m]
    <2>1. l.old \in ToSet(q)
      BY <1>0, <1>2, ListFacts DEF ToSet
    <2> QED
      BY <1>1, <2>1 DEF TypeOK
  <1>7. Own(P)' = {} /\ \A u \in Consumers : Own(u)' = Own(u)
    BY <1>0, <1>1, <1>3, OwnMoves
  <1>8. Shared(r, f)'
    <2>1. Chain(next', f, free_list)
      <3>1. \A m \in ToSet(f) : next'[m] = next[m]
        BY <1>0, <1>6 DEF Shared
      <3> QED
        BY <1>0, <3>1, ChainFrame DEF Shared
    <2>2. r # <<>>
      BY <1>5 DEF ToSet
    <2> QED
      BY <1>0, <1>1, <1>3, <1>4, <1>5, <1>7, <2>1, <2>2 DEF Shared
  <1>9. ProducerKnows(p, l, r, f)'
    BY <1>0, <1>2, <1>5 DEF ProducerKnows, Building, Linking, Comparing
  <1>10. ASSUME NEW u \in Consumers, NEW pu, NEW lu, pu = pc[u], lu = loc[u]
         PROVE  ConsumerKnows(pu, lu)'
    <2>1. \A m \in OwnAt(pu, lu) : next'[m] = next[m]
      BY <1>0, <1>6, <1>10 DEF Shared
    <2>2. next'[head] = next[head] \/ next[head] = NULL
      BY <1>1, <1>6
    <2> QED
      BY <1>0, <1>1, <1>10, <2>1, <2>2, ConsumerKeeps
  <1>11. /\ free_list' \in Ptr /\ head' \in Nodes /\ tail' \in Nodes
         /\ next' \in [Nodes -> Ptr] /\ size' \in 1 .. MaxNodes
    BY <1>1, <1>2 DEF TypeOK, Ptr
  <1>12. p \in ProducerPcs
    BY DEF ProducerPcs, Building
  <1>13. TypeOK' /\ Shape(r, f)'
    BY <1>0, <1>1, <1>5, <1>8, <1>9, <1>10, <1>11, <1>12, ProducerStep
  <1> QED
    BY <1>l, <1>r, <1>5, <1>13

\* The consumer takes the dummy node off the queue.
LEMMA TakeHeadStep ==
  ASSUME TypeOK, OneConsumer, NEW q \in Seq(Nodes), NEW f \in Seq(Nodes), Shape(q, f),
         NEW t \in Consumers, TakeHead(t)
  PROVE  Tail(q) \in Seq(Nodes) /\ TypeOK' /\ Shape(Tail(q), f)' /\ Len(q) > 1
  <1> DEFINE P == Producer
             p == "move"
             r == Tail(q)
  <1>l. PICK l : l = loc[t]
    OBVIOUS
  <1>0. /\ Consumers = {t} /\ t \in Threads /\ Producer # t /\ Threads = {Producer, t}
        /\ l \in Locals /\ ConsumerKnows("take", l) /\ loc[P] \in Locals
        /\ ProducerKnows(pc[P], loc[P], q, f) /\ Shared(q, f)
        /\ Own(t) = OwnAt("take", l)
    BY <1>l, ConsumerStarts DEF TakeHead, Step
  <1>1. /\ Moves(t, p, l) /\ NodesTyped /\ head = l.old /\ head' = l.nxt
        /\ UNCHANGED <<tail, free_list, next, size>>
    BY <1>l, <1>0 DEF TakeHead, Step, Moves, NodesTyped, TypeOK, nodeVars, poolVars
  <1>2. /\ l.nxt = next[head] /\ l.nxt # NULL /\ tail # head /\ l.node = NULL
        /\ Len(l.give) = 0 /\ l.nxt \in Nodes
    BY <1>0, <1>1 DEF ConsumerKnows, Reading, Locals, Ptr
  <1>3. /\ r \in Seq(Nodes) /\ Chain(next, r, next[head])
        /\ ToSet(q) = {head} \cup ToSet(r) /\ head \notin ToSet(r)
        /\ Len(r) = Len(q) - 1 /\ Len(q) \in Nat \ {0}
        /\ \A i \in 1 .. Len(q) - 1 : r[i] = q[i + 1]
    BY <1>0, ChainTail DEF Shared
  <1> HIDE DEF r
  <1>4. r # <<>> /\ Len(r) \in Nat \ {0} /\ tail \in ToSet(r)
    <2>1. r # <<>>
      BY <1>2, <1>3 DEF Chain
    <2>2. tail \in ToSet(r)
      BY <1>0, <1>2, <1>3 DEF Shared
    <2> QED
      BY <1>3, <2>1, <2>2, EmptySeq
  <1>5. Own(t) = {} /\ OwnAt(p, l) = {head}
    <2>1. l.give = <<>>
      BY <1>0, <1>2, EmptySeq DEF Locals
    <2> QED
      BY <1>0, <1>1, <1>2, <2>1 DEF OwnAt, Freeing, ToSet
  <1>6. Own(t)' = {head} /\ Own(P)' = Own(P)
    BY <1>0, <1>1, <1>5, OwnMoves
  <1>7. Shared(r, f)'
    <2>1. Chain(next', r, head') /\ Chain(next', f, free_list')
      BY <1>0, <1>1, <1>2, <1>3 DEF Shared
    <2> QED
      BY <1>0, <1>1, <1>3, <1>4, <1>5, <1>6, <2>1 DEF Shared
  <1>8. ConsumerKnows(p, l)'
    BY <1>0, <1>1, <1>2 DEF ConsumerKnows, Looking, Reading, Freeing, TypeOK
  <1>9. ASSUME NEW pu, NEW lu, pu = pc[P], lu = loc[P]
        PROVE  ProducerKnows(pu, lu, r, f)'
    <2>1. ProducerKnows(pu, lu, q, f)
      BY <1>0, <1>9
    <2>2. r[Len(r)] = q[Len(q)]
      <3>1. Len(r) \in 1 .. Len(q) - 1 /\ Len(r) + 1 = Len(q)
        BY <1>3, <1>4
      <3> QED
        BY <1>3, <3>1
    <2>3. ASSUME NEW n, NotAhead(q, n)
          PROVE  NotAhead(r, n)'
      <3> SUFFICES ASSUME NEW i \in 1 .. Len(r), NEW k \in 1 .. Len(r), r[i] = n, r[k] = tail
                   PROVE  i <= k
        BY <1>1 DEF NotAhead
      <3>1. /\ i + 1 \in 1 .. Len(q) /\ k + 1 \in 1 .. Len(q)
            /\ i \in 1 .. Len(q) - 1 /\ k \in 1 .. Len(q) - 1
        BY <1>3
      <3>2. q[i + 1] = n /\ q[k + 1] = tail
        BY <1>3, <3>1
      <3>3. i + 1 <= k + 1
        BY <2>3, <3>1, <3>2 DEF NotAhead
      <3> QED
        BY <3>3
    <2> QED
      BY <1>1, <2>1, <2>2, <2>3 DEF ProducerKnows
  <1>10. /\ free_list' \in Ptr /\ head' \in Nodes /\ tail' \in Nodes
         /\ next' \in [Nodes -> Ptr] /\ size' = size
    BY <1>1, <1>2 DEF TypeOK
  <1>11. p \in ConsumerPcs
    BY DEF ConsumerPcs, Freeing
  <1>12. TypeOK' /\ Shape(r, f)'
    BY <1>0, <1>1, <1>3, <1>7, <1>8, <1>9, <1>10, <1>11, ConsumerStep
  <1>13. Len(q) > 1
    BY <1>3, <1>4
  <1> QED
    BY <1>3, <1>12, <1>13 DEF r

-----------------------------------------------------------------------------
(* The calls *)

\* A thread in a call goes on with it.
Busy(t) ==
  /\ pc[t] # "idle" /\ UNCHANGED <<req, res>>
  /\ \E p : p # "idle" /\ pc' = [pc EXCEPT ![t] = p]

\* What a step does to the calls.
CallStep(t) ==
  \/ Busy(t)
  \/ \E r \in Answers : Return(t, r)
  \/ /\ pc' = [pc EXCEPT ![t] = IF t = Producer THEN "pop" ELSE "head"]
     /\ IF t = Producer
        THEN \E v \in Values :
               req' = [req EXCEPT ![t] = [op |-> "push", v |-> v, block |-> FALSE]]
        ELSE req' = [req EXCEPT ![t] = Dequeue]
     /\ UNCHANGED res

\* Every step of the producer does to its call what CallStep says.
LEMMA ProducerCalls ==
  ASSUME \/ \E v \in Values : CallEnqueue(Producer, v)
         \/ EnqueueStep(Producer)
  PROVE  CallStep(Producer)
  <1> DEFINE P == Producer
  <1> USE DEF Load, Step, Goto, Restart, callVars
  <1>1. ASSUME \E v \in Values : CallEnqueue(P, v)
        PROVE  CallStep(P)
    BY <1>1 DEF CallEnqueue, CallStep
  <1>2. ASSUME Swing(P)
        PROVE  CallStep(P)
    <2>1. Result(TRUE, NoValue) \in Answers
      BY DEF Result, Answers, Cells
    <2> QED
      BY <1>2, <2>1 DEF Swing, CallStep
  <1>3. ASSUME AllocateStep(P)
        PROVE  Busy(P)
    <2>1. CASE LoadFree(P)  BY <2>1 DEF LoadFree, Busy
    <2>2. CASE LoadFreeNext(P)  BY <2>2 DEF LoadFreeNext, Busy
    <2>3. CASE PopFree(P)  BY <2>3 DEF PopFree, Busy
    <2>4. CASE PopFreeFails(P)  BY <2>4 DEF PopFreeFails, Busy
    <2>5. CASE LockPool(P)  BY <2>5 DEF LockPool, Busy
    <2>6. CASE Expand(P)  BY <2>6 DEF Expand, Busy
    <2>7. CASE LinkFree(P)  BY <2>7 DEF LinkFree, Busy
    <2>8. CASE PushFree(P)  BY <2>8 DEF PushFree, Busy
    <2>9. CASE PushFreeFails(P)  BY <2>9 DEF PushFreeFails, Busy
    <2>10. CASE Construct(P)  BY <2>10 DEF Construct, Busy
    <2> QED
      BY <1>3, <2>1, <2>2, <2>3, <2>4, <2>5, <2>6, <2>7, <2>8, <2>9, <2>10
      DEF AllocateStep
  <1>4. ASSUME EnqueueStep(P), ~AllocateStep(P), ~Swing(P)
        PROVE  Busy(P)
    <2>1. CASE LoadTail(P)  BY <2>1 DEF LoadTail, Busy
    <2>2. CASE LoadVersion(P)  BY <2>2 DEF LoadVersion, Busy
    <2>3. CASE LoadNext(P)  BY <2>3 DEF LoadNext, Busy
    <2>4. CASE CheckTail(P)  BY <2>4 DEF CheckTail, Busy
    <2>5. CASE CheckTailVersion(P)  BY <2>5 DEF CheckTailVersion, Busy
    <2>6. CASE AppendNode(P)  BY <2>6 DEF AppendNode, Busy
    <2>7. CASE AppendFails(P)  BY <2>7 DEF AppendFails, Busy
    <2>8. CASE HelpTail(P)  BY <2>8 DEF HelpTail, Busy
    <2>9. CASE HelpTailFails(P)  BY <2>9 DEF HelpTailFails, Busy
    <2> QED
      BY <1>4, <2>1, <2>2, <2>3, <2>4, <2>5, <2>6, <2>7, <2>8, <2>9 DEF EnqueueStep
  <1> QED
    BY <1>1, <1>2, <1>3, <1>4 DEF CallStep

\* Every step of a consumer does to its call what CallStep says.
LEMMA ConsumerCalls ==
  ASSUME TypeOK, NEW t \in Consumers,
         (\E n \in Attempts : CallDequeue(t, n)) \/ DequeueStep(t)
  PROVE  CallStep(t)
  <1>0. t # Producer /\ loc[t].item \in Cells
    BY ThreadAssumption DEF TypeOK, Threads, Locals
  <1>1. Result(FALSE, NoValue) \in Answers /\ Result(TRUE, loc[t].item) \in Answers
    BY <1>0 DEF Result, Answers, Cells
  <1>2. ASSUME Continue(t), pc[t] # "idle"
        PROVE  CallStep(t)
    BY <1>1, <1>2 DEF Continue, GiveUp, CallStep, Busy, callVars
  <1>3. ASSUME NEW p, GoOn(t, p), p # "idle", pc[t] # "idle"
        PROVE  CallStep(t)
    BY <1>3 DEF GoOn, Goto, CallStep, Busy, callVars
  <1> USE DEF Load, Step, callVars
  <1>4. CASE \E n \in Attempts : CallDequeue(t, n)
    BY <1>0, <1>4 DEF CallDequeue, CallStep, Dequeue
  <1>5. CASE LoadHead(t)  BY <1>5 DEF LoadHead, CallStep, Busy
  <1>6. CASE LoadVersion(t)  BY <1>6 DEF LoadVersion, CallStep, Busy
  <1>7. CASE LoadOldTail(t)  BY <1>7 DEF LoadOldTail, CallStep, Busy
  <1>8. CASE LoadNext(t)  BY <1>8 DEF LoadNext, CallStep, Busy
  <1>9. CASE CheckHead(t)  BY <1>2, <1>3, <1>9 DEF CheckHead
  <1>10. CASE CheckHeadVersion(t)
    <2>1. Return(t, Result(FALSE, NoValue)) => CallStep(t)
      BY <1>1 DEF CallStep
    <2> QED
      BY <1>2, <1>3, <1>10, <2>1 DEF CheckHeadVersion
  <1>11. CASE HelpTailOn(t)  BY <1>2, <1>11 DEF HelpTailOn
  <1>12. CASE CheckElem(t)  BY <1>2, <1>3, <1>12 DEF CheckElem
  <1>13. CASE TakeHead(t)  BY <1>13 DEF TakeHead, CallStep, Busy
  <1>14. CASE TakeFails(t)  BY <1>2, <1>14 DEF TakeFails
  <1>15. CASE MoveOut(t)  BY <1>15 DEF MoveOut, CallStep, Busy
  <1>16. CASE Retire(t)  BY <1>16 DEF Retire, CallStep, Busy
  <1>17. CASE Wipe(t)  BY <1>17 DEF Wipe, CallStep, Busy
  <1>18. CASE LinkFree(t)  BY <1>18 DEF LinkFree, CallStep, Busy
  <1>19. CASE PushFreeLast(t)  BY <1>1, <1>19 DEF PushFreeLast, CallStep
  <1>20. CASE PushFreeFails(t)  BY <1>20 DEF PushFreeFails, CallStep, Busy
  <1> QED
    BY <1>4, <1>5, <1>6, <1>7, <1>8, <1>9, <1>10, <1>11, <1>12, <1>13, <1>14, <1>15,
       <1>16, <1>17, <1>18, <1>19, <1>20 DEF DequeueStep

\* CallInv survives every such step.
LEMMA CallsKept ==
  ASSUME TypeOK, CallInv, NEW t \in Threads, CallStep(t)
  PROVE  CallInv'
  <1> USE DEF Threads
  <1>0. /\ Producer \in Threads /\ Consumers \subseteq Threads \ {Producer}
        /\ t = Producer \/ t \in Consumers
    BY ThreadAssumption
  <1>1. CASE Busy(t)
    BY <1>0, <1>1 DEF Busy, CallInv, TypeOK
  <1>2. ASSUME NEW r \in Answers, Return(t, r)
        PROVE  CallInv'
    BY <1>0, <1>2 DEF Return, CallInv, TypeOK
  <1>3. ASSUME pc' = [pc EXCEPT ![t] = IF t = Producer THEN "pop" ELSE "head"],
               UNCHANGED res,
               IF t = Producer
               THEN \E v \in Values :
                      req' = [req EXCEPT ![t] = [op |-> "push", v |-> v, block |-> FALSE]]
               ELSE req' = [req EXCEPT ![t] = Dequeue]
        PROVE  CallInv'
    <2>1. Dequeue \in Fifo!Requests
      BY DEF Dequeue, Fifo!Requests, Fifo!PopCalls
    <2>2. \A v \in Values : [op |-> "push", v |-> v, block |-> FALSE] \in Fifo!Requests
      BY DEF Fifo!Requests, Fifo!PushCalls
    <2>3. CASE t = Producer
      <3>1. PICK v \in Values :
              req' = [req EXCEPT ![Producer] = [op |-> "push", v |-> v, block |-> FALSE]]
        BY <1>3, <2>3
      <3>2. req'[Producer] = [op |-> "push", v |-> v, block |-> FALSE]
        BY <1>0, <3>1 DEF CallInv
      <3>3. req' \in [Threads -> Fifo!Requests \cup {NULL}]
        BY <1>0, <2>2, <3>1 DEF CallInv
      <3>4. \A u \in Consumers : req'[u] = req[u] /\ pc'[u] = pc[u]
        BY <1>0, <1>3, <2>3, <3>1 DEF CallInv, TypeOK
      <3>5. pc'[Producer] = "pop"
        BY <1>0, <1>3, <2>3 DEF TypeOK
      <3> QED
        BY <1>3, <3>2, <3>3, <3>4, <3>5 DEF CallInv
    <2>4. CASE t # Producer
      BY <1>0, <1>3, <2>1, <2>4 DEF CallInv, TypeOK
    <2> QED
      BY <2>3, <2>4
  <1> QED
    BY <1>1, <1>2, <1>3 DEF CallStep

-----------------------------------------------------------------------------
(* The walk along a list *)

\* The order of the natural numbers.
Less == {p \in Nat \X Nat : p[1] < p[2]}

\* The order of the natural numbers, as a set of pairs, is well-founded.
LEMMA LessIsWellFounded == IsWellFoundedOn(Less, Nat)
  <1>1. IsWellFoundedOn(OpToRel(<, Nat), Nat)
    BY NatLessThanWellFounded, Zenon
  <1>2. OpToRel(<, Nat) = Less
    BY Zenon DEF OpToRel, Less
  <1> QED
    BY <1>1, <1>2, Zenon

\* What holds of 0 and goes from i - 1 to i holds up to n.
LEMMA Induction ==
  ASSUME NEW n \in Nat, NEW S, 0 \in S, \A i \in 1 .. n : i - 1 \in S => i \in S
  PROVE  0 .. n \subseteq S
  <1> DEFINE T == (0 .. n) \ S
  <1> SUFFICES ASSUME T # {}
               PROVE  FALSE
    OBVIOUS
  <1>1. T \subseteq Nat /\ T # {}
    OBVIOUS
  <1>2. PICK x \in T : \A y \in T : ~(<<y, x>> \in Less)
    BY <1>1, LessIsWellFounded, WFMin
  <1>3. x \in 1 .. n /\ x - 1 \in 0 .. n /\ x - 1 < x
    OBVIOUS
  <1>4. x - 1 \notin S
    BY <1>3
  <1>5. x - 1 \in T
    BY <1>3, <1>4
  <1>6. <<x - 1, x>> \in Less
    <2>1. <<x - 1, x>> \in Nat \X Nat /\ <<x - 1, x>>[1] = x - 1 /\ <<x - 1, x>>[2] = x
      BY <1>3
    <2> QED
      BY <1>3, <2>1 DEF Less
  <1> QED
    BY <1>2, <1>5, <1>6

\* The recursive walk along a chain visits its nodes in their order, then NULL.
LEMMA Walk ==
  ASSUME NEW s \in Seq(Nodes), NEW a, Chain(next, s, a)
  PROVE  Nth(a) = [n \in 0 .. MaxNodes |-> IF n < Len(s) THEN s[n + 1] ELSE NULL]
  <1> DEFINE Walks(g) == g = [n \in 0 .. MaxNodes |->
                                IF n = 0 THEN a
                                ELSE IF g[n - 1] = NULL THEN NULL ELSE next[g[n - 1]]]
             w == [n \in 0 .. MaxNodes |-> IF n < Len(s) THEN s[n + 1] ELSE NULL]
  <1>0. /\ MaxNodes \in Nat /\ Len(s) \in Nat
        /\ \A i \in 1 .. Len(s) : s[i] \in Nodes /\ s[i] # NULL
        /\ \A i \in 1 .. Len(s) : next[s[i]] = IF i = Len(s) THEN NULL ELSE s[i + 1]
    BY SizeAssumption, NullAssumption DEF Chain, Nodes
  <1>1. Nth(a) = CHOOSE g : Walks(g)
    BY DEF Nth
  <1>2. a = IF Len(s) = 0 THEN NULL ELSE s[1]
    BY EmptySeq DEF Chain
  <1>3. Walks(w)
    <2>1. ASSUME NEW n \in 0 .. MaxNodes
          PROVE  w[n] = IF n = 0 THEN a
                        ELSE IF w[n - 1] = NULL THEN NULL ELSE next[w[n - 1]]
      <3>1. w[n] = IF n < Len(s) THEN s[n + 1] ELSE NULL
        OBVIOUS
      <3>2. n # 0 => w[n - 1] = IF n <= Len(s) THEN s[n] ELSE NULL
        BY <1>0
      <3> HIDE DEF w
      <3>3. CASE n = 0
        BY <1>0, <1>2, <3>1, <3>3
      <3>4. CASE n # 0 /\ n <= Len(s)
        <4>1. n \in 1 .. Len(s) /\ (n < Len(s) <=> n # Len(s))
          BY <1>0, <3>4
        <4> QED
          BY <1>0, <3>1, <3>2, <3>4, <4>1
      <3>5. CASE n # 0 /\ ~(n <= Len(s))
        BY <1>0, <3>1, <3>2, <3>5
      <3> QED
        BY <3>3, <3>4, <3>5
    <2> QED
      BY <2>1
  <1>4. ASSUME NEW g, Walks(g)
        PROVE  g = w
    <2> DEFINE S == {n \in 0 .. MaxNodes : g[n] = w[n]}
    <2>1. 0 \in S
      <3>1. 0 \in 0 .. MaxNodes
        BY <1>0
      <3>2. g[0] = a
        BY <1>4, <3>1
      <3>3. w[0] = a
        <4> HIDE DEF w
        <4> QED BY <1>3, <3>1
      <3> HIDE DEF w
      <3> QED
        BY <3>1, <3>2, <3>3
    <2>2. ASSUME NEW n \in 1 .. MaxNodes, n - 1 \in S
          PROVE  n \in S
      <3>1. n \in 0 .. MaxNodes /\ n # 0
        BY <1>0
      <3>2. g[n] = IF g[n - 1] = NULL THEN NULL ELSE next[g[n - 1]]
        BY <1>4, <3>1
      <3>3. w[n] = IF w[n - 1] = NULL THEN NULL ELSE next[w[n - 1]]
        <4> HIDE DEF w
        <4> QED BY <1>3, <3>1
      <3> HIDE DEF w
      <3> QED
        BY <2>2, <3>1, <3>2, <3>3
    <2>3. 0 .. MaxNodes \subseteq S
      <3> HIDE DEF S
      <3> QED BY <1>0, <2>1, <2>2, Induction
    <2>4. DOMAIN g = 0 .. MaxNodes /\ DOMAIN w = 0 .. MaxNodes
      BY <1>4
    <2>5. g = [n \in 0 .. MaxNodes |-> g[n]]
      BY <1>4
    <2> QED
      BY <2>3, <2>5
  <1> HIDE DEF Walks, w
  <1>5. (CHOOSE g : Walks(g)) = w
    BY <1>3, <1>4
  <1> QED
    BY <1>1, <1>5 DEF w

\* A list is no longer than the pool, and its walk visits it all.
LEMMA ListIs ==
  ASSUME NEW s \in Seq(Nodes), NEW a, Chain(next, s, a)
  PROVE  Len(s) <= MaxNodes /\ List(a) = ToSet(s)
  <1>0. /\ MaxNodes \in Nat /\ Len(s) \in Nat /\ DOMAIN s = 1 .. Len(s)
        /\ \A i \in 1 .. Len(s) : s[i] \in Nodes /\ s[i] # NULL
        /\ \A i, j \in 1 .. Len(s) : s[i] = s[j] => i = j
    BY SizeAssumption, NullAssumption DEF Chain, Nodes, IsInjective
  <1>1. Len(s) <= MaxNodes
    <2>1. s \in Injection(1 .. Len(s), 1 .. MaxNodes)
      <3>1. s \in [1 .. Len(s) -> 1 .. MaxNodes]
        BY <1>0 DEF Nodes
      <3> QED
        BY <1>0, <3>1 DEF Injection, IsInjective
    <2>2. /\ IsFiniteSet(1 .. MaxNodes)
          /\ Cardinality(1 .. MaxNodes) = MaxNodes /\ Cardinality(1 .. Len(s)) = Len(s)
      <3>1. ASSUME NEW k \in Nat
            PROVE  IsFiniteSet(1 .. k) /\ Cardinality(1 .. k) = k
        <4>1. /\ IsFiniteSet(1 .. k)
              /\ Cardinality(1 .. k) = IF 1 > k THEN 0 ELSE k - 1 + 1
          BY FS_Interval
        <4> QED
          BY <4>1
      <3> QED
        BY <1>0, <3>1
    <2>3. Cardinality(1 .. Len(s)) <= Cardinality(1 .. MaxNodes)
      BY <2>1, <2>2, FS_Injection
    <2> QED
      BY <2>2, <2>3
  <1>2. PICK w : w = [n \in 0 .. MaxNodes |-> IF n < Len(s) THEN s[n + 1] ELSE NULL]
    OBVIOUS
  <1>3. List(a) = {w[n] : n \in 0 .. MaxNodes} \ {NULL}
    BY <1>2, Walk DEF List, Range
  <1>4. ASSUME NEW x \in List(a)
        PROVE  x \in ToSet(s)
    <2>1. PICK n \in 0 .. MaxNodes : x = w[n] /\ x # NULL
      BY <1>3
    <2>2. n < Len(s) /\ x = s[n + 1] /\ n + 1 \in 1 .. Len(s)
      BY <1>0, <1>2, <2>1
    <2> QED
      BY <1>0, <2>2 DEF ToSet
  <1>5. ASSUME NEW x \in ToSet(s)
        PROVE  x \in List(a)
    <2>1. PICK i \in 1 .. Len(s) : x = s[i]
      BY <1>0 DEF ToSet
    <2>2. i - 1 \in 0 .. MaxNodes /\ i - 1 < Len(s) /\ (i - 1) + 1 = i
      BY <1>0, <1>1
    <2>3. w[i - 1] = x /\ x # NULL
      BY <1>0, <1>2, <2>1, <2>2
    <2> QED
      BY <1>3, <2>2, <2>3
  <1> QED
    BY <1>1, <1>4, <1>5

\* The invariant says that the pool is shared out.
LEMMA PoolIsShared ==
  ASSUME OneConsumer, PoolInv
  PROVE  NodesApart
  <1>1. PICK q \in Seq(Nodes), f \in Seq(Nodes) : Shape(q, f)
    BY DEF PoolInv
  <1>2. Shared(q, f)
    BY <1>1 DEF Shape
  <1>3. List(head) = ToSet(q) /\ List(free_list) = ToSet(f)
    BY <1>2, ListIs DEF Shared
  <1>4. /\ ToSet(q) \cap ToSet(f) = {}
        /\ \A t \in Threads : Own(t) \cap (ToSet(q) \cup ToSet(f)) = {}
    BY <1>2 DEF Shared
  <1>5. \A t, u \in Threads : t # u => Own(t) \cap Own(u) = {}
    BY <1>2 DEF Shared, Threads, OneConsumer
  <1>6. ASSUME NEW n
        PROVE  n \in 1 .. size <=>
                 n \in ToSet(q) \cup ToSet(f) \cup UNION {Own(t) : t \in Threads}
    <2>1. n \in UNION {Own(t) : t \in Threads} <=> \E t \in Threads : n \in Own(t)
      OBVIOUS
    <2> QED
      BY <1>2, <2>1 DEF Shared
  <1> QED
    BY <1>3, <1>4, <1>5, <1>6 DEF NodesApart

-----------------------------------------------------------------------------
(* Every step *)

\* The steps of enqueue and try_dequeue that leave the list of the queue alone.
EnqueueKeeps(t) ==
  \/ \E v \in Values : CallEnqueue(t, v)
  \/ AllocateStep(t)
  \/ LoadTail(t) \/ LoadVersion(t) \/ LoadNext(t) \/ CheckTail(t) \/ CheckTailVersion(t)
  \/ AppendFails(t) \/ HelpTail(t) \/ HelpTailFails(t) \/ Swing(t)

DequeueKeeps(t) ==
  \/ \E n \in Attempts : CallDequeue(t, n)
  \/ LoadHead(t) \/ LoadVersion(t) \/ LoadOldTail(t) \/ LoadNext(t) \/ CheckHead(t)
  \/ CheckHeadVersion(t) \/ HelpTailOn(t) \/ CheckElem(t) \/ TakeFails(t) \/ MoveOut(t)
  \/ Retire(t) \/ Wipe(t) \/ LinkFree(t) \/ PushFreeLast(t) \/ PushFreeFails(t)

\* All steps but those two exchanges are such steps.
LEMMA StepKinds ==
  ASSUME Next
  PROVE  \/ EnqueueKeeps(Producer) \/ AppendNode(Producer)
         \/ \E t \in Consumers : DequeueKeeps(t) \/ TakeHead(t)
  BY DEF Next, EnqueueStep, DequeueStep, EnqueueKeeps, DequeueKeeps

\* They keep the queue, and some free list goes with it.
LEMMA EnqueueShape ==
  ASSUME OneConsumer, TypeOK, CallInv, NEW q \in Seq(Nodes), NEW f \in Seq(Nodes),
         Shape(q, f), EnqueueKeeps(Producer)
  PROVE  \E g \in Seq(Nodes) : TypeOK' /\ Shape(q, g)'
  <1>1. CASE \/ \E v \in Values : CallEnqueue(Producer, v)
             \/ LoadFree(Producer) \/ LoadFreeNext(Producer) \/ PopFreeFails(Producer)
             \/ LockPool(Producer) \/ PushFreeFails(Producer) \/ LoadTail(Producer)
             \/ LoadVersion(Producer) \/ LoadNext(Producer) \/ CheckTail(Producer)
             \/ CheckTailVersion(Producer) \/ AppendFails(Producer)
             \/ HelpTailFails(Producer)
    BY <1>1, ProducerReads
  <1>2. CASE PopFree(Producer)
    BY <1>2, PopFreeStep
  <1>3. CASE Expand(Producer)
    BY <1>3, ExpandStep
  <1>4. CASE LinkFree(Producer)
    BY <1>4, LinkFreeStep DEF Threads
  <1>5. CASE PushFree(Producer)
    BY <1>5, PushFreeStep
  <1>6. CASE Construct(Producer)
    <2>1. \E v \in Values : req[Producer] = [op |-> "push", v |-> v, block |-> FALSE]
      BY <1>6 DEF Construct, Step, CallInv
    <2>2. req[Producer].v \in Values
      BY <2>1
    <2> QED
      BY <1>6, <2>2, ConstructStep
  <1>7. CASE HelpTail(Producer) \/ Swing(Producer)
    BY <1>7, ProducerTail
  <1> QED
    BY <1>1, <1>2, <1>3, <1>4, <1>5, <1>6, <1>7 DEF EnqueueKeeps, AllocateStep

\* The same for a consumer.
LEMMA DequeueShape ==
  ASSUME OneConsumer, TypeOK, NEW q \in Seq(Nodes), NEW f \in Seq(Nodes), Shape(q, f),
         NEW t \in Consumers, DequeueKeeps(t)
  PROVE  \E g \in Seq(Nodes) : TypeOK' /\ Shape(q, g)'
  <1>1. CASE \/ LoadHead(t) \/ LoadVersion(t) \/ LoadOldTail(t) \/ LoadNext(t)
             \/ MoveOut(t) \/ Retire(t) \/ PushFreeFails(t)
             \/ \E n \in Attempts : CallDequeue(t, n)
    BY <1>1, ConsumerReads
  <1>2. CASE CheckHead(t) \/ CheckHeadVersion(t) \/ CheckElem(t) \/ TakeFails(t)
    BY <1>2, ConsumerDecides
  <1>3. CASE HelpTailOn(t)
    BY <1>3, HelpTailOnStep
  <1>4. CASE Wipe(t)
    BY <1>4, WipeStep
  <1>5. CASE LinkFree(t)
    BY <1>5, LinkFreeStep DEF Threads
  <1>6. CASE PushFreeLast(t)
    BY <1>6, PushFreeLastStep
  <1> QED
    BY <1>1, <1>2, <1>3, <1>4, <1>5, <1>6 DEF DequeueKeeps

\* Every step keeps the invariant.
LEMMA StepKeepsPool ==
  ASSUME OneConsumer, PoolInv, CallInv, [Next]_vars
  PROVE  PoolInv' /\ CallInv'
  <1>1. PICK q \in Seq(Nodes), f \in Seq(Nodes) : Shape(q, f)
    BY DEF PoolInv
  <1>2. TypeOK
    BY DEF PoolInv
  <1>3. ASSUME NEW r \in Seq(Nodes), NEW g \in Seq(Nodes), TypeOK', Shape(r, g)'
        PROVE  PoolInv'
    BY <1>3 DEF PoolInv
  <1>4. CASE EnqueueKeeps(Producer) \/ AppendNode(Producer)
    <2>1. CallInv'
      BY <1>2, <1>4, ProducerCalls, CallsKept DEF EnqueueKeeps, EnqueueStep, Threads
    <2>2. PoolInv'
      BY <1>1, <1>2, <1>3, <1>4, EnqueueShape, AppendNodeStep
    <2> QED
      BY <2>1, <2>2
  <1>5. ASSUME NEW t \in Consumers, DequeueKeeps(t) \/ TakeHead(t)
        PROVE  PoolInv' /\ CallInv'
    <2>1. CallInv'
      BY <1>2, <1>5, ConsumerCalls, CallsKept DEF DequeueKeeps, DequeueStep, Threads
    <2>2. PoolInv'
      BY <1>1, <1>2, <1>3, <1>5, DequeueShape, TakeHeadStep
    <2> QED
      BY <2>1, <2>2
  <1>6. CASE UNCHANGED vars
    <2> USE <1>6 DEF vars, sharedVars, endVars, nodeVars, poolVars, callVars
    <2>1. TypeOK' /\ CallInv'
      BY <1>2 DEF TypeOK, CallInv
    <2>2. \A t \in Threads : Own(t)' = Own(t)
      BY DEF Own
    <2>3. Shared(q, f)'
      BY <1>1, <2>2 DEF Shape, Shared, Chain, Threads
    <2>4. ProducerKnows(pc[Producer], loc[Producer], q, f)'
      BY <1>1 DEF Shape, ProducerKnows, NotAhead
    <2>5. \A t \in Consumers : ConsumerKnows(pc[t], loc[t])'
      BY <1>1 DEF Shape, ConsumerKnows
    <2>6. Shape(q, f)'
      BY <2>3, <2>4, <2>5 DEF Shape
    <2> QED
      BY <1>3, <2>1, <2>6
  <1> QED
    BY <1>4, <1>5, <1>6, StepKinds

\* No call is open in the initial state.
LEMMA InitCalls ==
  ASSUME Init
  PROVE  CallInv
  BY DEF Init, CallInv, Threads, Result, Answers, Cells

\* With one consumer, queue, free list and the nodes of the threads share out
\* the pool in every state: no interleaving of enqueue, try_dequeue and the
\* pool's expand() loses a node or puts it in two places.
THEOREM PoolSharedOut ==
  ASSUME OneConsumer
  PROVE  Spec => []NodesApart
  <1>1. Init => PoolInv /\ CallInv
    BY InitShape, InitCalls
  <1>2. PoolInv /\ CallInv /\ [Next]_vars => (PoolInv /\ CallInv)'
    BY StepKeepsPool
  <1>3. PoolInv => NodesApart
    BY PoolIsShared
  <1> QED
    BY <1>1, <1>2, <1>3, PTL DEF Spec

-----------------------------------------------------------------------------
(* The values *)

\* The values behind the dummy node of the list s, if the nodes hold e.
Behind(e, s) == [i \in 1 .. Len(s) - 1 |-> e[s[i + 1]]]

\* They are a sequence.
LEMMA BehindFacts ==
  ASSUME NEW e \in [Nodes -> Cells], NEW s \in Seq(Nodes), s # <<>>
  PROVE  /\ Behind(e, s) \in Seq(Cells) /\ Len(Behind(e, s)) = Len(s) - 1
         /\ \A i \in 1 .. Len(s) - 1 : Behind(e, s)[i] = e[s[i + 1]]
  <1>1. Len(s) - 1 \in Nat /\ \A i \in 1 .. Len(s) - 1 : e[s[i + 1]] \in Cells
    BY EmptySeq
  <1> QED
    BY <1>1 DEF Behind

\* A node at the end of the list is a value at the end of the queue.
LEMMA BehindAppend ==
  ASSUME NEW e \in [Nodes -> Cells], NEW s \in Seq(Nodes), s # <<>>, NEW n \in Nodes
  PROVE  Behind(e, Append(s, n)) = Append(Behind(e, s), e[n])
  <1> DEFINE r == Append(s, n)
             v == Behind(e, s)
             w == Behind(e, r)
  <1>1. /\ r \in Seq(Nodes) /\ r # <<>> /\ Len(s) \in Nat \ {0} /\ Len(r) = Len(s) + 1
        /\ r[Len(s) + 1] = n /\ \A i \in 1 .. Len(s) : r[i] = s[i]
    BY EmptySeq
  <1> HIDE DEF r
  <1>2. /\ v \in Seq(Cells) /\ Len(v) = Len(s) - 1
        /\ \A i \in 1 .. Len(s) - 1 : v[i] = e[s[i + 1]]
    BY BehindFacts
  <1>3. /\ w \in Seq(Cells) /\ Len(w) = Len(r) - 1
        /\ \A i \in 1 .. Len(r) - 1 : w[i] = e[r[i + 1]]
    BY <1>1, BehindFacts
  <1> HIDE DEF v, w
  <1>4. /\ Append(v, e[n]) \in Seq(Cells) /\ Len(Append(v, e[n])) = Len(s)
        /\ Append(v, e[n])[Len(s)] = e[n]
        /\ \A i \in 1 .. Len(s) - 1 : Append(v, e[n])[i] = v[i]
    <2>1. e[n] \in Cells
      OBVIOUS
    <2> QED
      BY <1>1, <1>2, <2>1
  <1>5. ASSUME NEW i \in 1 .. Len(w)
        PROVE  w[i] = Append(v, e[n])[i]
    <2>1. CASE i = Len(s)
      BY <1>1, <1>3, <1>4, <2>1
    <2>2. CASE i # Len(s)
      <3>1. i \in 1 .. Len(s) - 1 /\ i + 1 \in 1 .. Len(s) /\ i \in 1 .. Len(r) - 1
        BY <1>1, <1>3, <2>2
      <3> QED
        BY <1>1, <1>2, <1>3, <1>4, <3>1
    <2> QED
      BY <2>1, <2>2
  <1>6. Len(w) = Len(Append(v, e[n]))
    BY <1>1, <1>3, <1>4
  <1>7. w = Append(v, e[n])
    BY <1>3, <1>4, <1>5, <1>6, SeqEqual
  <1> QED
    BY <1>7 DEF w, v, r

\* Without its first node the list holds the values behind the first.
LEMMA BehindTail ==
  ASSUME NEW e \in [Nodes -> Cells], NEW s \in Seq(Nodes), Len(s) > 1
  PROVE  /\ Behind(e, s) # <<>> /\ Head(Behind(e, s)) = e[s[2]]
         /\ Behind(e, Tail(s)) = Tail(Behind(e, s))
  <1> DEFINE r == Tail(s)
             v == Behind(e, s)
             w == Behind(e, r)
  <1>1. /\ s # <<>> /\ r \in Seq(Nodes) /\ r # <<>> /\ Len(s) \in Nat
        /\ Len(r) = Len(s) - 1 /\ \A i \in 1 .. Len(s) - 1 : r[i] = s[i + 1]
    <2>1. s # <<>> /\ Len(s) \in Nat
      BY EmptySeq
    <2>2. /\ r \in Seq(Nodes) /\ Len(r) = Len(s) - 1
          /\ \A i \in 1 .. Len(r) : r[i] = s[i + 1]
      BY <2>1, HeadTailProperties
    <2> HIDE DEF r
    <2>3. r # <<>>
      BY <2>1, <2>2, EmptySeq
    <2> QED
      BY <2>1, <2>2, <2>3
  <1> HIDE DEF r
  <1>2. /\ v \in Seq(Cells) /\ Len(v) = Len(s) - 1
        /\ \A i \in 1 .. Len(s) - 1 : v[i] = e[s[i + 1]]
    BY <1>1, BehindFacts
  <1>3. /\ w \in Seq(Cells) /\ Len(w) = Len(r) - 1
        /\ \A i \in 1 .. Len(r) - 1 : w[i] = e[r[i + 1]]
    BY <1>1, BehindFacts
  <1> HIDE DEF v, w
  <1>4. v # <<>> /\ Head(v) = v[1] /\ v[1] = e[s[2]]
    BY <1>1, <1>2, EmptySeq
  <1>5. /\ Tail(v) \in Seq(Cells) /\ Len(Tail(v)) = Len(v) - 1
        /\ \A i \in 1 .. Len(Tail(v)) : Tail(v)[i] = v[i + 1]
    BY <1>2, <1>4, HeadTailProperties
  <1>6. ASSUME NEW i \in 1 .. Len(w)
        PROVE  w[i] = Tail(v)[i]
    <2>1. /\ i \in 1 .. Len(r) - 1 /\ i \in 1 .. Len(Tail(v))
          /\ i + 1 \in 1 .. Len(s) - 1
      BY <1>1, <1>2, <1>3, <1>5
    <2>2. w[i] = e[r[i + 1]] /\ Tail(v)[i] = v[i + 1]
      BY <1>3, <1>5, <2>1
    <2>3. r[i + 1] = s[(i + 1) + 1] /\ v[i + 1] = e[s[(i + 1) + 1]]
      BY <1>1, <1>2, <2>1
    <2> QED
      BY <2>2, <2>3
  <1>7. Len(w) = Len(Tail(v))
    BY <1>1, <1>2, <1>3, <1>5
  <1>8. w = Tail(v)
    BY <1>3, <1>5, <1>6, <1>7, SeqEqual
  <1> QED
    BY <1>4, <1>8 DEF w, v, r

\* A queue with the nodes s holds the values behind the first.
QueueRead ==
  \A s \in Seq(Nodes) : Chain(next, s, head) /\ s # <<>> => Queue = Behind(elem, s)

\* The walk of Queue ends at the last node of the list.
LEMMA QueueIs == QueueRead
  <1> SUFFICES ASSUME NEW s \in Seq(Nodes), Chain(next, s, head), s # <<>>
               PROVE  Queue = Behind(elem, s)
    BY DEF QueueRead
  <1> DEFINE Ends(w, n) == /\ \A i \in 0 .. n : w[i] # NULL
                           /\ n = MaxNodes \/ w[n + 1] = NULL
             len(w) == CHOOSE n \in 0 .. MaxNodes : Ends(w, n)
  <1>0. /\ MaxNodes \in Nat /\ Len(s) \in 1 .. MaxNodes
        /\ \A i \in 1 .. Len(s) : s[i] # NULL
    BY ListIs, EmptySeq, SizeAssumption, NullAssumption DEF Nodes
  <1>1. PICK w : w = [n \in 0 .. MaxNodes |-> IF n < Len(s) THEN s[n + 1] ELSE NULL]
    OBVIOUS
  <1>2. Nth(head) = w
    BY <1>1, Walk
  <1>3. Queue = [i \in 1 .. len(w) |-> elem[w[i]]]
    BY <1>2 DEF Queue
  <1>4. Ends(w, Len(s) - 1)
    BY <1>0, <1>1
  <1>5. ASSUME NEW n \in 0 .. MaxNodes, Ends(w, n)
        PROVE  n = Len(s) - 1
    <2>1. n < Len(s)
      <3> SUFFICES ASSUME Len(s) <= n
                   PROVE  FALSE
        BY <1>0
      <3>1. Len(s) \in 0 .. n /\ Len(s) \in 0 .. MaxNodes
        BY <1>0
      <3>2. w[Len(s)] = NULL
        BY <1>0, <1>1, <3>1
      <3> QED
        BY <1>5, <3>1, <3>2
    <2>2. ~(n < Len(s) - 1)
      <3> SUFFICES ASSUME n < Len(s) - 1
                   PROVE  FALSE
        OBVIOUS
      <3>1. n + 1 \in 0 .. MaxNodes /\ n + 1 < Len(s) /\ (n + 1) + 1 \in 1 .. Len(s) /\ n # MaxNodes
        BY <1>0
      <3>2. w[n + 1] = s[(n + 1) + 1]
        BY <1>1, <3>1
      <3> QED
        BY <1>0, <1>5, <3>1, <3>2
    <2> QED
      BY <1>0, <2>1, <2>2
  <1>6. len(w) = Len(s) - 1
    <2>1. Len(s) - 1 \in 0 .. MaxNodes
      BY <1>0
    <2> HIDE DEF Ends
    <2> QED
      BY <1>4, <1>5, <2>1
  <1> HIDE DEF len
  <1>7. \A i \in 1 .. Len(s) - 1 : w[i] = s[i + 1]
    BY <1>0, <1>1
  <1> QED
    BY <1>3, <1>6, <1>7 DEF Behind

\* The same after a step.
LEMMA QueueIsAfter == QueueRead'
  BY QueueIs, PTL

\* The producer's node holds the value of the call, and the version of head
\* that a consumer has read is still its version: the check of the version
\* never makes a dequeue that has seen an empty queue start over.
Built == {"tail"} \cup Linking
FlowInv ==
  /\ pc[Producer] \in Built => elem[loc[Producer].node] = req[Producer].v
  /\ loc[Producer].oldTail = NULL
  /\ \A t \in Consumers :
       pc[t] \in Looking \ {"version"} => loc[t].ver = version[head]

\* A step of t touches nothing of the other threads.
Alone(t) ==
  \A u \in Threads \ {t} :
    pc'[u] = pc[u] /\ loc'[u] = loc[u] /\ req'[u] = req[u] /\ res'[u] = res[u]

\* A step of the producer between its call and its exchange of the link.
EnqueueSilent ==
  /\ Alone(Producer) /\ UNCHANGED <<head, elem, version, req, res>>
  /\ pc[Producer] \notin {"idle", "swing"} /\ pc'[Producer] \notin {"idle", "swing"}
  /\ pc'[Producer] \in Built =>
       pc[Producer] \in Built /\ loc'[Producer].node = loc[Producer].node
  /\ loc'[Producer].oldTail = loc[Producer].oldTail

\* The producer changes its own place, locals and call only.
LEMMA EnqueueAlone ==
  ASSUME TypeOK, CallInv, EnqueueKeeps(Producer) \/ AppendNode(Producer)
  PROVE  Alone(Producer)
  <1> DEFINE P == Producer
  <1>0. /\ P \in Threads /\ loc[P] \in Locals /\ loc \in [Threads -> Locals]
        /\ pc \in [Threads -> ProducerPcs \cup ConsumerPcs]
        /\ req \in [Threads -> Fifo!Requests \cup {NULL}] /\ res \in [Threads -> Answers]
    BY DEF TypeOK, CallInv, Threads
  <1> USE DEF Load, Step, Restart, Goto, GoOn, Continue, GiveUp, Return, sharedVars, endVars,
              nodeVars, poolVars, callVars, Alone
  <1>1. CASE \E v \in Values : CallEnqueue(P, v)
    BY <1>0, <1>1 DEF CallEnqueue
  <1>2. CASE LoadFree(P)
    BY <1>0, <1>2 DEF LoadFree
  <1>3. CASE LoadFreeNext(P)
    BY <1>0, <1>3 DEF LoadFreeNext
  <1>4. CASE PopFree(P)
    BY <1>0, <1>4 DEF PopFree
  <1>5. CASE PopFreeFails(P)
    BY <1>0, <1>5 DEF PopFreeFails
  <1>6. CASE LockPool(P)
    BY <1>0, <1>6 DEF LockPool
  <1>7. CASE Expand(P)
    BY <1>0, <1>7 DEF Expand
  <1>8. CASE LinkFree(P)
    BY <1>0, <1>8 DEF LinkFree
  <1>9. CASE PushFree(P)
    BY <1>0, <1>9 DEF PushFree
  <1>10. CASE PushFreeFails(P)
    BY <1>0, <1>10 DEF PushFreeFails
  <1>11. CASE Construct(P)
    BY <1>0, <1>11 DEF Construct
  <1>12. CASE LoadTail(P)
    BY <1>0, <1>12 DEF LoadTail
  <1>13. CASE LoadVersion(P)
    BY <1>0, <1>13 DEF LoadVersion
  <1>14. CASE LoadNext(P)
    BY <1>0, <1>14 DEF LoadNext
  <1>15. CASE CheckTail(P)
    BY <1>0, <1>15 DEF CheckTail
  <1>16. CASE CheckTailVersion(P)
    BY <1>0, <1>16 DEF CheckTailVersion
  <1>17. CASE AppendNode(P)
    BY <1>0, <1>17 DEF AppendNode
  <1>18. CASE AppendFails(P)
    BY <1>0, <1>18 DEF AppendFails
  <1>19. CASE HelpTail(P)
    BY <1>0, <1>19 DEF HelpTail
  <1>20. CASE HelpTailFails(P)
    BY <1>0, <1>20 DEF HelpTailFails
  <1>21. CASE Swing(P)
    BY <1>0, <1>21 DEF Swing
  <1> QED
    BY <1>1, <1>2, <1>3, <1>4, <1>5, <1>6, <1>7, <1>8, <1>9, <1>10, <1>11, <1>12, <1>13, <1>14,
       <1>15, <1>16, <1>17, <1>18, <1>19, <1>20, <1>21
    DEF EnqueueKeeps, AllocateStep

\* So does a consumer.
LEMMA DequeueAlone ==
  ASSUME TypeOK, CallInv, NEW t \in Consumers, DequeueKeeps(t) \/ TakeHead(t)
  PROVE  Alone(t)
  <1>0. /\ t \in Threads /\ loc[t] \in Locals /\ loc \in [Threads -> Locals]
        /\ pc \in [Threads -> ProducerPcs \cup ConsumerPcs]
        /\ req \in [Threads -> Fifo!Requests \cup {NULL}] /\ res \in [Threads -> Answers]
    BY DEF TypeOK, CallInv, Threads
  <1> USE DEF Load, Step, Restart, Goto, GoOn, Continue, GiveUp, Return, sharedVars, endVars,
              nodeVars, poolVars, callVars, Alone
  <1>1. CASE \E n \in Attempts : CallDequeue(t, n)
    BY <1>0, <1>1 DEF CallDequeue
  <1>2. CASE LoadHead(t)
    BY <1>0, <1>2 DEF LoadHead
  <1>3. CASE LoadVersion(t)
    BY <1>0, <1>3 DEF LoadVersion
  <1>4. CASE LoadOldTail(t)
    BY <1>0, <1>4 DEF LoadOldTail
  <1>5. CASE LoadNext(t)
    BY <1>0, <1>5 DEF LoadNext
  <1>6. CASE CheckHead(t)
    BY <1>0, <1>6 DEF CheckHead
  <1>7. CASE CheckHeadVersion(t)
    BY <1>0, <1>7 DEF CheckHeadVersion
  <1>8. CASE HelpTailOn(t)
    BY <1>0, <1>8 DEF HelpTailOn
  <1>9. CASE CheckElem(t)
    BY <1>0, <1>9 DEF CheckElem
  <1>10. CASE TakeHead(t)
    BY <1>0, <1>10 DEF TakeHead
  <1>11. CASE TakeFails(t)
    BY <1>0, <1>11 DEF TakeFails
  <1>12. CASE MoveOut(t)
    BY <1>0, <1>12 DEF MoveOut
  <1>13. CASE Retire(t)
    BY <1>0, <1>13 DEF Retire
  <1>14. CASE Wipe(t)
    BY <1>0, <1>14 DEF Wipe
  <1>15. CASE LinkFree(t)
    BY <1>0, <1>15 DEF LinkFree
  <1>16. CASE PushFreeLast(t)
    BY <1>0, <1>16 DEF PushFreeLast
  <1>17. CASE PushFreeFails(t)
    BY <1>0, <1>17 DEF PushFreeFails
  <1> QED
    BY <1>1, <1>2, <1>3, <1>4, <1>5, <1>6, <1>7, <1>8, <1>9, <1>10, <1>11, <1>12, <1>13, <1>14,
       <1>15, <1>16, <1>17
    DEF DequeueKeeps

\* Most steps of the producer are silent.
LEMMA EnqueueIsSilent ==
  ASSUME TypeOK, CallInv, EnqueueKeeps(Producer),
         ~Construct(Producer), ~Swing(Producer),
         ~\E v \in Values : CallEnqueue(Producer, v)
  PROVE  EnqueueSilent
  <1> DEFINE P == Producer
  <1>0. /\ P \in Threads /\ loc[P] \in Locals /\ loc \in [Threads -> Locals]
        /\ pc \in [Threads -> ProducerPcs \cup ConsumerPcs]
    BY DEF TypeOK, Threads
  <1> USE DEF Load, Step, Restart, Goto, sharedVars, endVars, nodeVars, callVars
  <1>1. Alone(P)
    BY EnqueueAlone
  <1> USE DEF Built, Linking, Comparing, EnqueueSilent, Locals
  <1>2. CASE LoadFree(P)
    BY <1>0, <1>1, <1>2 DEF LoadFree
  <1>3. CASE LoadFreeNext(P)
    BY <1>0, <1>1, <1>3 DEF LoadFreeNext
  <1>4. CASE PopFree(P)
    BY <1>0, <1>1, <1>4 DEF PopFree
  <1>5. CASE PopFreeFails(P)
    BY <1>0, <1>1, <1>5 DEF PopFreeFails
  <1>6. CASE LockPool(P)
    BY <1>0, <1>1, <1>6 DEF LockPool
  <1>7. CASE Expand(P)
    BY <1>0, <1>1, <1>7 DEF Expand
  <1>8. CASE LinkFree(P)
    BY <1>0, <1>1, <1>8 DEF LinkFree
  <1>9. CASE PushFree(P)
    BY <1>0, <1>1, <1>9 DEF PushFree
  <1>10. CASE PushFreeFails(P)
    BY <1>0, <1>1, <1>10 DEF PushFreeFails
  <1>11. CASE LoadTail(P)
    BY <1>0, <1>1, <1>11 DEF LoadTail
  <1>12. CASE LoadVersion(P)
    BY <1>0, <1>1, <1>12 DEF LoadVersion
  <1>13. CASE LoadNext(P)
    BY <1>0, <1>1, <1>13 DEF LoadNext
  <1>14. CASE CheckTail(P)
    BY <1>0, <1>1, <1>14 DEF CheckTail
  <1>15. CASE CheckTailVersion(P)
    BY <1>0, <1>1, <1>15 DEF CheckTailVersion
  <1>16. CASE AppendFails(P)
    BY <1>0, <1>1, <1>16 DEF AppendFails
  <1>17. CASE HelpTail(P)
    BY <1>0, <1>1, <1>17 DEF HelpTail
  <1>18. CASE HelpTailFails(P)
    BY <1>0, <1>1, <1>18 DEF HelpTailFails
  <1> QED
    BY <1>2, <1>3, <1>4, <1>5, <1>6, <1>7, <1>8, <1>9, <1>10, <1>11,
       <1>12, <1>13, <1>14, <1>15, <1>16, <1>17, <1>18
       DEF EnqueueKeeps, AllocateStep
\* A step of a consumer before it wins head.
Looks(t) ==
  /\ UNCHANGED <<head, elem, version, req, res>>
  /\ pc[t] \in {"head"} \cup Looking /\ pc'[t] \in {"head"} \cup Looking
  /\ pc'[t] \in Looking \ {"version"} => loc'[t].ver = version[head]

\* A step of a consumer after that.
Frees(t) ==
  /\ UNCHANGED <<head, req, res>> /\ Taken(t) /\ Taken(t)'
  /\ AbstractRes'[t] = AbstractRes[t]
  /\ \A n \in Nodes \ ({head} \cup Own(t)) : elem'[n] = elem[n]

\* A consumer returns.
Says(t, r) == Return(t, r) /\ UNCHANGED <<head, elem, version>>

\* What a step of a consumer that leaves the list alone may do.
DequeueOutcome(t) ==
  \/ \E n \in Attempts : CallDequeue(t, n)
  \/ Looks(t) /\ (SeesEmpty(t)' <=> SeesEmpty(t))
  \/ Looks(t) /\ ~SeesEmpty(t) /\ SeesEmpty(t)' /\ next[head] = NULL
  \/ Frees(t)
  \/ /\ Says(t, Result(FALSE, NoValue)) /\ pc[t] \in Looking
     /\ SeesEmpty(t) \/ loc[t].left = 1
  \/ Says(t, Result(TRUE, loc[t].item)) /\ pc[t] = "give"

\* A consumer that starts over has not seen an empty queue.
LEMMA ContinueOutcome ==
  ASSUME TypeOK, NEW t \in Consumers, pc[t] \in Looking, ~SeesEmpty(t), Continue(t),
         UNCHANGED <<head, elem, version>>
  PROVE  DequeueOutcome(t)
  <1>0. t \in Threads /\ pc \in [Threads -> ProducerPcs \cup ConsumerPcs]
    BY DEF TypeOK, Threads
  <1>1. CASE GiveUp(t)
    BY <1>1 DEF GiveUp, DequeueOutcome, Says
  <1>2. CASE ~GiveUp(t)
    <2>1. pc'[t] = "head" /\ UNCHANGED callVars
      BY <1>0, <1>2 DEF Continue
    <2>2. Looks(t) /\ ~SeesEmpty(t)'
      BY <2>1 DEF Looks, SeesEmpty, Looking, Reading, callVars
    <2> QED
      BY <2>2 DEF DequeueOutcome
  <1> QED
    BY <1>1, <1>2

\* Every step that leaves the list alone is one of them.
LEMMA DequeueOutcomes ==
  ASSUME OneConsumer, TypeOK, CallInv, FlowInv, NEW q \in Seq(Nodes), NEW f \in Seq(Nodes),
         Shape(q, f), NEW t \in Consumers, DequeueKeeps(t)
  PROVE  DequeueOutcome(t)
  <1>0. /\ t \in Threads /\ t # Producer /\ loc[t] \in Locals /\ loc \in [Threads -> Locals]
        /\ pc \in [Threads -> ProducerPcs \cup ConsumerPcs] /\ elem \in [Nodes -> Cells]
        /\ ConsumerKnows(pc[t], loc[t])
        /\ pc[t] \in Looking \ {"version"} => loc[t].ver = version[head]
    BY ConsumerStarts DEF TypeOK, FlowInv
  <1> USE DEF Load, Step, sharedVars, endVars, nodeVars, callVars
  <1>2. CASE \E n \in Attempts : CallDequeue(t, n)
    BY <1>2 DEF DequeueOutcome
  <1>3. CASE LoadHead(t)
    <2>1. Looks(t) /\ ~SeesEmpty(t)' /\ ~SeesEmpty(t)
      BY <1>0, <1>3 DEF LoadHead, Looks, SeesEmpty, Looking
    <2> QED
      BY <2>1 DEF DequeueOutcome
  <1>4. CASE LoadVersion(t)
    <2>1. Looks(t) /\ ~SeesEmpty(t)' /\ ~SeesEmpty(t)
      BY <1>0, <1>4 DEF LoadVersion, Looks, SeesEmpty, Looking, Locals, ConsumerKnows
    <2> QED
      BY <2>1 DEF DequeueOutcome
  <1>5. CASE LoadOldTail(t)
    <2>1. Looks(t) /\ ~SeesEmpty(t)' /\ ~SeesEmpty(t)
      BY <1>0, <1>5 DEF LoadOldTail, Looks, SeesEmpty, Looking, Locals
    <2> QED
      BY <2>1 DEF DequeueOutcome
  <1>6. CASE LoadNext(t)
    <2>1. Looks(t) /\ ~SeesEmpty(t)
      BY <1>0, <1>6 DEF LoadNext, Looks, SeesEmpty, Looking, Reading, Locals
    <2>2. SeesEmpty(t)' => next[head] = NULL
      BY <1>0, <1>6 DEF LoadNext, SeesEmpty, Looking, Locals, ConsumerKnows
    <2> QED
      BY <2>1, <2>2 DEF DequeueOutcome
  <1>7. CASE CheckHead(t)
    <2>1. GoOn(t, "checkVersion")
      BY <1>0, <1>7 DEF CheckHead, ConsumerKnows, Looking, Reading
    <2>2. Looks(t) /\ (SeesEmpty(t)' <=> SeesEmpty(t))
      BY <1>0, <1>7, <2>1 DEF CheckHead, GoOn, Goto, Looks, SeesEmpty, Looking, Reading
    <2> QED
      BY <2>2 DEF DequeueOutcome
  <1>8. CASE CheckHeadVersion(t)
    <2>0. pc[t] \in Looking /\ UNCHANGED <<head, elem, version>> /\ pc[t] = "checkVersion"
      BY <1>8 DEF CheckHeadVersion, Looking, Reading
    <2>1. version[loc[t].old] = loc[t].ver
      BY <1>0, <2>0 DEF ConsumerKnows, Looking, Reading
    <2>2. CASE SeesEmpty(t)
      <3>1. Return(t, Result(FALSE, NoValue))
        BY <1>8, <2>1, <2>2 DEF CheckHeadVersion, SeesEmpty
      <3> QED
        BY <2>0, <2>2, <3>1 DEF DequeueOutcome, Says
    <2>3. CASE ~SeesEmpty(t)
      <3>1. Continue(t) \/ GoOn(t, "helpTail") \/ GoOn(t, "checkElem")
        BY <1>8, <2>0, <2>1, <2>3 DEF CheckHeadVersion, SeesEmpty
      <3>2. ASSUME NEW p \in {"helpTail", "checkElem"}, GoOn(t, p)
            PROVE  Looks(t) /\ ~SeesEmpty(t)'
        BY <1>0, <2>0, <3>2 DEF GoOn, Goto, Looks, SeesEmpty, Looking, Reading
      <3> QED
        BY <2>0, <2>3, <3>1, <3>2, ContinueOutcome DEF DequeueOutcome
    <2> QED
      BY <2>2, <2>3
  <1>9. CASE HelpTailOn(t) \/ TakeFails(t)
    <2>1. /\ pc[t] \in Looking /\ ~SeesEmpty(t) /\ Continue(t)
          /\ UNCHANGED <<head, elem, version>>
      BY <1>9 DEF HelpTailOn, TakeFails, Looking, Reading, SeesEmpty
    <2> QED
      BY <2>1, ContinueOutcome
  <1>10. CASE CheckElem(t)
    <2>1. /\ pc[t] \in Looking /\ ~SeesEmpty(t) /\ UNCHANGED <<head, elem, version>>
          /\ pc[t] = "checkElem"
          /\ Continue(t) \/ GoOn(t, "take")
      BY <1>10 DEF CheckElem, Looking, Reading, SeesEmpty
    <2>2. GoOn(t, "take") => Looks(t) /\ ~SeesEmpty(t)'
      BY <1>0, <2>1 DEF GoOn, Goto, Looks, SeesEmpty, Looking, Reading
    <2> QED
      BY <2>1, <2>2, ContinueOutcome DEF DequeueOutcome
  <1>11. CASE MoveOut(t)
    <2>1. Frees(t)
      BY <1>0, <1>11 DEF MoveOut, Frees, Taken, AbstractRes, ConsumerKnows, Locals
    <2> QED
      BY <2>1 DEF DequeueOutcome
  <1>12. CASE Retire(t) \/ LinkFree(t) \/ PushFreeFails(t)
    <2>1. Frees(t)
      BY <1>0, <1>12 DEF Retire, LinkFree, PushFreeFails, Frees, Taken, AbstractRes, Locals
    <2> QED
      BY <2>1 DEF DequeueOutcome
  <1>13. CASE Wipe(t)
    <2>1. Frees(t)
      BY <1>0, <1>13 DEF Wipe, Frees, Taken, AbstractRes, Locals, Own
    <2> QED
      BY <2>1 DEF DequeueOutcome
  <1>14. CASE PushFreeLast(t)
    BY <1>14 DEF PushFreeLast, DequeueOutcome, Says
  <1> QED
    BY <1>2, <1>3, <1>4, <1>5, <1>6, <1>7, <1>8, <1>9, <1>10, <1>11, <1>12, <1>13, <1>14
    DEF DequeueKeeps

\* Every step keeps FlowInv.
LEMMA FlowKept ==
  ASSUME OneConsumer, PoolInv, CallInv, FlowInv, [Next]_vars
  PROVE  FlowInv'
  <1>1. PICK q \in Seq(Nodes), f \in Seq(Nodes) : TypeOK /\ Shape(q, f)
    BY DEF PoolInv
  <1>2. /\ Producer \in Threads /\ Producer \notin Consumers /\ Consumers \subseteq Threads
        /\ loc \in [Threads -> Locals] /\ loc[Producer] \in Locals
        /\ pc \in [Threads -> ProducerPcs \cup ConsumerPcs]
        /\ elem \in [Nodes -> Cells] /\ version \in [Nodes -> Nat]
        /\ ProducerKnows(pc[Producer], loc[Producer], q, f) /\ Shared(q, f)
        /\ head \in Nodes /\ head \in ToSet(q)
    BY <1>1, ProducerStarts, ListFacts, ThreadAssumption DEF TypeOK
  <1>n. pc[Producer] \in Building \ {"swing"} =>
          /\ loc[Producer].node \in Nodes \ {head}
          /\ loc[Producer].node \in Own(Producer)
          /\ \A t \in Consumers : loc[Producer].node \notin Own(t)
    <2> SUFFICES ASSUME pc[Producer] \in Building \ {"swing"}
                 PROVE  /\ loc[Producer].node \in Nodes \ {head}
                        /\ loc[Producer].node \in Own(Producer)
                        /\ \A t \in Consumers : loc[Producer].node \notin Own(t)
      OBVIOUS
    <2>1. loc[Producer].node \in Nodes
      BY <1>2 DEF ProducerKnows, Locals, Ptr
    <2>2. loc[Producer].node \in Own(Producer)
      BY <1>2 DEF ProducerKnows, Own
    <2> QED
      BY <1>2, <2>1, <2>2 DEF Shared
  <1>3. CASE UNCHANGED vars
    BY <1>3 DEF FlowInv, vars, sharedVars, endVars, nodeVars, callVars
  <1>4. ASSUME Alone(Producer), UNCHANGED head, version'[head] = version[head]
        PROVE  \A t \in Consumers :
                 pc'[t] \in Looking \ {"version"} => loc'[t].ver = version'[head']
    BY <1>2, <1>4 DEF FlowInv, Alone
  <1>5. CASE EnqueueKeeps(Producer) \/ AppendNode(Producer)
    <2>1. Alone(Producer)
      BY <1>1, <1>5, EnqueueAlone
    <2>2. CASE EnqueueSilent
      <3>1. UNCHANGED head /\ version'[head] = version[head]
        BY <2>2 DEF EnqueueSilent
      <3> QED
        BY <1>4, <2>1, <2>2, <3>1 DEF FlowInv, EnqueueSilent
    <2>3. CASE Construct(Producer)
      <3>1. loc[Producer].node \in Nodes \ {head}
        BY <1>n, <2>3 DEF Construct, Step, Building
      <3>2. UNCHANGED head /\ version'[head] = version[head]
        BY <1>2, <2>3, <3>1 DEF Construct, endVars
      <3>3. /\ loc' = loc /\ req' = req
            /\ elem'[loc[Producer].node] = req[Producer].v
        BY <1>2, <2>3, <3>1 DEF Construct, callVars
      <3> QED
        BY <1>4, <2>1, <3>2, <3>3 DEF FlowInv
    <2>4. CASE AppendNode(Producer)
      <3>1. UNCHANGED head /\ version'[head] = version[head] /\ pc'[Producer] = "swing"
            /\ loc' = loc
        BY <1>2, <2>4 DEF AppendNode, Step, endVars
      <3> QED
        BY <1>4, <2>1, <3>1 DEF FlowInv, Built, Linking, Comparing
    <2>5. CASE Swing(Producer)
      <3>1. UNCHANGED head /\ version'[head] = version[head] /\ pc'[Producer] = "idle"
            /\ loc'[Producer] = NoLocals
        BY <1>2, <2>5 DEF Swing, Return, nodeVars
      <3> QED
        BY <1>4, <2>1, <3>1 DEF FlowInv, NoLocals, Built, Linking, Comparing
    <2>6. ASSUME NEW v \in Values, CallEnqueue(Producer, v)
          PROVE  FlowInv'
      <3>1. UNCHANGED head /\ version'[head] = version[head] /\ pc'[Producer] = "pop"
            /\ loc' = loc
        BY <1>2, <2>6 DEF CallEnqueue, Step, endVars, nodeVars
      <3> QED
        BY <1>4, <2>1, <3>1 DEF FlowInv, Built, Linking, Comparing
    <2> QED
      BY <1>1, <1>5, <2>2, <2>3, <2>4, <2>5, <2>6, EnqueueIsSilent
  <1>6. ASSUME NEW t \in Consumers, DequeueKeeps(t) \/ TakeHead(t)
        PROVE  FlowInv'
    <2>1. /\ pc'[Producer] = pc[Producer] /\ loc'[Producer] = loc[Producer]
          /\ req'[Producer] = req[Producer]
      BY <1>1, <1>2, <1>6, DequeueAlone DEF Alone
    <2>2. Consumers = {t} /\ t \in Threads
      BY <1>2 DEF OneConsumer
    <2>3. ASSUME pc[Producer] \in Built =>
                   elem'[loc[Producer].node] = elem[loc[Producer].node],
                 pc'[t] \in Looking \ {"version"} => loc'[t].ver = version'[head']
          PROVE  FlowInv'
      BY <2>1, <2>2, <2>3 DEF FlowInv
    <2>4. CASE TakeHead(t)
      <3>1. UNCHANGED elem /\ pc'[t] = "move"
        BY <1>2, <2>2, <2>4 DEF TakeHead, Step, nodeVars
      <3> QED
        BY <2>3, <3>1 DEF Looking, Reading
    <2>5. CASE \E n \in Attempts : CallDequeue(t, n)
      <3>1. UNCHANGED elem /\ pc'[t] = "head"
        BY <1>2, <2>2, <2>5 DEF CallDequeue, Step, nodeVars
      <3> QED
        BY <2>3, <3>1 DEF Looking, Reading
    <2>6. CASE Looks(t)
      BY <2>3, <2>6 DEF Looks
    <2>7. CASE Frees(t)
      <3>1. pc[Producer] \in Built => elem'[loc[Producer].node] = elem[loc[Producer].node]
        BY <1>n, <2>7 DEF Frees, Built, Building, Linking, Comparing
      <3>2. pc'[t] \notin Looking
        BY <2>7 DEF Frees, Taken, Looking, Reading
      <3> QED
        BY <2>3, <3>1, <3>2
    <2>8. ASSUME NEW r, Says(t, r)
          PROVE  FlowInv'
      <3>1. UNCHANGED elem /\ pc'[t] = "idle"
        BY <1>2, <2>2, <2>8 DEF Says, Return
      <3> QED
        BY <2>3, <3>1 DEF Looking, Reading
    <2> QED
      BY <1>1, <1>6, <2>4, <2>5, <2>6, <2>7, <2>8, DequeueOutcomes DEF DequeueOutcome
  <1> QED
    BY <1>3, <1>5, <1>6, StepKinds

\* What changes, for the specification, in a step of t: its own call.
LEMMA OneCallChanges ==
  ASSUME NEW t \in Threads, Alone(t),
         \A u \in Consumers \ {t} : pc[u] = "move" => elem'[loc[u].nxt] = elem[loc[u].nxt]
  PROVE  /\ AbstractReq' = [AbstractReq EXCEPT ![t] = AbstractReq'[t]]
         /\ AbstractRes' = [AbstractRes EXCEPT ![t] = AbstractRes'[t]]
         /\ AbstractReq'[t] = AbstractReq[t] => AbstractReq' = AbstractReq
         /\ AbstractRes'[t] = AbstractRes[t] => AbstractRes' = AbstractRes
  <1>1. \A u \in Threads \ {t} : /\ SeesEmpty(u)' = SeesEmpty(u) /\ Taken(u)' = Taken(u)
                                 /\ Effective(u)' = Effective(u)
    BY DEF Alone, SeesEmpty, Taken, Effective
  <1>2. \A u \in Threads \ {t} : AbstractReq'[u] = AbstractReq[u]
    BY <1>1 DEF Alone, AbstractReq
  <1>3. \A u \in Threads \ {t} : AbstractRes'[u] = AbstractRes[u]
    BY <1>1 DEF Alone, AbstractRes
  <1>4. /\ DOMAIN AbstractReq = Threads /\ DOMAIN AbstractReq' = Threads
        /\ AbstractReq' = [u \in Threads |-> AbstractReq'[u]]
        /\ AbstractReq = [u \in Threads |-> AbstractReq[u]]
    BY DEF AbstractReq
  <1>5. /\ AbstractRes' = [u \in Threads |-> AbstractRes'[u]]
        /\ AbstractRes = [u \in Threads |-> AbstractRes[u]]
    BY DEF AbstractRes
  <1> QED
    BY <1>2, <1>3, <1>4, <1>5

-----------------------------------------------------------------------------
(* The queue implements BoundedFifo *)

\* What the queue holds stays if its nodes and their values do.
LEMMA QueueKept ==
  ASSUME NEW q \in Seq(Nodes), NEW f, NEW g, Shape(q, f), Shape(q, g)',
         \A n \in ToSet(q) \ {head} : elem'[n] = elem[n]
  PROVE  Queue' = Queue
  <1>1. Shared(q, f) /\ Shared(q, g)'
    BY DEF Shape
  <1>2. q # <<>> /\ Chain(next, q, head) /\ Chain(next, q, head)'
    BY <1>1 DEF Shared
  <1>3. Queue = Behind(elem, q) /\ Queue' = Behind(elem', q)
    BY <1>2, QueueIs, QueueIsAfter DEF QueueRead
  <1>4. /\ Len(q) \in Nat \ {0} /\ DOMAIN q = 1 .. Len(q) /\ head = q[1]
        /\ \A i, j \in 1 .. Len(q) : q[i] = q[j] => i = j
    BY <1>2, EmptySeq DEF Chain, IsInjective
  <1>5. ASSUME NEW i \in 1 .. Len(q) - 1
        PROVE  elem'[q[i + 1]] = elem[q[i + 1]]
    <2>1. i + 1 \in 1 .. Len(q) /\ 1 \in 1 .. Len(q) /\ i + 1 # 1
      BY <1>4
    <2>2. q[i + 1] \in ToSet(q) \ {head}
      BY <1>4, <2>1 DEF ToSet
    <2> QED
      BY <2>2
  <1> QED
    BY <1>3, <1>5 DEF Behind

\* A dummy node without a successor is an empty queue.
LEMMA EmptyQueue ==
  ASSUME TypeOK, NEW q \in Seq(Nodes), NEW f \in Seq(Nodes), Shared(q, f), next[head] = NULL
  PROVE  Queue = <<>>
  <1>1. head = q[Len(q)] /\ head = q[1] /\ Len(q) \in Nat \ {0}
    BY ListFacts
  <1>2. q # <<>> /\ Chain(next, q, head) /\ DOMAIN q = 1 .. Len(q)
    BY DEF Shared
  <1>3. Len(q) = 1
    <2>1. 1 \in DOMAIN q /\ Len(q) \in DOMAIN q
      BY <1>1, <1>2
    <2> QED
      BY <1>1, <1>2, <2>1 DEF Chain, IsInjective
  <1>4. Queue = Behind(elem, q)
    BY <1>2, QueueIs DEF QueueRead
  <1>5. Behind(elem, q) \in Seq(Cells) /\ Len(Behind(elem, q)) = Len(q) - 1
    BY <1>2, BehindFacts DEF TypeOK
  <1>6. Len(Behind(elem, q)) = 0
    BY <1>3, <1>5
  <1> QED
    BY <1>4, <1>5, <1>6, EmptySeq

\* What a step may do to the calls and the queue.
FifoStep == Fifo!Next \/ \E t \in Consumers : GivesUp(t)

\* Every step of the producer.
LEMMA EnqueueImplements ==
  ASSUME OneConsumer, TypeOK, CallInv, FlowInv, NEW q \in Seq(Nodes), NEW f \in Seq(Nodes),
         Shape(q, f), EnqueueKeeps(Producer), FlowInv'
  PROVE  FifoStep \/ UNCHANGED Fifo!fifoVars
  <1> DEFINE P == Producer
  <1>0. /\ P \in Threads /\ P \notin Consumers /\ Consumers \subseteq Threads
        /\ loc \in [Threads -> Locals] /\ loc[P] \in Locals
        /\ pc \in [Threads -> ProducerPcs \cup ConsumerPcs] /\ pc[P] \in ProducerPcs
        /\ elem \in [Nodes -> Cells]
        /\ ProducerKnows(pc[P], loc[P], q, f) /\ Shared(q, f)
        /\ \A u \in Consumers : ConsumerKnows(pc[u], loc[u])
        /\ head \in ToSet(q) /\ ToSet(q) \subseteq Nodes
        /\ \A n \in Nodes : n # NULL
    BY ProducerStarts, ListFacts, ThreadAssumption DEF TypeOK
  <1>1. Alone(P)
    BY EnqueueAlone
  <1>2. PICK g \in Seq(Nodes) : TypeOK' /\ Shape(q, g)'
    BY EnqueueShape
  <1>3. /\ pc'[P] \in ProducerPcs /\ loc'[P].oldTail = NULL
        /\ pc'[P] = "checkVersion" => loc'[P].old \in Nodes
    BY <1>2 DEF TypeOK, FlowInv, Shape, ProducerKnows, Linking, Comparing
  <1>4. ~SeesEmpty(P) /\ ~SeesEmpty(P)' /\ ~Taken(P) /\ ~Taken(P)'
    <2>1. pc[P] # "checkHead" /\ pc'[P] # "checkHead"
      BY <1>0, <1>3 DEF ProducerPcs, Allocating, Building, Linking, Comparing
    <2>2. pc[P] = "checkVersion" => loc[P].old \in Nodes /\ loc[P].oldTail = NULL
      BY <1>0 DEF FlowInv, ProducerKnows, Linking, Comparing
    <2> QED
      BY <1>0, <1>3, <2>1, <2>2 DEF SeesEmpty, Taken
  <1>5. \A n \in ToSet(q) : elem'[n] = elem[n]
    <2>1. CASE Construct(P)
      <3>1. loc[P].node \notin ToSet(q)
        BY <1>0, <2>1 DEF Construct, Step, ProducerKnows, Building, Own, Shared
      <3> QED
        BY <1>0, <2>1, <3>1 DEF Construct
    <2>2. CASE Swing(P) \/ \E v \in Values : CallEnqueue(P, v)
      BY <2>2 DEF Swing, CallEnqueue, nodeVars
    <2>3. CASE EnqueueSilent
      BY <2>3 DEF EnqueueSilent
    <2> QED
      BY <2>1, <2>2, <2>3, EnqueueIsSilent
  <1>6. /\ Queue' = Queue
        /\ AbstractReq' = [AbstractReq EXCEPT ![P] = AbstractReq'[P]]
        /\ AbstractRes' = [AbstractRes EXCEPT ![P] = AbstractRes'[P]]
        /\ AbstractReq'[P] = AbstractReq[P] => AbstractReq' = AbstractReq
        /\ AbstractRes'[P] = AbstractRes[P] => AbstractRes' = AbstractRes
    <2>1. Queue' = Queue
      BY <1>2, <1>5, QueueKept
    <2>2. \A u \in Consumers \ {P} : pc[u] = "move" => elem'[loc[u].nxt] = elem[loc[u].nxt]
      BY <1>0, <1>5 DEF ConsumerKnows
    <2> QED
      BY <1>0, <1>1, <2>1, <2>2, OneCallChanges
  <1>7. /\ AbstractReq[P] = IF pc[P] = "swing" THEN NULL ELSE req[P]
        /\ AbstractReq'[P] = IF pc'[P] = "swing" THEN NULL ELSE req'[P]
        /\ AbstractRes[P] = IF pc[P] = "swing" THEN Result(TRUE, NoValue) ELSE res[P]
        /\ AbstractRes'[P] = IF pc'[P] = "swing" THEN Result(TRUE, NoValue) ELSE res'[P]
    BY <1>0, <1>4 DEF AbstractReq, AbstractRes, Effective
  <1>8. ASSUME AbstractReq'[P] = AbstractReq[P], AbstractRes'[P] = AbstractRes[P]
        PROVE  UNCHANGED Fifo!fifoVars
    BY <1>6, <1>8 DEF Fifo!fifoVars
  <1>9. CASE EnqueueSilent \/ Construct(P)
    BY <1>0, <1>7, <1>8, <1>9 DEF EnqueueSilent, Construct, Step, callVars
  <1>10. CASE Swing(P)
    <2>1. pc[P] = "swing" /\ pc'[P] = "idle" /\ req'[P] = NULL /\ res'[P] = Result(TRUE, NoValue)
      BY <1>0, <1>10 DEF Swing, Return, CallInv
    <2> QED
      BY <1>7, <1>8, <2>1
  <1>11. ASSUME NEW v \in Values, CallEnqueue(P, v)
         PROVE  FifoStep
    <2> DEFINE r == [op |-> "push", v |-> v, block |-> FALSE]
    <2>1. pc[P] = "idle" /\ pc'[P] = "pop" /\ req'[P] = r /\ res' = res /\ req[P] = NULL
      BY <1>0, <1>11 DEF CallEnqueue, Step, CallInv
    <2>2. AbstractReq[P] = NULL /\ AbstractReq' = [AbstractReq EXCEPT ![P] = r]
      BY <1>6, <1>7, <2>1
    <2>3. AbstractRes' = AbstractRes
      BY <1>6, <1>7, <2>1
    <2>4. r \in Fifo!Requests
      BY DEF Fifo!Requests, Fifo!PushCalls
    <2>5. Fifo!Call(P, r)
      BY <1>6, <2>2, <2>3 DEF Fifo!Call
    <2> QED
      BY <1>0, <2>4, <2>5 DEF FifoStep, Fifo!Next
  <1> QED
    BY <1>9, <1>10, <1>11, EnqueueIsSilent

\* The exchange of the link puts the value of the call at the end.
LEMMA AppendImplements ==
  ASSUME OneConsumer, TypeOK, CallInv, FlowInv, NEW q \in Seq(Nodes), NEW f \in Seq(Nodes),
         Shape(q, f), AppendNode(Producer)
  PROVE  Fifo!Put(Producer)
  <1> DEFINE P == Producer
  <1>0. /\ P \in Threads /\ P \notin Consumers
        /\ loc \in [Threads -> Locals] /\ pc \in [Threads -> ProducerPcs \cup ConsumerPcs]
        /\ pc[P] = "append" /\ pc'[P] = "swing" /\ loc' = loc /\ req' = req
        /\ elem' = elem /\ elem \in [Nodes -> Cells] /\ Shared(q, f)
        /\ \E v \in Values : req[P] = [op |-> "push", v |-> v, block |-> FALSE]
    BY ProducerStarts, ThreadAssumption
    DEF TypeOK, CallInv, AppendNode, Step, callVars, Threads
  <1>1. PICK v \in Values : req[P] = [op |-> "push", v |-> v, block |-> FALSE]
    BY <1>0
  <1>2. elem[loc[P].node] = v
    BY <1>0, <1>1 DEF FlowInv, Built, Linking, Comparing
  <1>3. PICK r \in Seq(Nodes) : r = Append(q, loc[P].node) /\ Shape(r, f)'
    BY AppendNodeStep
  <1>4. /\ q # <<>> /\ Chain(next, q, head) /\ r # <<>> /\ Chain(next, r, head)'
        /\ Len(q) \in Nat \ {0}
    BY <1>0, <1>3, EmptySeq DEF Shape, Shared
  <1>5. Queue = Behind(elem, q) /\ Queue' = Behind(elem', r)
    BY <1>4, QueueIs, QueueIsAfter DEF QueueRead
  <1>7. Queue' = Append(Queue, v)
    <2>1. loc[P].node \in Nodes
      BY <1>0, ProducerStarts DEF ProducerKnows, Locals, Ptr, Building, Linking, Comparing
    <2> QED
      BY <1>0, <1>2, <1>3, <1>4, <1>5, <2>1, BehindAppend
  <1>8. Len(Queue) < MaxNodes
    <2>1. Len(q) <= MaxNodes /\ Len(Queue) = Len(q) - 1
      BY <1>0, <1>4, <1>5, ListIs, BehindFacts
    <2> QED
      BY <1>4, <2>1, SizeAssumption
  <1>9. /\ AbstractReq[P] = req[P] /\ AbstractReq'[P] = NULL
        /\ AbstractRes'[P] = Result(TRUE, NoValue)
    BY <1>0 DEF AbstractReq, AbstractRes, Effective, SeesEmpty, Taken
  <1>10. /\ AbstractReq' = [AbstractReq EXCEPT ![P] = NULL]
         /\ AbstractRes' = [AbstractRes EXCEPT ![P] = Result(TRUE, NoValue)]
    BY <1>0, <1>9, OneCallChanges, EnqueueAlone
  <1>11. AbstractReq[P] \in Fifo!PushCalls /\ AbstractReq[P].v = v
    BY <1>1, <1>9 DEF Fifo!PushCalls
  <1> QED
    BY <1>7, <1>8, <1>10, <1>11 DEF Fifo!Put, Fifo!Return, Fifo!Result, Result

\* The exchange of head takes the oldest value.
LEMMA TakeImplements ==
  ASSUME OneConsumer, TypeOK, CallInv, NEW q \in Seq(Nodes), NEW f \in Seq(Nodes),
         Shape(q, f), NEW t \in Consumers, TakeHead(t)
  PROVE  Fifo!Take(t)
  <1>0. /\ t \in Threads /\ Consumers = {t}
        /\ pc[t] = "take" /\ pc'[t] = "move" /\ loc' = loc /\ req[t] = Dequeue
        /\ elem' = elem /\ elem \in [Nodes -> Cells] /\ Shared(q, f)
        /\ ConsumerKnows("take", loc[t])
    BY ConsumerStarts DEF TypeOK, CallInv, TakeHead, Step, nodeVars
  <1>1. Tail(q) \in Seq(Nodes) /\ Shape(Tail(q), f)' /\ Len(q) > 1
    BY TakeHeadStep
  <1>2. q # <<>> /\ Chain(next, q, head) /\ Tail(q) # <<>> /\ Chain(next, Tail(q), head)'
    BY <1>0, <1>1 DEF Shape, Shared
  <1>3. Queue = Behind(elem, q) /\ Queue' = Behind(elem', Tail(q))
    BY <1>1, <1>2, QueueIs, QueueIsAfter DEF QueueRead
  <1>4. Queue # <<>> /\ Queue' = Tail(Queue) /\ Head(Queue) = elem[q[2]]
    BY <1>0, <1>1, <1>3, BehindTail
  <1>5. loc[t].nxt = q[2]
    <2>1. loc[t].nxt = next[head]
      BY <1>0 DEF ConsumerKnows, Looking, Reading
    <2>2. head = q[1] /\ 1 \in 1 .. Len(q) /\ 1 # Len(q)
      BY <1>1, <1>2 DEF Chain
    <2> QED
      BY <1>2, <2>1, <2>2 DEF Chain
  <1>6. /\ AbstractReq[t] = Dequeue /\ AbstractReq'[t] = NULL
        /\ AbstractRes'[t] = Result(TRUE, Head(Queue))
    BY <1>0, <1>4, <1>5 DEF AbstractReq, AbstractRes, Effective, SeesEmpty, Taken
  <1>7. /\ AbstractReq' = [AbstractReq EXCEPT ![t] = NULL]
        /\ AbstractRes' = [AbstractRes EXCEPT ![t] = Result(TRUE, Head(Queue))]
    BY <1>0, <1>6, OneCallChanges, DequeueAlone
  <1>8. AbstractReq[t] \in Fifo!PopCalls
    BY <1>6 DEF Dequeue, Fifo!PopCalls
  <1> QED
    BY <1>4, <1>7, <1>8 DEF Fifo!Take, Fifo!Return, Fifo!Result, Result

\* Every other step of a consumer.
LEMMA DequeueImplements ==
  ASSUME OneConsumer, TypeOK, CallInv, FlowInv, NEW q \in Seq(Nodes), NEW f \in Seq(Nodes),
         Shape(q, f), NEW t \in Consumers, DequeueKeeps(t)
  PROVE  FifoStep \/ UNCHANGED Fifo!fifoVars
  <1>0. /\ t \in Threads /\ Consumers = {t} /\ t # Producer
        /\ loc \in [Threads -> Locals]
        /\ pc \in [Threads -> ProducerPcs \cup ConsumerPcs] /\ Shared(q, f)
        /\ ToSet(q) \subseteq Nodes /\ Own(t) \cap ToSet(q) = {}
        /\ req \in [Threads -> Fifo!Requests \cup {NULL}] /\ res \in [Threads -> Answers]
        /\ req[t] = IF pc[t] = "idle" THEN NULL ELSE Dequeue
    BY ConsumerStarts, ListFacts DEF TypeOK, CallInv, Shared
  <1>1. PICK g \in Seq(Nodes) : Shape(q, g)'
    BY DequeueShape
  <1>2. DequeueOutcome(t)
    BY DequeueOutcomes
  <1>3. \A n \in ToSet(q) \ {head} : elem'[n] = elem[n]
    <2>1. elem' = elem \/ Frees(t)
      BY <1>2 DEF DequeueOutcome, Says, Looks, CallDequeue, nodeVars
    <2> QED
      BY <1>0, <2>1 DEF Frees
  <1>4. /\ Queue' = Queue
        /\ AbstractReq' = [AbstractReq EXCEPT ![t] = AbstractReq'[t]]
        /\ AbstractRes' = [AbstractRes EXCEPT ![t] = AbstractRes'[t]]
        /\ AbstractReq'[t] = AbstractReq[t] => AbstractReq' = AbstractReq
        /\ AbstractRes'[t] = AbstractRes[t] => AbstractRes' = AbstractRes
    BY <1>0, <1>1, <1>3, QueueKept, OneCallChanges, DequeueAlone
  <1>5. ASSUME AbstractReq'[t] = AbstractReq[t], AbstractRes'[t] = AbstractRes[t]
        PROVE  UNCHANGED Fifo!fifoVars
    BY <1>4, <1>5 DEF Fifo!fifoVars
  <1>6. ASSUME NEW n \in Attempts, CallDequeue(t, n)
        PROVE  FifoStep
    <2>1. pc[t] = "idle" /\ pc'[t] = "head" /\ req'[t] = Dequeue /\ res' = res
      BY <1>0, <1>6 DEF CallDequeue, Step, Dequeue
    <2>2. /\ AbstractReq[t] = NULL /\ AbstractReq'[t] = Dequeue
          /\ AbstractRes'[t] = AbstractRes[t]
      BY <1>0, <2>1 DEF AbstractReq, AbstractRes, Effective, SeesEmpty, Taken
    <2>3. Dequeue \in Fifo!Requests
      BY DEF Dequeue, Fifo!Requests, Fifo!PopCalls
    <2>4. Fifo!Call(t, Dequeue)
      BY <1>4, <2>2 DEF Fifo!Call
    <2> QED
      BY <1>0, <2>3, <2>4 DEF FifoStep, Fifo!Next
  <1>7. CASE /\ Looks(t)
             /\ \/ SeesEmpty(t)' <=> SeesEmpty(t)
                \/ ~SeesEmpty(t) /\ SeesEmpty(t)' /\ next[head] = NULL
    <2>1. /\ AbstractReq[t] = IF SeesEmpty(t) THEN NULL ELSE Dequeue
          /\ AbstractReq'[t] = IF SeesEmpty(t)' THEN NULL ELSE Dequeue
          /\ AbstractRes[t] = IF SeesEmpty(t) THEN Result(FALSE, NoValue) ELSE res[t]
          /\ AbstractRes'[t] = IF SeesEmpty(t)' THEN Result(FALSE, NoValue) ELSE res[t]
      BY <1>0, <1>7 DEF Looks, Looking, Reading, AbstractReq, AbstractRes, Effective, Taken
    <2>2. CASE SeesEmpty(t)' <=> SeesEmpty(t)
      <3>1. CASE SeesEmpty(t)
        BY <1>5, <2>1, <2>2, <3>1
      <3>2. CASE ~SeesEmpty(t)
        BY <1>5, <2>1, <2>2, <3>2
      <3> QED
        BY <3>1, <3>2
    <2>3. CASE ~SeesEmpty(t) /\ SeesEmpty(t)' /\ next[head] = NULL
      <3>1. Queue = <<>>
        BY <1>0, <2>3, EmptyQueue
      <3>2. Fifo!RefuseTake(t)
        BY <1>4, <2>1, <2>3, <3>1
        DEF Fifo!RefuseTake, Fifo!Return, Fifo!Result, Result, Fifo!PopCalls, Dequeue
      <3> QED
        BY <1>0, <3>2 DEF FifoStep, Fifo!Next
    <2> QED
      BY <1>7, <2>2, <2>3
  <1>8. CASE Frees(t)
    <2>1. AbstractReq'[t] = NULL /\ AbstractReq[t] = NULL
      BY <1>0, <1>8 DEF Frees, AbstractReq, Effective
    <2> QED
      BY <1>5, <1>8, <2>1 DEF Frees
  <1>9. CASE /\ Says(t, Result(FALSE, NoValue)) /\ pc[t] \in Looking
             /\ SeesEmpty(t) \/ loc[t].left = 1
    <2>1. /\ pc'[t] = "idle" /\ req'[t] = NULL /\ res'[t] = Result(FALSE, NoValue)
      BY <1>0, <1>9 DEF Says, Return
    <2>2. AbstractReq'[t] = NULL /\ AbstractRes'[t] = Result(FALSE, NoValue)
      BY <1>0, <2>1 DEF AbstractReq, AbstractRes, Effective, SeesEmpty, Taken
    <2>3. CASE SeesEmpty(t)
      <3>1. AbstractReq[t] = NULL /\ AbstractRes[t] = Result(FALSE, NoValue)
        BY <1>0, <1>9, <2>3
        DEF AbstractReq, AbstractRes, Effective, Taken, SeesEmpty
      <3> QED
        BY <1>5, <2>2, <3>1
    <2>4. CASE ~SeesEmpty(t)
      <3>1. GivesUp(t)
        BY <1>4, <1>9, <2>2, <2>4 DEF GivesUp, Fifo!Return
      <3> QED
        BY <3>1 DEF FifoStep
    <2> QED
      BY <2>3, <2>4
  <1>10. CASE Says(t, Result(TRUE, loc[t].item)) /\ pc[t] = "give"
    <2>1. /\ pc'[t] = "idle" /\ req'[t] = NULL /\ res'[t] = Result(TRUE, loc[t].item)
      BY <1>0, <1>10 DEF Says, Return
    <2>2. AbstractReq'[t] = NULL /\ AbstractRes'[t] = Result(TRUE, loc[t].item)
      BY <1>0, <2>1 DEF AbstractReq, AbstractRes, Effective, SeesEmpty, Taken
    <2>3. AbstractReq[t] = NULL /\ AbstractRes[t] = Result(TRUE, loc[t].item)
      BY <1>0, <1>10 DEF AbstractReq, AbstractRes, Effective, SeesEmpty, Taken
    <2> QED
      BY <1>5, <2>2, <2>3
  <1> QED
    BY <1>2, <1>6, <1>7, <1>8, <1>9, <1>10 DEF DequeueOutcome

\* No call has taken effect at the start.
LEMMA InitImplements ==
  ASSUME Init
  PROVE  Fifo!Init /\ FlowInv
  <1>1. Queue = <<>>
    <2>1. PICK q \in Seq(Nodes), f \in Seq(Nodes) : Shared(q, f)
      BY InitShape DEF PoolInv, Shape
    <2>2. TypeOK
      BY InitShape DEF PoolInv
    <2>3. next[head] = NULL
      <3>1. InitSize \in Nodes /\ InitSize \notin 2 .. InitSize - 1
        BY SizeAssumption DEF Nodes
      <3> QED
        BY <3>1 DEF Init
    <2> QED
      BY <2>1, <2>2, <2>3, EmptyQueue
  <1>2. \A t \in Threads : ~Effective(t) /\ ~SeesEmpty(t) /\ ~Taken(t) /\ pc[t] = "idle"
    BY DEF Init, Effective, SeesEmpty, Taken
  <1>3. AbstractReq = [t \in Threads |-> NULL]
    BY <1>2 DEF AbstractReq, Init
  <1>4. AbstractRes = [t \in Threads |-> Result(FALSE, NoValue)]
    BY <1>2 DEF AbstractRes, Init
  <1>5. FlowInv
    BY DEF Init, FlowInv, Threads, NoLocals, Built, Linking, Comparing, Looking, Reading
  <1> QED
    BY <1>1, <1>3, <1>4, <1>5 DEF Fifo!Init, Fifo!Result, Result

\* Every step is a step of BoundedFifo, a dequeue that gives up, or none.
LEMMA StepImplements ==
  ASSUME OneConsumer, PoolInv, CallInv, FlowInv, FlowInv', [Next]_vars
  PROVE  [FifoStep]_(Fifo!fifoVars)
  <1>1. PICK q \in Seq(Nodes), f \in Seq(Nodes) : TypeOK /\ Shape(q, f)
    BY DEF PoolInv
  <1>2. CASE UNCHANGED vars
    <2> USE <1>2 DEF vars, sharedVars, endVars, nodeVars, callVars
    <2>1. Queue' = Queue
      BY DEF Queue, Nth
    <2>2. \A t \in Threads : /\ SeesEmpty(t)' = SeesEmpty(t) /\ Taken(t)' = Taken(t)
                             /\ Effective(t)' = Effective(t)
      BY DEF SeesEmpty, Taken, Effective
    <2>3. AbstractReq' = AbstractReq /\ AbstractRes' = AbstractRes
      BY <2>2 DEF AbstractReq, AbstractRes
    <2> QED
      BY <2>1, <2>3 DEF Fifo!fifoVars
  <1>3. CASE EnqueueKeeps(Producer)
    BY <1>1, <1>3, EnqueueImplements
  <1>4. CASE AppendNode(Producer)
    BY <1>1, <1>4, AppendImplements DEF FifoStep, Fifo!Next, Threads
  <1>5. ASSUME NEW t \in Consumers, DequeueKeeps(t)
        PROVE  [FifoStep]_(Fifo!fifoVars)
    BY <1>1, <1>5, DequeueImplements
  <1>6. ASSUME NEW t \in Consumers, TakeHead(t)
        PROVE  [FifoStep]_(Fifo!fifoVars)
    BY <1>1, <1>6, TakeImplements DEF FifoStep, Fifo!Next, Threads
  <1> QED
    BY <1>2, <1>3, <1>4, <1>5, <1>6, StepKinds

\* With one consumer and the producer, the queue implements BoundedFifo, but
\* for a dequeue that has spent its attempts: each value that enqueue links is
\* taken once and in the order of the links, try_dequeue says false only of an
\* empty queue or after its last attempt, and returns the value it has won.
THEOREM QueueImplementsFifo ==
  ASSUME OneConsumer
  PROVE  Spec => ImplementsFifo
  <1> DEFINE Inv == PoolInv /\ CallInv /\ FlowInv
  <1>1. Init => Inv /\ Fifo!Init
    BY InitShape, InitCalls, InitImplements
  <1>2. Inv /\ [Next]_vars => Inv'
    BY StepKeepsPool, FlowKept
  <1>3. Inv /\ Inv' /\ [Next]_vars => [FifoStep]_(Fifo!fifoVars)
    BY StepImplements
  <1> HIDE DEF Inv
  <1> QED
    BY <1>1, <1>2, <1>3, PTL DEF Spec, ImplementsFifo, FifoStep

\* In the queue are values, and what a dequeue has won is a value.
AnswerInv ==
  /\ Queue \in Seq(Values)
  /\ \A t \in Consumers : AbstractRes[t].ok => AbstractRes[t].v \in Values

\* The specification keeps that.
LEMMA AnswersKept ==
  ASSUME CallInv, AnswerInv, [FifoStep]_(Fifo!fifoVars)
  PROVE  AnswerInv'
  <1> USE DEF Fifo!Result, Result
  <1>0. /\ Consumers \subseteq Threads
        /\ \A t \in Consumers : AbstractReq[t] \notin Fifo!PushCalls
    <2>1. \A t \in Consumers : AbstractReq[t] \in {NULL, Dequeue}
      BY DEF AbstractReq, CallInv, Threads
    <2>2. Dequeue \notin Fifo!PushCalls
      BY DEF Dequeue, Fifo!PushCalls
    <2>3. NULL \notin Fifo!PushCalls
      BY RequestAssumption DEF Fifo!Requests
    <2> QED
      BY <2>1, <2>2, <2>3 DEF Threads
  <1>1. AbstractRes = [t \in Threads |-> AbstractRes[t]]
    BY DEF AbstractRes
  <1>2. CASE UNCHANGED Fifo!fifoVars
    BY <1>2 DEF AnswerInv, Fifo!fifoVars
  <1>3. ASSUME NEW t \in Threads, NEW r, Fifo!Return(t, r), Queue' \in Seq(Values),
               t \in Consumers /\ r.ok => r.v \in Values
        PROVE  AnswerInv'
    BY <1>0, <1>1, <1>3 DEF AnswerInv, Fifo!Return
  <1>4. ASSUME NEW t \in Threads, NEW r, Fifo!Call(t, r)
        PROVE  AnswerInv'
    BY <1>4 DEF AnswerInv, Fifo!Call
  <1>5. ASSUME NEW t \in Threads, Fifo!Put(t)
        PROVE  AnswerInv'
    <2>1. AbstractReq[t] \in Fifo!PushCalls /\ Queue' = Append(Queue, AbstractReq[t].v)
      BY <1>5 DEF Fifo!Put
    <2>2. AbstractReq[t].v \in Values
      BY <2>1 DEF Fifo!PushCalls
    <2>3. Queue' \in Seq(Values)
      BY <2>1, <2>2 DEF AnswerInv
    <2> QED
      BY <1>0, <1>3, <1>5, <2>1, <2>3 DEF Fifo!Put
  <1>6. ASSUME NEW t \in Threads, Fifo!Take(t)
        PROVE  AnswerInv'
    <2>1. Queue # <<>> /\ Queue' = Tail(Queue) /\ Queue \in Seq(Values)
      BY <1>6 DEF Fifo!Take, AnswerInv
    <2>2. Queue' \in Seq(Values) /\ Head(Queue) \in Values
      BY <2>1, HeadTailProperties
    <2> QED
      BY <1>3, <1>6, <2>2 DEF Fifo!Take
  <1>7. ASSUME NEW t \in Threads, Fifo!RefusePut(t) \/ Fifo!RefuseTake(t)
        PROVE  AnswerInv'
    <2>1. Fifo!Return(t, Result(FALSE, NoValue)) /\ Queue' \in Seq(Values)
      BY <1>7 DEF Fifo!RefusePut, Fifo!RefuseTake, AnswerInv
    <2> QED
      BY <1>3, <2>1
  <1>8. ASSUME NEW t \in Consumers, GivesUp(t)
        PROVE  AnswerInv'
    <2>1. Fifo!Return(t, Result(FALSE, NoValue)) /\ Queue' \in Seq(Values)
      BY <1>8 DEF GivesUp, AnswerInv
    <2> QED
      BY <1>0, <1>3, <2>1
  <1> QED
    BY <1>2, <1>4, <1>5, <1>6, <1>7, <1>8 DEF FifoStep, Fifo!Next

\* With one consumer the value it has won is still in its node when it is moved
\* out: a second consumer is what can free the node in between.
THEOREM WonValueIntact ==
  ASSUME OneConsumer
  PROVE  Spec => []TakenIntact
  <1> DEFINE Inv == PoolInv /\ CallInv /\ FlowInv
  <1>1. Init => Inv /\ AnswerInv
    <2>1. Fifo!Init => AnswerInv
      BY DEF Fifo!Init, Fifo!Result, AnswerInv, Threads
    <2> QED
      BY <2>1, InitShape, InitCalls, InitImplements
  <1>2. Inv /\ [Next]_vars => Inv'
    BY StepKeepsPool, FlowKept
  <1>3. Inv /\ Inv' /\ AnswerInv /\ [Next]_vars => AnswerInv'
    BY StepImplements, AnswersKept
  <1>4. AnswerInv => TakenIntact
    <2> SUFFICES ASSUME AnswerInv, NEW t \in Consumers, pc[t] = "move"
                 PROVE  elem[loc[t].nxt] \in Values
      BY DEF TakenIntact
    <2>1. AbstractRes[t] = Result(TRUE, elem[loc[t].nxt])
      BY DEF AbstractRes, Threads
    <2> QED
      BY <2>1 DEF AnswerInv, Result
  <1> HIDE DEF Inv
  <1> QED
    BY <1>1, <1>2, <1>3, <1>4, PTL DEF Spec

=============================================================================
