---------------------------- MODULE LockFreeQueue ----------------------------
(***************************************************************************)
(* QueueCAS<ElemType> of inc/os/LockFreeQueue.hpp: a linked queue with a    *)
(* dummy node, compare-and-swap on head, tail and the links, and a memory   *)
(* pool whose free nodes form a second list, linked by the same fields.     *)
(*                                                                          *)
(* Every access of head, tail, free_list or a field of a node that another  *)
(* thread may reach is a step of its own.  compare_exchange_weak may fail   *)
(* although the values are equal.  The class sets no limit on the threads   *)
(* per side.  One thread enqueues here: it alone pops the free list and     *)
(* locks the pool's mutex.  (With two, pop_free could exchange a free_list  *)
(* that has changed twice since it was read.)  Consumers is a set.          *)
(***************************************************************************)
EXTENDS Integers, Sequences, SequencesExt

CONSTANTS
  Producer, Consumers,
  Values, NoValue, NULL,
  Moved,          \* what std::move leaves of a value
  InitSize,       \* nodes the pool starts with (1024)
  MaxNodes,       \* a bound on the nodes the pool grows to
  Attempts,       \* values of max_attempts (1, 2 and 16 in the code)
  MaxItems        \* a bound: no enqueue starts while so many values are queued

ASSUME ThreadAssumption == Producer \notin Consumers
ASSUME SizeAssumption == MaxNodes \in Nat /\ InitSize \in 1 .. MaxNodes
ASSUME NullAssumption == NULL \notin Nat
ASSUME AttemptAssumption == Attempts \subseteq Nat \ {0}

VARIABLES
  head, tail, free_list,
  elem,             \* per node: its value; NoValue unless elem_initialized
  next, version,    \* per node
  size,             \* pool.size(): the nodes 1 .. size exist
  mtx,              \* the pool's mutex is locked
  pc, loc,          \* per thread: next step and local variables
  req, res,         \* per thread: the call it is in, and what the last one returned
  last              \* the value enqueued last; the next one differs (a bound)

nodeVars == <<elem, next, version>>
endVars == <<head, tail>>
poolVars == <<free_list, size, mtx>>
callVars == <<req, res, last>>
sharedVars == <<endVars, nodeVars, poolVars>>
vars == <<sharedVars, pc, loc, callVars>>

Threads == {Producer} \cup Consumers
Nodes == 1 .. MaxNodes

\* Locals: the pointer a pop, an enqueue or a dequeue works on, what was read
\* from it, the node enqueue has allocated, the nodes still to be given to
\* push_free, the value moved out and the attempts left.
NoLocals == [old |-> NULL, ver |-> 0, oldTail |-> NULL, nxt |-> NULL,
             node |-> NULL, give |-> <<>>, item |-> NoValue, left |-> 0]

\* The n-th node of the list that starts at node a; NULL behind its end.
Nth(a) ==
  LET walk[n \in 0 .. MaxNodes] ==
        IF n = 0 THEN a
        ELSE IF walk[n - 1] = NULL THEN NULL ELSE next[walk[n - 1]]
  IN walk

List(a) == Range(Nth(a)) \ {NULL}

\* The values in the queue: those of the nodes behind the dummy node.
Queue ==
  LET walk == Nth(head)
      len == CHOOSE n \in 0 .. MaxNodes :
               /\ \A i \in 0 .. n : walk[i] # NULL
               /\ n = MaxNodes \/ walk[n + 1] = NULL
  IN [i \in 1 .. len |-> elem[walk[i]]]

-----------------------------------------------------------------------------
(* The refinement mapping: where a call takes effect.                        *)

\* dequeue has read head == tail and next == nullptr: it will return false.
SeesEmpty(t) ==
  pc[t] \in {"checkHead", "checkVersion"} /\ loc[t].nxt = NULL /\ loc[t].oldTail = loc[t].old

Taken(t) == pc[t] \in {"move", "retire", "wipe", "link", "give"} /\ t \in Consumers

\* A call is over, for its specification, once it has taken effect.
Effective(t) == SeesEmpty(t) \/ Taken(t) \/ pc[t] = "swing"

Result(b, v) == [ok |-> b, v |-> v]

AbstractReq == [t \in Threads |-> IF Effective(t) THEN NULL ELSE req[t]]
AbstractRes ==
  [t \in Threads |->
     IF pc[t] = "swing" THEN Result(TRUE, NoValue)
     ELSE IF pc[t] = "move" /\ t \in Consumers THEN Result(TRUE, elem[loc[t].nxt])
     ELSE IF Taken(t) THEN Result(TRUE, loc[t].item)
     ELSE IF SeesEmpty(t) THEN Result(FALSE, NoValue)
     ELSE res[t]]

Fifo == INSTANCE BoundedFifo WITH
          q <- Queue, req <- AbstractReq, res <- AbstractRes, Capacity <- MaxNodes

ASSUME RequestAssumption == NULL \notin Fifo!Requests

\* QueueCAS(): the pool's nodes are pushed one by one, the last one is popped
\* again to be the dummy node.
Init ==
  /\ head = InitSize /\ tail = InitSize
  /\ free_list = IF InitSize = 1 THEN NULL ELSE InitSize - 1
  /\ elem = [n \in Nodes |-> NoValue]
  /\ next = [n \in Nodes |-> IF n \in 2 .. InitSize - 1 THEN n - 1 ELSE NULL]
  /\ version = [n \in Nodes |-> 0]
  /\ size = InitSize
  /\ mtx = FALSE
  /\ pc = [t \in Threads |-> "idle"]
  /\ loc = [t \in Threads |-> NoLocals]
  /\ req = [t \in Threads |-> NULL]
  /\ res = [t \in Threads |-> Result(FALSE, NoValue)]
  /\ last = NoValue

Step(t, from, to) == pc[t] = from /\ pc' = [pc EXCEPT ![t] = to]
Goto(t, to) == pc' = [pc EXCEPT ![t] = to] /\ UNCHANGED loc

\* A read of a shared variable into the locals, which become l.
Load(t, from, to, l) ==
  Step(t, from, to) /\ loc' = [loc EXCEPT ![t] = l] /\ UNCHANGED <<sharedVars, callVars>>

Return(t, r) ==
  /\ pc' = [pc EXCEPT ![t] = "idle"]
  /\ loc' = [loc EXCEPT ![t] = NoLocals]
  /\ req' = [req EXCEPT ![t] = NULL]
  /\ res' = [res EXCEPT ![t] = r]
  /\ UNCHANGED last

-----------------------------------------------------------------------------
(* MemoryPool: pop_free, push_free, expand *)

\* old_head = free_list.load(): at the start, and after a failed exchange.
LoadFree(t) ==
  Load(t, "pop", IF free_list = NULL THEN "dry" ELSE "popNext",
       [loc[t] EXCEPT !.old = free_list])

\* new_head = old_head->next.load()
LoadFreeNext(t) ==
  Load(t, "popNext", "popSwap", [loc[t] EXCEPT !.nxt = next[loc[t].old]])

\* free_list.compare_exchange_weak(old_head, new_head): the node is ours; an
\* allocate() that holds the mutex lets it go.
PopFree(t) ==
  /\ Step(t, "popSwap", "construct")
  /\ free_list = loc[t].old
  /\ free_list' = loc[t].nxt
  /\ loc' = [loc EXCEPT ![t].node = loc[t].old, ![t].old = NULL, ![t].nxt = NULL]
  /\ mtx' = FALSE
  /\ UNCHANGED <<endVars, nodeVars, size, callVars>>

PopFreeFails(t) ==
  /\ Step(t, "popSwap", IF free_list = NULL THEN "dry" ELSE "popNext")
  /\ loc' = [loc EXCEPT ![t].old = free_list, ![t].nxt = NULL]
  /\ UNCHANGED <<sharedVars, callVars>>

\* allocate() found nothing: lock and look again, then expand(size * 2).
LockPool(t) ==
  /\ Step(t, "dry", "pop") /\ ~mtx
  /\ mtx' = TRUE
  /\ UNCHANGED <<endVars, nodeVars, free_list, size, loc, callVars>>

Expand(t) ==
  /\ Step(t, "dry", "link") /\ mtx
  /\ size * 2 <= MaxNodes
  /\ size' = size * 2
  /\ loc' = [loc EXCEPT ![t].give = [i \in 1 .. size |-> size + i],
                        ![t].old = free_list]
  /\ UNCHANGED <<endVars, nodeVars, free_list, mtx, callVars>>

\* push_free: node->next.store(old_head)
LinkFree(t) ==
  /\ Step(t, "link", "give")
  /\ next' = [next EXCEPT ![Head(loc[t].give)] = loc[t].old]
  /\ UNCHANGED <<endVars, elem, version, poolVars, loc, callVars>>

\* The exchange fails and has read the new head of the free list.
PushFreeFails(t) ==
  Load(t, "give", "link", [loc[t] EXCEPT !.old = free_list])

\* It succeeds; expand() goes on with the next node or pops one of them.
PushFree(t) ==
  /\ pc[t] = "give" /\ t = Producer
  /\ free_list = loc[t].old
  /\ free_list' = Head(loc[t].give)
  /\ loc' = [loc EXCEPT ![t].give = Tail(@), ![t].old = Head(loc[t].give)]
  /\ pc' = [pc EXCEPT ![t] = IF Len(loc[t].give) = 1 THEN "pop" ELSE "link"]
  /\ UNCHANGED <<endVars, nodeVars, size, mtx, callVars>>

\* It succeeds, deallocate() is done, and try_dequeue returns true.
PushFreeLast(t) ==
  /\ pc[t] = "give" /\ t \in Consumers
  /\ free_list = loc[t].old
  /\ free_list' = Head(loc[t].give)
  /\ Return(t, Result(TRUE, loc[t].item))
  /\ UNCHANGED <<endVars, nodeVars, size, mtx>>

-----------------------------------------------------------------------------
(* enqueue *)

CallEnqueue(t, v) ==
  /\ Step(t, "idle", "pop")
  /\ Len(Queue) < MaxItems /\ v # last
  /\ last' = v
  /\ req' = [req EXCEPT ![t] = [op |-> "push", v |-> v, block |-> FALSE]]
  /\ UNCHANGED <<endVars, nodeVars, poolVars, loc, res>>

\* allocate(): new (node) Node(elem)
Construct(t) ==
  /\ Step(t, "construct", "tail")
  /\ elem' = [elem EXCEPT ![loc[t].node] = req[t].v]
  /\ next' = [next EXCEPT ![loc[t].node] = NULL]
  /\ version' = [version EXCEPT ![loc[t].node] = 0]
  /\ UNCHANGED <<endVars, poolVars, loc, callVars>>

\* old_tail = tail.load(); its version; its next
LoadTail(t) ==
  t = Producer /\ Load(t, "tail", "version", [loc[t] EXCEPT !.old = tail])

LoadVersion(t) ==
  Load(t, "version", IF t = Producer THEN "next" ELSE "oldTail",
       [loc[t] EXCEPT !.ver = version[loc[t].old]])

LoadNext(t) ==
  Load(t, "next", IF t = Producer THEN "checkTail" ELSE "checkHead",
       [loc[t] EXCEPT !.nxt = next[loc[t].old]])

\* Something has moved: start the loop over.
Restart(t) ==
  /\ pc' = [pc EXCEPT ![t] = "tail"]
  /\ loc' = [loc EXCEPT ![t].old = NULL, ![t].ver = 0, ![t].nxt = NULL]

\* The comparisons of tail and version with what was read.
CheckTail(t) ==
  /\ pc[t] = "checkTail"
  /\ IF tail = loc[t].old THEN Goto(t, "checkVersion") ELSE Restart(t)
  /\ UNCHANGED <<sharedVars, callVars>>

\* Faulty variant: tail is left behind.
CheckTailVersionWaits(t) ==
  /\ t = Producer
  /\ pc[t] = "checkVersion"
  /\ IF version[loc[t].old] = loc[t].ver /\ loc[t].nxt = NULL
     THEN Goto(t, "append")
     ELSE Restart(t)
  /\ UNCHANGED <<sharedVars, callVars>>

CheckTailVersion(t) ==
  /\ t = Producer
  /\ pc[t] = "checkVersion"
  /\ IF version[loc[t].old] = loc[t].ver
     THEN Goto(t, IF loc[t].nxt = NULL THEN "append" ELSE "helpTail")
     ELSE Restart(t)
  /\ UNCHANGED <<sharedVars, callVars>>

\* old_tail->next.compare_exchange_weak(nullptr, new_node)
AppendNode(t) ==
  /\ Step(t, "append", "swing")
  /\ next[loc[t].old] = NULL
  /\ next' = [next EXCEPT ![loc[t].old] = loc[t].node]
  /\ UNCHANGED <<endVars, elem, version, poolVars, loc, callVars>>

AppendFails(t) ==
  /\ pc[t] = "append"
  /\ Restart(t)
  /\ UNCHANGED <<sharedVars, callVars>>

\* tail is behind: help it on, or fail to.
HelpTail(t) ==
  /\ t = Producer
  /\ pc[t] = "helpTail"
  /\ tail = loc[t].old /\ tail' = loc[t].nxt
  /\ Restart(t)
  /\ UNCHANGED <<head, nodeVars, poolVars, callVars>>

HelpTailFails(t) ==
  /\ t = Producer
  /\ pc[t] = "helpTail"
  /\ Restart(t)
  /\ UNCHANGED <<sharedVars, callVars>>

\* The last exchange of enqueue; tail stays behind if it fails.
Swing(t) ==
  /\ pc[t] = "swing"
  /\ \/ tail = loc[t].old /\ tail' = loc[t].node
     \/ UNCHANGED tail
  /\ Return(t, Result(TRUE, NoValue))
  /\ UNCHANGED <<head, nodeVars, poolVars>>

-----------------------------------------------------------------------------
(* try_dequeue *)

CallDequeue(t, n) ==
  /\ Step(t, "idle", "head")
  /\ loc' = [loc EXCEPT ![t].left = n]
  /\ req' = [req EXCEPT ![t] = [op |-> "pop", v |-> NoValue, block |-> FALSE]]
  /\ UNCHANGED <<endVars, nodeVars, poolVars, res, last>>

LoadHead(t) ==
  Load(t, "head", "version", [loc[t] EXCEPT !.old = head])

LoadOldTail(t) ==
  Load(t, "oldTail", "next", [loc[t] EXCEPT !.oldTail = tail])

\* "continue": the next attempt, or false after the last one.
GiveUp(t) == loc[t].left = 1 /\ Return(t, Result(FALSE, NoValue))
Continue(t) ==
  \/ GiveUp(t)
  \/ /\ loc[t].left > 1
     /\ pc' = [pc EXCEPT ![t] = "head"]
     /\ loc' = [loc EXCEPT ![t] = [NoLocals EXCEPT !.left = loc[t].left - 1]]
     /\ UNCHANGED callVars

GoOn(t, to) == Goto(t, to) /\ UNCHANGED callVars

CheckHead(t) ==
  /\ pc[t] = "checkHead"
  /\ IF head = loc[t].old THEN GoOn(t, "checkVersion") ELSE Continue(t)
  /\ UNCHANGED sharedVars

\* Faulty variant: head may overtake tail.
CheckHeadVersionOnly(t) ==
  /\ t \in Consumers
  /\ pc[t] = "checkVersion"
  /\ IF version[loc[t].old] # loc[t].ver THEN Continue(t)
     ELSE IF loc[t].nxt = NULL THEN Return(t, Result(FALSE, NoValue))
     ELSE GoOn(t, "checkElem")
  /\ UNCHANGED sharedVars

\* The version check and the decisions on the local variables after it.
CheckHeadVersion(t) ==
  /\ t \in Consumers
  /\ pc[t] = "checkVersion"
  /\ IF version[loc[t].old] # loc[t].ver THEN Continue(t)
     ELSE IF loc[t].old = loc[t].oldTail
          THEN IF loc[t].nxt = NULL THEN Return(t, Result(FALSE, NoValue))
               ELSE GoOn(t, "helpTail")
          ELSE IF loc[t].nxt = NULL THEN Continue(t) ELSE GoOn(t, "checkElem")
  /\ UNCHANGED sharedVars

HelpTailOn(t) ==
  /\ t \in Consumers
  /\ pc[t] = "helpTail"
  /\ \/ tail = loc[t].oldTail /\ tail' = loc[t].nxt
     \/ UNCHANGED tail
  /\ Continue(t)
  /\ UNCHANGED <<head, nodeVars, poolVars>>

\* if (!next->elem_initialized) continue
CheckElem(t) ==
  /\ pc[t] = "checkElem"
  /\ IF elem[loc[t].nxt] = NoValue THEN Continue(t) ELSE GoOn(t, "take")
  /\ UNCHANGED sharedVars

\* head.compare_exchange_weak(old_head, next)
TakeHead(t) ==
  /\ Step(t, "take", "move")
  /\ head = loc[t].old
  /\ head' = loc[t].nxt
  /\ UNCHANGED <<tail, nodeVars, poolVars, loc, callVars>>

TakeFails(t) ==
  /\ pc[t] = "take"
  /\ Continue(t)
  /\ UNCHANGED sharedVars

\* Faulty variant: the value of the dummy node is taken.
MoveOutDummy(t) ==
  /\ Step(t, "move", "retire")
  /\ loc' = [loc EXCEPT ![t].item = elem[loc[t].old], ![t].nxt = NULL,
                        ![t].oldTail = NULL]
  /\ UNCHANGED <<sharedVars, callVars>>

\* result = std::move(next->elem); elem_initialized stays true
MoveOut(t) ==
  /\ Step(t, "move", "retire")
  /\ loc' = [loc EXCEPT ![t].item = elem[loc[t].nxt], ![t].nxt = NULL,
                        ![t].oldTail = NULL]
  /\ elem' = [elem EXCEPT ![loc[t].nxt] = Moved]
  /\ UNCHANGED <<endVars, next, version, poolVars, callVars>>

\* deallocate(old_head): the version, the new empty Node, then push_free
Retire(t) ==
  /\ Step(t, "retire", "wipe")
  /\ version' = [version EXCEPT ![loc[t].old] = @ + 1]
  /\ UNCHANGED <<endVars, elem, next, poolVars, loc, callVars>>

Wipe(t) ==
  /\ Step(t, "wipe", "link")
  /\ elem' = [elem EXCEPT ![loc[t].old] = NoValue]
  /\ next' = [next EXCEPT ![loc[t].old] = NULL]
  /\ version' = [version EXCEPT ![loc[t].old] = 0]
  /\ loc' = [loc EXCEPT ![t].give = <<loc[t].old>>, ![t].old = free_list]
  /\ UNCHANGED <<endVars, poolVars, callVars>>

-----------------------------------------------------------------------------
AllocateStep(t) ==
  \/ LoadFree(t) \/ LoadFreeNext(t) \/ PopFree(t) \/ PopFreeFails(t)
  \/ LockPool(t) \/ Expand(t) \/ LinkFree(t) \/ PushFree(t) \/ PushFreeFails(t)
  \/ Construct(t)

EnqueueStep(t) ==
  \/ AllocateStep(t)
  \/ LoadTail(t) \/ LoadVersion(t) \/ LoadNext(t) \/ CheckTail(t)
  \/ CheckTailVersion(t) \/ AppendNode(t) \/ AppendFails(t) \/ HelpTail(t)
  \/ HelpTailFails(t) \/ Swing(t)

DequeueStep(t) ==
  \/ LoadHead(t) \/ LoadVersion(t) \/ LoadOldTail(t) \/ LoadNext(t) \/ CheckHead(t)
  \/ CheckHeadVersion(t) \/ HelpTailOn(t) \/ CheckElem(t) \/ TakeHead(t)
  \/ TakeFails(t) \/ MoveOut(t) \/ Retire(t) \/ Wipe(t)
  \/ LinkFree(t) \/ PushFreeLast(t) \/ PushFreeFails(t)

Next ==
  \/ \E v \in Values : CallEnqueue(Producer, v)
  \/ EnqueueStep(Producer)
  \/ \E t \in Consumers : (\E n \in Attempts : CallDequeue(t, n)) \/ DequeueStep(t)

Spec == Init /\ [][Next]_vars

\* The producer runs, and compare_exchange_weak does not fail for ever.  The
\* consumers may stop anywhere.
Fairness ==
  /\ WF_vars(EnqueueStep(Producer))
  /\ SF_vars(PopFree(Producer)) /\ SF_vars(PushFree(Producer))
  /\ SF_vars(AppendNode(Producer)) /\ SF_vars(HelpTail(Producer))

FairSpec == Spec /\ Fairness

-----------------------------------------------------------------------------
(* Properties *)

\* The nodes a thread has for itself: the one enqueue has not linked yet, the
\* ones it is about to give to the free list.
Own(t) ==
  ToSet(loc[t].give)
  \cup (IF pc[t] = "swing" THEN {} ELSE {loc[t].node} \ {NULL})
  \cup (IF pc[t] \in {"move", "retire", "wipe"} THEN {loc[t].old} ELSE {})

\* No node is lost and none is in two places: queue, free list and the nodes
\* of the threads share out the pool, although both lists are linked by the
\* same field and a thread may still hold a pointer to a node that is freed.
NodesApart ==
  /\ List(head) \cap List(free_list) = {}
  /\ \A t \in Threads : Own(t) \cap (List(head) \cup List(free_list)) = {}
  /\ \A t, u \in Threads : t # u => Own(t) \cap Own(u) = {}
  /\ 1 .. size = List(head) \cup List(free_list) \cup UNION {Own(t) : t \in Threads}

\* The value a consumer has won is still in its node when it is moved out.
TakenIntact ==
  \A t \in Consumers : pc[t] = "move" => elem[loc[t].nxt] \in Values

\* A dequeue that has spent its attempts may say "empty" of any queue.
GivesUp(t) ==
  /\ loc[t].left = 1
  /\ Fifo!Return(t, Result(FALSE, NoValue))
  /\ UNCHANGED Queue

\* With one thread per side this is a first-in first-out queue: enqueue takes
\* effect with its exchange of the link, dequeue with its exchange of head, and
\* dequeue says false only of an empty queue or after its last attempt.
ImplementsFifo ==
  Fifo!Init /\ [][Fifo!Next \/ \E t \in Consumers : GivesUp(t)]_(Fifo!fifoVars)

\* What lock-free promises: enqueue returns wherever the consumer has stopped,
\* with tail behind, a node half freed or the free list half linked.
EnqueueReturns == req[Producer] # NULL ~> req[Producer] = NULL

=============================================================================
