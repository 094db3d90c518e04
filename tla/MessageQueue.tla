---------------------------- MODULE MessageQueue ----------------------------
(***************************************************************************)
(* MsgQueue (src/looper/MessageQueue.cpp), the delayed-message queue behind *)
(* a looper, together with the message objects it owns (Message.cpp) and    *)
(* the handler calls that feed it (MessageHandler.cpp).                     *)
(*                                                                          *)
(* Threads.  Any number of client threads (Senders) obtain, send and remove *)
(* messages and call quit(); ONE looper thread calls next() and recycles    *)
(* what it got.  A section of code that holds mLock from its first to its   *)
(* last access of the queue is one action; next() is split wherever it      *)
(* gives mLock up, and removeAllMessages(), which takes the pool's mutex    *)
(* several times, is split into one action per list node (sweep).           *)
(*                                                                          *)
(* The constant Windows selects the branch of the #if's in next() and in    *)
(* Condition.hpp: the POSIX branch sleeps while holding mLock, the Windows  *)
(* branch gives it up first and lets Condition::wait take it again.         *)
(***************************************************************************)
EXTENDS Integers, SequencesExt

CONSTANTS
  Msgs,             \* Msg objects (addresses the allocator can hand out)
  Handlers,         \* MsgHandler objects
  FrontHandlers,    \* handlers whose clients also insert at the front
  Senders,          \* client threads
  NULL,             \* nullptr
  Whats, Args,      \* values of mWhat and of mArg1, mArg2 (0 among them)
  Runnables,        \* function pointers for mCallback
  HandlerCallbacks, \* HandlerCallback objects
  Params,           \* parameter blocks a client attaches to a message
  Contents,         \* the contents clients give to messages
  MaxMsgPoolSize,   \* constructor argument MaxMsgPoolSize
  Delays,           \* delayMillis arguments
  Uptimes,          \* uptimeMillis arguments of postAtTime
  OutTimes,         \* arguments of setTestOutTimeMillisExit
  MaxTime,          \* bound: no message is sent after this time
  Windows           \* which branch of the #if's was compiled

\* mWhat, mArg1, mArg2, mCallback and mHandleCallback of a message.
Content ==
  [mWhat : Whats, mArg1 : Args, mArg2 : Args,
   mCallback : Runnables \cup {NULL},
   mHandleCallback : HandlerCallbacks \cup {NULL}]

\* What the constructor and recycleUnchecked() leave in those fields.
NoContent ==
  [mWhat |-> 0, mArg1 |-> 0, mArg2 |-> 0,
   mCallback |-> NULL, mHandleCallback |-> NULL]

ASSUME NullAssumption ==
  NULL \notin Msgs \cup Handlers \cup Runnables \cup HandlerCallbacks \cup Params
ASSUME NullRecordAssumption ==
  /\ NULL \notin [m : Msgs, t : Int]
  /\ NULL \notin [h : Handlers \cup {NULL}, k : Nat]
ASSUME HandlerAssumption == FrontHandlers \subseteq Handlers
ASSUME ContentAssumption ==
  0 \in Whats /\ 0 \in Args /\ Whats \subseteq Int /\ Contents \subseteq Content
ASSUME PoolAssumption == MaxMsgPoolSize \in Nat
ASSUME TimeAssumption ==
  /\ Delays \subseteq Int
  /\ Uptimes \subseteq Nat
  /\ OutTimes \subseteq Nat
  /\ MaxTime \in Nat
ASSUME WindowsAssumption == Windows \in BOOLEAN

VARIABLES
  msg,            \* the fields of every Msg object
  live,           \* objects that are allocated and not yet deleted
  held,           \* objects a client owns through a Message (unique_ptr)
  call,           \* per client thread: its enqueueMessage call before mLock
  mMsgQueue,      \* the list mMsgQueueHead, mNext, mNext ...
  mMsgQueueTail,
  mMsgQueueSize,
  mMsgPool,       \* the list mMsgPool, mNext, mNext ...
  mMsgPoolSize,
  mMsgPoolIsFull,
  mBlocked, mQuit, mNotEnqueMsg,
  mOutTimeTest,
  now,            \* getNowTimeOfNs() / PER_SEC_USEC
  npc,            \* where the looper thread is in next()
  timeout,        \* nextPollMsgTimeoutMillis
  deadline,       \* when the timed wait of next() ends by itself
  notified,       \* mWait was notified since next() went to sleep
  ret,            \* the message next() returned and the looper dispatches
  sweep,          \* removeAllMessages() in progress: it holds mLock
  status          \* "faulted": invalid memory was used; "destroyed": ~MsgQueue

msgVars  == <<msg, live>>
listVars == <<mMsgQueue, mMsgQueueTail, mMsgQueueSize>>
poolVars == <<mMsgPool, mMsgPoolSize, mMsgPoolIsFull>>
flagVars == <<mBlocked, mQuit, mNotEnqueMsg>>
nextVars == <<npc, timeout, deadline, notified, ret>>
vars == <<msgVars, held, call, listVars, poolVars, flagVars, mOutTimeTest,
          now, nextVars, sweep, status>>

-----------------------------------------------------------------------------
(* Msg objects *)

\* Msg::Msg()
NewMsg ==
  [content |-> NoContent, mParam |-> NULL, mParamFreeFunc |-> FALSE,
   mTarget |-> NULL, mWhen |-> 0, inUse |-> FALSE]

\* Msg::recycleUnchecked(): mParam is only reset when there is a deleter.
recycleUnchecked(m) ==
  [NewMsg EXCEPT !.mParam =
     IF msg[m].mParamFreeFunc THEN NULL ELSE msg[m].mParam]

\* ~Msg of the messages of S; a deleted object reads as a fresh one here.
Delete(S) ==
  /\ msg' = [m \in Msgs |-> IF m \in S THEN NewMsg ELSE msg[m]]
  /\ live' = live \ S

\* Faulty variant: the bound of the pool is not looked at.
recycleUnbounded(m) ==
  /\ msg' = [msg EXCEPT ![m] = recycleUnchecked(m)]
  /\ mMsgPool' = <<m>> \o mMsgPool
  /\ mMsgPoolSize' = mMsgPoolSize + 1
  /\ mMsgPoolIsFull' = (mMsgPoolIsFull \/ mMsgPoolSize + 1 = MaxMsgPoolSize)
  /\ UNCHANGED live

\* MsgQueue::recycleMsg
recycleMsg(m) ==
  \/ /\ mQuit \/ mMsgPoolSize = MaxMsgPoolSize
     /\ Delete({m})
     /\ UNCHANGED poolVars
  \/ /\ ~mQuit /\ mMsgPoolSize # MaxMsgPoolSize
     /\ msg' = [msg EXCEPT ![m] = recycleUnchecked(m)]
     /\ mMsgPool' = <<m>> \o mMsgPool
     /\ mMsgPoolSize' = mMsgPoolSize + 1
     /\ mMsgPoolIsFull' =
          (mMsgPoolIsFull \/ mMsgPoolSize + 1 = MaxMsgPoolSize)
     /\ UNCHANGED live

-----------------------------------------------------------------------------
Init ==
  /\ msg = [m \in Msgs |-> NewMsg]
  /\ live = {}
  /\ held = {}
  /\ call = [s \in Senders |-> NULL]
  /\ mMsgQueue = <<>> /\ mMsgQueueTail = NULL /\ mMsgQueueSize = 0
  /\ mMsgPool = <<>> /\ mMsgPoolSize = 0 /\ mMsgPoolIsFull = FALSE
  /\ mBlocked = TRUE /\ mQuit = FALSE /\ mNotEnqueMsg = FALSE
  /\ mOutTimeTest = 0
  /\ now = 1
  /\ npc = "idle" /\ timeout = -1 /\ deadline = 0
  /\ notified = FALSE /\ ret = NULL
  /\ sweep = NULL
  /\ status = "running"

-----------------------------------------------------------------------------
(* Clients: getting a message *)

\* The client's part of Msg::obtain(...) and setParam(...): fill in object m.
Fill(m, c, p, free) ==
  msg' = [msg EXCEPT ![m].content = c,
                     ![m].mParam = IF p = NULL THEN @ ELSE p,
                     ![m].mParamFreeFunc = (p # NULL /\ free)]

\* MsgQueue::obtain() when the pool may be used.
ObtainPooled(c, p, free) ==
  /\ mMsgPoolSize > 0 /\ mMsgPoolSize <= MaxMsgPoolSize
  /\ mMsgPool # <<>> /\ mMsgPoolIsFull
  /\ Fill(Head(mMsgPool), c, p, free)
  /\ held' = held \cup {Head(mMsgPool)}
  /\ mMsgPool' = Tail(mMsgPool)
  /\ mMsgPoolSize' = mMsgPoolSize - 1
  /\ mMsgPoolIsFull' = (mMsgPoolSize - 1 # 0)
  /\ UNCHANGED <<live, call, listVars, flagVars, mOutTimeTest, now, nextVars,
                 sweep, status>>

\* Msg::obtain() when MsgQueue::obtain() gave nothing: new Msg().
ObtainNew(c, p, free) ==
  /\ ~(/\ mMsgPoolSize > 0 /\ mMsgPoolSize <= MaxMsgPoolSize
       /\ mMsgPool # <<>> /\ mMsgPoolIsFull)
  /\ \E m \in Msgs \ live :
       /\ Fill(m, c, p, free)
       /\ live' = live \cup {m}
       /\ held' = held \cup {m}
  /\ UNCHANGED <<call, listVars, poolVars, flagVars, mOutTimeTest, now,
                 nextVars, sweep, status>>

\* Msg::makeInUse(), which clients may call too.
MakeInUse(m) ==
  /\ m \in held
  /\ msg' = [msg EXCEPT ![m].inUse = TRUE]
  /\ UNCHANGED <<live, held, call, listVars, poolVars, flagVars, mOutTimeTest,
                 now, nextVars, sweep, status>>

\* Msg::recycle() of a message that is not in use, or the public
\* recycleUnchecked() of any, called by the client that owns it.
recycle(m) ==
  /\ m \in held
  /\ msg' = [msg EXCEPT ![m] = recycleUnchecked(m)]
  /\ UNCHANGED <<live, held, call, listVars, poolVars, flagVars, mOutTimeTest,
                 now, nextVars, sweep, status>>

\* A client lets go of a message it never sent: ~Msg.
Discard(m) ==
  /\ m \in held
  /\ held' = held \ {m}
  /\ Delete({m})
  /\ UNCHANGED <<call, listVars, poolVars, flagVars, mOutTimeTest, now,
                 nextVars, sweep, status>>

-----------------------------------------------------------------------------
(* Clients: sending a message.  The time is read and mTarget is set before  *)
(* mLock is taken: other threads run between this step and enqueueMessage.  *)

\* MsgHandler::sendMessageAtTime up to the call of enqueueMessage; h = NULL
\* is a client that calls MsgQueue::enqueueMessage itself without a target.
sendMessageAtTime(s, m, h, t) ==
  /\ call[s] = NULL /\ now <= MaxTime
  /\ m \in held
  /\ msg' = [msg EXCEPT ![m].mTarget = h]
  /\ held' = held \ {m}
  /\ call' = [call EXCEPT ![s] = [m |-> m, t |-> t]]
  /\ UNCHANGED <<live, listVars, poolVars, flagVars, mOutTimeTest, now,
                 nextVars, sweep, status>>

sendMessageDelayed(s, m, h, d) ==
  sendMessageAtTime(s, m, h, now + (IF d < 0 THEN 0 ELSE d))

sendMessageAtFrontOfQueue(s, m, h) == sendMessageAtTime(s, m, h, 0)

postAtTime(s, m, h, u) == sendMessageAtTime(s, m, h, u)

\* Faulty variant: nobody is notified.
NotifyNobody == UNCHANGED notified

\* mWait.notifyAll(): wakes next() if it sleeps now, and is lost otherwise.
NotifyAll == notified' = (notified \/ npc \in {"wait", "timed"})

\* The early returns of enqueueMessage: the Message argument dies with them.
RejectMessage(s) ==
  /\ call[s] # NULL
  /\ msg[call[s].m].mTarget = NULL \/ msg[call[s].m].inUse
  /\ Delete({call[s].m})
  /\ call' = [call EXCEPT ![s] = NULL]
  /\ UNCHANGED <<held, listVars, poolVars, flagVars, mOutTimeTest, now,
                 nextVars, sweep, status>>

\* enqueueMessage is past its early returns and has mLock.
Acceptable(s) ==
  /\ call[s] # NULL
  /\ msg[call[s].m].mTarget # NULL /\ ~msg[call[s].m].inUse
  /\ sweep = NULL

\* The queue has quit or drains, and takes nothing.
RefusesIfQuit == mQuit
Refuses == mQuit \/ mNotEnqueMsg

\* enqueueMessage on a queue that quits: recycle and return false.
RefuseMessage(s) ==
  /\ Acceptable(s)
  /\ Refuses
  /\ recycleMsg(call[s].m)
  /\ call' = [call EXCEPT ![s] = NULL]
  /\ UNCHANGED <<held, listVars, flagVars, mOutTimeTest, now, nextVars, sweep,
                 status>>

\* Faulty variants: a message goes before the head also if it is due at the
\* same time; a message is appended without a look at the tail.
LinkFirstOvertakes(m, t) ==
  /\ mMsgQueue # <<>> /\ t # 0 => t <= msg[Head(mMsgQueue)].mWhen
  /\ mMsgQueue' = <<m>> \o mMsgQueue
  /\ mMsgQueueTail' = IF mMsgQueueTail = NULL THEN m ELSE mMsgQueueTail
LinkLastUnchecked(m, t) ==
  /\ mMsgQueue # <<>> /\ t # 0 /\ t >= msg[Head(mMsgQueue)].mWhen
  /\ mMsgQueue' = Append(mMsgQueue, m)
  /\ mMsgQueueTail' = m

\* The three places enqueueMessage links message m with time t into.
LinkFirst(m, t) ==
  /\ mMsgQueue # <<>> /\ t # 0 => t < msg[Head(mMsgQueue)].mWhen
  /\ mMsgQueue' = <<m>> \o mMsgQueue
  /\ mMsgQueueTail' = IF mMsgQueueTail = NULL THEN m ELSE mMsgQueueTail

LinkLast(m, t) ==
  /\ mMsgQueue # <<>> /\ t # 0 /\ t >= msg[Head(mMsgQueue)].mWhen
  /\ mMsgQueueTail # NULL /\ t >= msg[mMsgQueueTail].mWhen
  /\ mMsgQueue' = Append(mMsgQueue, m)
  /\ mMsgQueueTail' = m

LinkMiddle(m, t) ==
  /\ mMsgQueue # <<>> /\ t # 0 /\ t >= msg[Head(mMsgQueue)].mWhen
  /\ mMsgQueueTail # NULL => t < msg[mMsgQueueTail].mWhen
  /\ \E k \in 2 .. Len(mMsgQueue) + 1 :
       /\ k <= Len(mMsgQueue) => t < msg[mMsgQueue[k]].mWhen
       /\ \A j \in 2 .. k - 1 : t >= msg[mMsgQueue[j]].mWhen
       /\ mMsgQueue' = InsertAt(mMsgQueue, k, m)
  /\ UNCHANGED mMsgQueueTail

\* enqueueMessage on an open queue.
enqueueMessage(s) ==
  /\ Acceptable(s)
  /\ ~Refuses
  /\ \/ LinkFirst(call[s].m, call[s].t)
     \/ LinkLast(call[s].m, call[s].t)
     \/ LinkMiddle(call[s].m, call[s].t)
  /\ msg' = [msg EXCEPT ![call[s].m].inUse = TRUE,
                        ![call[s].m].mWhen = call[s].t]
  /\ mMsgQueueSize' = mMsgQueueSize + 1
  /\ mBlocked' = FALSE
  /\ NotifyAll
  /\ call' = [call EXCEPT ![s] = NULL]
  /\ UNCHANGED <<live, held, poolVars, mQuit, mNotEnqueMsg, mOutTimeTest, now,
                 npc, timeout, deadline, ret, sweep, status>>

-----------------------------------------------------------------------------
(* Clients: removing messages *)

\* The pointer to the first node of list q.
HeadOf(q) == IF q = <<>> THEN NULL ELSE Head(q)

\* Faulty variant: the nodes after the removed one are not linked again.
UnlinkDropsRest(k) ==
  /\ mMsgQueue' = SubSeq(mMsgQueue, 1, k - 1)
  /\ mMsgQueueTail' = HeadOf(Reverse(mMsgQueue'))
  /\ mMsgQueueSize' = mMsgQueueSize - 1

\* RECYCLEMIDDLE, the list part: unlink the k-th node.
Unlink(k) ==
  /\ mMsgQueue' = RemoveAt(mMsgQueue, k)
  /\ mMsgQueueTail' =
       IF mMsgQueueTail # mMsgQueue[k] THEN mMsgQueueTail
       ELSE IF k = 1 THEN HeadOf(Tail(mMsgQueue)) ELSE mMsgQueue[k - 1]
  /\ mMsgQueueSize' = mMsgQueueSize - 1

\* A node with one of the contents C whose target is h (any, if h is NULL).
Matches(m, C, h) == msg[m].content \in C /\ h \in {NULL, msg[m].mTarget}

\* The walk all removeMessage overloads share: only the FIRST match goes.
UnlinkFirstMatch(C, h) ==
  /\ sweep = NULL
  /\ \E k \in DOMAIN mMsgQueue :
       /\ Matches(mMsgQueue[k], C, h)
       /\ \A j \in 1 .. k - 1 : ~Matches(mMsgQueue[j], C, h)
       /\ Unlink(k)
       /\ recycleMsg(mMsgQueue[k])
  /\ UNCHANGED <<held, call, flagVars, mOutTimeTest, now, nextVars, sweep,
                 status>>

removeMessageRunnable(r, h) == UnlinkFirstMatch({c \in Content : c.mCallback = r}, h)

removeMessageWhat(w, h) == UnlinkFirstMatch({c \in Content : c.mWhat = w}, h)

removeMessageRangeRunnable(min, max, r, h) ==
  UnlinkFirstMatch({c \in Content : c.mWhat \in min .. max /\ c.mCallback = r}, h)

removeMessageArgsRunnable(w, a1, a2, r, h) ==
  UnlinkFirstMatch({c \in Content : /\ c.mWhat = w /\ c.mArg1 = a1 /\ c.mArg2 = a2
                               /\ c.mCallback = r}, h)

removeMessageCallback(cb, h) ==
  UnlinkFirstMatch({c \in Content : c.mHandleCallback = cb}, h)

removeMessageWhatCallback(w, cb, h) ==
  UnlinkFirstMatch({c \in Content : c.mWhat = w /\ c.mHandleCallback = cb}, h)

removeMessageRangeCallback(min, max, cb, h) ==
  UnlinkFirstMatch({c \in Content : /\ c.mWhat \in min .. max
                               /\ c.mHandleCallback = cb}, h)

removeMessageArgsCallback(w, a1, a2, cb, h) ==
  UnlinkFirstMatch({c \in Content : /\ c.mWhat = w /\ c.mArg1 = a1 /\ c.mArg2 = a2
                               /\ c.mHandleCallback = cb}, h)

\* removeMessage(Message): the caller owns the object, so it is not in the
\* list; it is recycled when the list is empty and deleted otherwise.
removeMessage(m) ==
  /\ sweep = NULL
  /\ m \in held
  /\ held' = held \ {m}
  /\ \/ mMsgQueue = <<>> /\ recycleMsg(m)
     \/ mMsgQueue # <<>> /\ Delete({m}) /\ UNCHANGED poolVars
  /\ UNCHANGED <<call, listVars, flagVars, mOutTimeTest, now, nextVars, sweep,
                 status>>

\* removeAllMessages(h): take mLock and start at the head of the list.
removeAllMessages(h) ==
  /\ sweep = NULL
  /\ mMsgQueue # <<>>
  /\ sweep' = [h |-> h, k |-> 1]
  /\ UNCHANGED <<msgVars, held, call, listVars, poolVars, flagVars,
                 mOutTimeTest, now, nextVars, status>>

\* One node that stays: go on with the next one.
SweepKeep ==
  /\ sweep # NULL /\ sweep.h # NULL
  /\ sweep.k <= Len(mMsgQueue)
  /\ msg[mMsgQueue[sweep.k]].mTarget # sweep.h
  /\ sweep' = [sweep EXCEPT !.k = @ + 1]
  /\ UNCHANGED <<msgVars, held, call, listVars, poolVars, flagVars,
                 mOutTimeTest, now, nextVars, status>>

\* Faulty variant: the node behind a removed one is skipped.
SweepRemoveSkips ==
  /\ sweep # NULL /\ sweep.h # NULL
  /\ sweep.k <= Len(mMsgQueue)
  /\ msg[mMsgQueue[sweep.k]].mTarget = sweep.h
  /\ Unlink(sweep.k)
  /\ recycleMsg(mMsgQueue[sweep.k])
  /\ sweep' = IF sweep.k = 1 THEN NULL ELSE [sweep EXCEPT !.k = @ + 1]
  /\ UNCHANGED <<held, call, flagVars, mOutTimeTest, now, nextVars, status>>

\* One node that goes.  When it is the head, "prev" is the recycled node
\* itself: the walk goes on through the pool, not the list, and ends there.
SweepRemove ==
  /\ sweep # NULL /\ sweep.h # NULL
  /\ sweep.k <= Len(mMsgQueue)
  /\ msg[mMsgQueue[sweep.k]].mTarget = sweep.h
  /\ Unlink(sweep.k)
  /\ recycleMsg(mMsgQueue[sweep.k])
  /\ sweep' = IF sweep.k = 1 THEN NULL ELSE sweep
  /\ UNCHANGED <<held, call, flagVars, mOutTimeTest, now, nextVars, status>>

\* removeAllMessages reads memory it may not: prev->mNext of a deleted node,
\* pool nodes without the pool's mutex, or mNext of the moved-from head when
\* it was called without a handler.
SweepFault ==
  /\ sweep # NULL
  /\ \/ sweep.h = NULL
     \/ /\ sweep.k = 1
        /\ msg[mMsgQueue[1]].mTarget = sweep.h
        /\ mMsgPoolSize = MaxMsgPoolSize \/ mMsgPool # <<>>
  /\ status' = "faulted"
  /\ UNCHANGED <<msgVars, held, call, listVars, poolVars, flagVars,
                 mOutTimeTest, now, nextVars, sweep>>

SweepEnd ==
  /\ sweep # NULL /\ sweep.h # NULL
  /\ sweep.k > Len(mMsgQueue)
  /\ sweep' = NULL
  /\ UNCHANGED <<msgVars, held, call, listVars, poolVars, flagVars,
                 mOutTimeTest, now, nextVars, status>>

-----------------------------------------------------------------------------
(* Closing the queue *)

\* quit(safely)
quit(safely) ==
  /\ sweep = NULL
  /\ ~mQuit
  /\ \/ safely /\ mNotEnqueMsg' = TRUE /\ UNCHANGED <<mQuit, msgVars, listVars>>
     \/ /\ ~safely
        /\ Delete(ToSet(mMsgQueue))
        /\ mMsgQueue' = <<>> /\ mMsgQueueTail' = NULL
        /\ mQuit' = TRUE
        /\ UNCHANGED <<mMsgQueueSize, mNotEnqueMsg>>
  /\ mBlocked' = FALSE
  /\ NotifyAll
  /\ UNCHANGED <<held, call, poolVars, mOutTimeTest, now, npc, timeout,
                 deadline, ret, sweep, status>>

setTestOutTimeMillisExit(t) ==
  /\ sweep = NULL
  /\ mOutTimeTest' = t
  /\ UNCHANGED <<msgVars, held, call, listVars, poolVars, flagVars, now,
                 nextVars, sweep, status>>

\* ~MsgQueue: the last shared_ptr is gone, so no call is in progress.
Destroy ==
  /\ sweep = NULL /\ npc = "idle" /\ \A s \in Senders : call[s] = NULL
  /\ Delete(ToSet(mMsgQueue) \cup ToSet(mMsgPool))
  /\ mMsgQueue' = <<>> /\ mMsgQueueTail' = NULL /\ mMsgQueueSize' = 0
  /\ mMsgPool' = <<>> /\ mMsgPoolSize' = 0
  /\ mBlocked' = FALSE /\ mQuit' = TRUE /\ mNotEnqueMsg' = FALSE
  /\ status' = "destroyed"
  /\ UNCHANGED <<held, call, mMsgPoolIsFull, mOutTimeTest, now, nextVars,
                 sweep>>

-----------------------------------------------------------------------------
(* next(), called by the looper thread *)

\* Everything next() does not touch unless it hands out a message.
QuietNext == UNCHANGED <<msgVars, held, call, poolVars, mQuit, mNotEnqueMsg,
                         mOutTimeTest, now, sweep, status>>

\* return Message(nullptr)
ReturnNull ==
  /\ npc' = "idle" /\ timeout' = -1 /\ deadline' = 0 /\ notified' = FALSE
  /\ UNCHANGED <<ret, listVars, mBlocked>>

\* Faulty variants: the tail keeps pointing to the message that is returned;
\* the head is returned although it is not due.
TakeHeadKeepsTail ==
  /\ mMsgQueue # <<>> /\ msg[Head(mMsgQueue)].mWhen <= now
  /\ ret' = Head(mMsgQueue)
  /\ mMsgQueue' = Tail(mMsgQueue)
  /\ mMsgQueueSize' = mMsgQueueSize - 1
  /\ npc' = "returned" /\ timeout' = -1 /\ deadline' = 0 /\ notified' = FALSE
  /\ UNCHANGED <<mMsgQueueTail, mBlocked>>
TakeHeadEarly ==
  /\ mMsgQueue # <<>>
  /\ ret' = Head(mMsgQueue)
  /\ mMsgQueue' = Tail(mMsgQueue)
  /\ mMsgQueueTail' = IF Tail(mMsgQueue) = <<>> THEN NULL ELSE mMsgQueueTail
  /\ mMsgQueueSize' = mMsgQueueSize - 1
  /\ npc' = "returned" /\ timeout' = -1 /\ deadline' = 0 /\ notified' = FALSE
  /\ UNCHANGED mBlocked

\* The head of the list is due: unlink and return it.
TakeHead ==
  /\ mMsgQueue # <<>> /\ msg[Head(mMsgQueue)].mWhen <= now
  /\ ret' = Head(mMsgQueue)
  /\ mMsgQueue' = Tail(mMsgQueue)
  /\ mMsgQueueTail' = IF Tail(mMsgQueue) = <<>> THEN NULL ELSE mMsgQueueTail
  /\ mMsgQueueSize' = mMsgQueueSize - 1
  /\ npc' = "returned" /\ timeout' = -1 /\ deadline' = 0 /\ notified' = FALSE
  /\ UNCHANGED mBlocked

\* Faulty variant: blocks for good also while a message is not due yet.
PollAgainBlocks ==
  /\ mMsgQueue # <<>> => msg[Head(mMsgQueue)].mWhen > now
  /\ ~mQuit /\ ~mNotEnqueMsg
  /\ timeout' = -1
  /\ mBlocked' = TRUE
  /\ npc' = "enter" /\ deadline' = 0 /\ notified' = FALSE
  /\ UNCHANGED <<ret, listVars>>

\* The head is not due, or there is none: compute the next timeout, unlock.
PollAgain ==
  /\ \/ /\ mMsgQueue # <<>> /\ msg[Head(mMsgQueue)].mWhen > now
        /\ timeout' = msg[Head(mMsgQueue)].mWhen - now
        /\ UNCHANGED mBlocked
     \/ /\ mMsgQueue = <<>> /\ ~mQuit /\ ~mNotEnqueMsg /\ mOutTimeTest > 0
        /\ timeout' = mOutTimeTest
        /\ UNCHANGED mBlocked
     \/ /\ mMsgQueue = <<>> /\ ~mQuit /\ ~mNotEnqueMsg /\ mOutTimeTest = 0
        /\ timeout' = -1
        /\ mBlocked' = TRUE
  /\ npc' = "enter" /\ deadline' = 0 /\ notified' = FALSE
  /\ UNCHANGED <<ret, listVars>>

\* Faulty variant: a pending quit ends next() before the list is drained.
ExamineGivesUp ==
  \/ TakeHead
  \/ PollAgain
  \/ (mQuit \/ mNotEnqueMsg) /\ ReturnNull

\* The part of the loop after the wait, under mLock.
Examine ==
  \/ TakeHead
  \/ PollAgain
  \/ mMsgQueue = <<>> /\ (mQuit \/ mNotEnqueMsg) /\ ReturnNull

\* The same part after a timed wait, which first looks at the test timeout.
ExamineAfterTimed ==
  \/ mOutTimeTest > 0 /\ timeout = mOutTimeTest /\ ReturnNull
  \/ ~(mOutTimeTest > 0 /\ timeout = mOutTimeTest) /\ Examine

\* Condition::wait has mLock and goes to sleep, for good or until a deadline.
Sleep(t) ==
  /\ npc' = IF t = -1 THEN "wait" ELSE "timed"
  /\ timeout' = t
  /\ deadline' = IF t = -1 THEN 0
                 ELSE now + (IF Windows THEN t \div 1000 ELSE t)
  /\ notified' = FALSE
  /\ UNCHANGED <<ret, listVars, mBlocked>>

CallNext ==
  /\ npc = "idle"
  /\ npc' = "enter"
  /\ QuietNext
  /\ UNCHANGED <<timeout, deadline, notified, ret, listVars, mBlocked>>

\* The timeout of this round: 0 once a safe quit has been asked for.
RoundTimeout == IF mNotEnqueMsg THEN 0 ELSE timeout

NextQuit ==
  /\ npc = "enter" /\ sweep = NULL /\ mQuit
  /\ ReturnNull
  /\ QuietNext

\* POSIX: from mLock.lock() to the sleep or to the end of the round.
NextEnterPosix ==
  /\ npc = "enter" /\ sweep = NULL /\ ~mQuit /\ ~Windows
  /\ \/ RoundTimeout = -1 /\ mBlocked /\ Sleep(-1)
     \/ RoundTimeout = -1 /\ ~mBlocked /\ Examine
     \/ RoundTimeout = 0 /\ Examine
     \/ RoundTimeout > 0 /\ Sleep(RoundTimeout)
  /\ QuietNext

\* Windows: mLock is given up before mBlocked is read and the wait is called.
NextEnterWindows ==
  /\ npc = "enter" /\ sweep = NULL /\ ~mQuit /\ Windows
  /\ npc' = "unlocked"
  /\ timeout' = RoundTimeout
  /\ QuietNext
  /\ UNCHANGED <<deadline, notified, ret, listVars, mBlocked>>

NextUnlocked ==
  /\ npc = "unlocked"
  /\ npc' = IF timeout > 0 \/ (timeout = -1 /\ mBlocked) THEN "tosleep"
            ELSE "relock"
  /\ QuietNext
  /\ UNCHANGED <<timeout, deadline, notified, ret, listVars, mBlocked>>

NextToSleep ==
  /\ npc = "tosleep" /\ sweep = NULL
  /\ Sleep(timeout)
  /\ QuietNext

NextRelock ==
  /\ npc = "relock" /\ sweep = NULL
  /\ ExamineAfterTimed
  /\ QuietNext

\* The sleeper gets mLock back: POSIX goes on under it, Windows drops it.
WakeUp ==
  /\ sweep = NULL
  /\ \/ /\ Windows
        /\ npc' = IF npc = "wait" THEN "unlocked" ELSE "relock"
        /\ deadline' = 0 /\ notified' = FALSE
        /\ UNCHANGED <<timeout, ret, listVars, mBlocked>>
     \/ /\ ~Windows /\ npc = "wait"
        /\ \/ mBlocked /\ Sleep(-1)
           \/ ~mBlocked /\ Examine
     \/ ~Windows /\ npc = "timed" /\ ExamineAfterTimed
  /\ QuietNext

NextNotified == npc \in {"wait", "timed"} /\ notified /\ WakeUp

NextTimedOut == npc = "timed" /\ ~notified /\ now >= deadline /\ WakeUp

\* Condition variables may wake up without a reason.
NextSpurious ==
  /\ npc = "wait" \/ (npc = "timed" /\ now < deadline)
  /\ ~notified
  /\ WakeUp

\* MsgLooper::loop() has dispatched the message: recycleMsg.
Recycle ==
  /\ npc = "returned"
  /\ recycleMsg(ret)
  /\ npc' = "idle" /\ ret' = NULL
  /\ UNCHANGED <<held, call, listVars, flagVars, mOutTimeTest, now, timeout,
                 deadline, notified, sweep, status>>

\* The clock.  It stops (a bound) when no message can be sent any more, none
\* is left to become due and next() sleeps over none.
Tick ==
  /\ \/ now < MaxTime
     \/ \E m \in ToSet(mMsgQueue) : now < msg[m].mWhen
     \/ npc = "timed" /\ now < deadline /\ mMsgQueue # <<>>
  /\ now' = now + 1
  /\ UNCHANGED <<msgVars, held, call, listVars, poolVars, flagVars,
                 mOutTimeTest, nextVars, sweep, status>>

-----------------------------------------------------------------------------
\* One turn of next() by the looper thread, spurious wakeups aside.
NextStep ==
  \/ NextQuit \/ NextEnterPosix
  \/ NextEnterWindows \/ NextUnlocked \/ NextToSleep \/ NextRelock
  \/ NextNotified \/ NextTimedOut

ObtainStep ==
  \E c \in Contents, p \in Params \cup {NULL}, free \in BOOLEAN :
    ObtainPooled(c, p, free) \/ ObtainNew(c, p, free)

SendStep(s, m) ==
  \/ \E h \in Handlers, d \in Delays : sendMessageDelayed(s, m, h, d)
  \/ \E h \in FrontHandlers : sendMessageAtFrontOfQueue(s, m, h)
  \/ \E h \in Handlers, u \in Uptimes : postAtTime(s, m, h, u)
  \/ sendMessageAtTime(s, m, NULL, 0)

EnqueueStep(s) == RejectMessage(s) \/ RefuseMessage(s) \/ enqueueMessage(s)

RemoveStep(h) ==
  \/ \E r \in Runnables : removeMessageRunnable(r, h)
  \/ \E w \in Whats : removeMessageWhat(w, h)
  \/ \E min, max \in Whats, r \in Runnables \cup {NULL} :
       removeMessageRangeRunnable(min, max, r, h)
  \/ \E w \in Whats, a1, a2 \in Args, r \in Runnables \cup {NULL} :
       removeMessageArgsRunnable(w, a1, a2, r, h)
  \/ \E cb \in HandlerCallbacks \cup {NULL} : removeMessageCallback(cb, h)
  \/ \E w \in Whats, cb \in HandlerCallbacks \cup {NULL} :
       removeMessageWhatCallback(w, cb, h)
  \/ \E min, max \in Whats, cb \in HandlerCallbacks \cup {NULL} :
       removeMessageRangeCallback(min, max, cb, h)
  \/ \E w \in Whats, a1, a2 \in Args, cb \in HandlerCallbacks \cup {NULL} :
       removeMessageArgsCallback(w, a1, a2, cb, h)
  \/ removeAllMessages(h)

SweepStep == SweepKeep \/ SweepRemove \/ SweepFault \/ SweepEnd

ClientStep ==
  \/ ObtainStep
  \/ \E m \in held : MakeInUse(m) \/ recycle(m) \/ Discard(m) \/ removeMessage(m)
  \/ \E s \in Senders, m \in held : SendStep(s, m)
  \/ \E s \in Senders : EnqueueStep(s)
  \/ \E h \in Handlers \cup {NULL} : RemoveStep(h)
  \/ SweepStep
  \/ \E t \in OutTimes : setTestOutTimeMillisExit(t)

\* The queue has crashed or is gone.
Stopped == status # "running" /\ UNCHANGED vars

Next ==
  \/ /\ status = "running"
     /\ \/ ClientStep
        \/ \E safely \in BOOLEAN : quit(safely)
        \/ Destroy
        \/ CallNext \/ NextStep \/ NextSpurious \/ Recycle
        \/ Tick
  \/ Stopped

Spec == Init /\ [][Next]_vars

-----------------------------------------------------------------------------
(* State invariants *)

\* What a client thread's call holds before it takes mLock.
Calls == [m : Msgs, t : Int]

\* Values of the fields of a Msg.
MsgRecords ==
  [content : Content, mParam : Params \cup {NULL}, mParamFreeFunc : BOOLEAN,
   mTarget : Handlers \cup {NULL}, mWhen : Int, inUse : BOOLEAN]

\* Every variable has its type.  (The C++ declarations in MessageQueue.h.)
TypeOK ==
  /\ msg \in [Msgs -> MsgRecords]
  /\ live \subseteq Msgs
  /\ held \subseteq Msgs
  /\ call \in [Senders -> Calls \cup {NULL}]
  /\ mMsgQueue \in Seq(Msgs)
  /\ mMsgQueueTail \in Msgs \cup {NULL}
  /\ mMsgQueueSize \in Int
  /\ mMsgPool \in Seq(Msgs)
  /\ mMsgPoolSize \in Int
  /\ mMsgPoolIsFull \in BOOLEAN
  /\ mBlocked \in BOOLEAN /\ mQuit \in BOOLEAN /\ mNotEnqueMsg \in BOOLEAN
  /\ mOutTimeTest \in Nat
  /\ now \in Nat
  /\ npc \in {"idle", "enter", "unlocked", "tosleep", "relock", "wait",
              "timed", "returned"}
  /\ timeout \in Int /\ deadline \in Int
  /\ notified \in BOOLEAN
  /\ ret \in Msgs \cup {NULL}
  /\ sweep \in [h : Handlers \cup {NULL}, k : Nat \ {0}] \cup {NULL}
  /\ status \in {"running", "faulted", "destroyed"}

\* next() has a message out exactly while the looper dispatches it.
ReturnedHasMessage == npc = "returned" <=> ret # NULL

\* The messages the sets and pointers outside the two lists own.
InCall == {call[s].m : s \in {x \in Senders : call[x] # NULL}}
InRet == {ret} \ {NULL}

\* Ownership.  Every allocated Msg has exactly one owner: a client, a call in
\* flight, the list, the pool or the looper.  A message with two owners is a
\* double free or is dispatched twice; one with none is a leak.  The code
\* moves the unique_ptr's by hand in enqueueMessage, RECYCLEMIDDLE,
\* removeAllMessages, next, recycleMsg, obtain and quit.
SoleOwner ==
  /\ IsInjective(mMsgQueue) /\ IsInjective(mMsgPool)
  /\ \A s, u \in Senders : s # u /\ call[s] # NULL /\ call[u] # NULL
       => call[s].m # call[u].m
  /\ held \cap (InCall \cup ToSet(mMsgQueue) \cup ToSet(mMsgPool) \cup InRet) = {}
  /\ InCall \cap (ToSet(mMsgQueue) \cup ToSet(mMsgPool) \cup InRet) = {}
  /\ ToSet(mMsgQueue) \cap (ToSet(mMsgPool) \cup InRet) = {}
  /\ ToSet(mMsgPool) \cap InRet = {}
  /\ live = held \cup InCall \cup ToSet(mMsgQueue) \cup ToSet(mMsgPool) \cup InRet

\* mMsgQueueTail is the last node of the list and null for an empty list, so
\* that the append of enqueueMessage neither cuts the list nor writes into a
\* node that is gone (comment at MessageQueue.cpp:139).
TailPointsToLast ==
  mMsgQueueTail = IF mMsgQueue = <<>> THEN NULL
                  ELSE mMsgQueue[Len(mMsgQueue)]

\* mMsgQueueSize is the length of the list until an unsafe quit, which leaves
\* it stale; MsgLooper::loop() ends on it.
SizeCounts == ~mQuit => mMsgQueueSize = Len(mMsgQueue)

\* The list is sorted by mWhen whatever order, delays and front insertions the
\* messages arrive with; next() only ever looks at the head.
SortedByWhen ==
  \A i, j \in DOMAIN mMsgQueue :
    i < j => msg[mMsgQueue[i]].mWhen <= msg[mMsgQueue[j]].mWhen

\* The pool never grows past its bound, its counter is right, obtain() never
\* pops an empty pool although only mMsgPoolIsFull guards it for good, and a
\* pooled message keeps no target, content, in-use flag or parameter deleter
\* of its earlier use.
PoolReady ==
  /\ mMsgPoolSize = Len(mMsgPool) /\ mMsgPoolSize <= MaxMsgPoolSize
  /\ mMsgPoolIsFull /\ status # "destroyed" => mMsgPool # <<>>
  /\ \A m \in ToSet(mMsgPool) : msg[m] = [NewMsg EXCEPT !.mParam = msg[m].mParam]

\* mBlocked means there is nothing to wake up for: no message is in the list
\* and no quit is pending.  next() sleeps without a timeout on this flag alone.
BlockedMeansIdle ==
  mBlocked => mMsgQueue = <<>> /\ ~mQuit /\ ~mNotEnqueMsg

\* A looper that sleeps without a timeout and has not been notified has
\* nothing to do: no enqueueMessage or quit slips in between its check of
\* mBlocked and its sleep.
NoLostWakeup == npc = "wait" /\ ~notified => mBlocked

-----------------------------------------------------------------------------
(* Action properties *)

\* Handing out a message: only when it is due, and no message that stays in
\* the list has an earlier time.
DeliverStep ==
  ret = NULL /\ ret' # NULL =>
    /\ msg[ret'].mWhen <= now
    /\ \A m \in ToSet(mMsgQueue') : msg[ret'].mWhen <= msg[m].mWhen
DeliversEarliestDue == [][DeliverStep]_vars

\* No step reorders messages that stay, and a message that arrives with a time
\* other than 0 goes behind every message that is due no later: messages for
\* the same time leave in the order they were accepted.
FifoStep ==
  /\ \A i, j \in DOMAIN mMsgQueue, k, l \in DOMAIN mMsgQueue' :
       /\ mMsgQueue[i] = mMsgQueue'[k] /\ mMsgQueue[j] = mMsgQueue'[l]
       => (i < j <=> k < l)
  /\ \A k, l \in DOMAIN mMsgQueue' :
       /\ mMsgQueue'[k] \notin ToSet(mMsgQueue)
       /\ mMsgQueue'[l] \in ToSet(mMsgQueue)
       /\ msg'[mMsgQueue'[k]].mWhen # 0
       /\ msg[mMsgQueue'[l]].mWhen <= msg'[mMsgQueue'[k]].mWhen
       => l < k
FifoPerTime == [][FifoStep]_vars

\* After a safe quit next() gives up only when every accepted message has been
\* handed out (LooperThread.h:36), unless a test timeout is set.
DrainStep ==
  /\ npc \notin {"idle", "returned"} /\ npc' = "idle"
  /\ mNotEnqueMsg /\ ~mQuit /\ mOutTimeTest = 0
  => mMsgQueue = <<>>
SafeQuitDrains == [][DrainStep]_vars

\* removeAllMessages(h) leaves no message of handler h in the list, if the walk
\* gets past the head of it.  (When the head is h's, the walk ends with it and
\* the later messages of h stay: see SweepRemove.)
RemoveAllStep ==
  sweep # NULL /\ sweep.k > 1 /\ sweep' = NULL =>
    \A m \in ToSet(mMsgQueue') : msg[m].mTarget # sweep.h
RemovesBehindHead == [][RemoveAllStep]_vars

\* A queue that has been closed, safely or not, stays closed and accepts no
\* message, not even one whose enqueueMessage was on its way to mLock.
ClosedStep ==
  mQuit \/ mNotEnqueMsg =>
    /\ mQuit' \/ mNotEnqueMsg'
    /\ ToSet(mMsgQueue') \subseteq ToSet(mMsgQueue)
ClosedForGood == [][ClosedStep]_vars

=============================================================================
