------------------------- MODULE MessageLooperProofs -------------------------
(***************************************************************************)
(* Proofs about the message queue, then about the looper over it, for every *)
(* value of the constants.  Up to "The looper" every statement is about     *)
(* MessageQueue alone; a looper implements the specification of its queue,  *)
(* so those results hold under it too.                                      *)
(***************************************************************************)
EXTENDS MessageLooper, TLAPS

USE DEF msgVars, listVars, poolVars, flagVars, nextVars

-----------------------------------------------------------------------------
(* Facts about the operators of the model *)

\* A fresh Msg is a Msg.
LEMMA NewMsgType == NewMsg \in MsgRecords
  BY NullAssumption, ContentAssumption
     DEF NewMsg, MsgRecords, NoContent, Content

\* recycleUnchecked() leaves a Msg.
LEMMA RecycledType ==
  ASSUME TypeOK, NEW m \in Msgs
  PROVE  recycleUnchecked(m) \in MsgRecords
  <1>1. /\ NewMsg \in MsgRecords
        /\ msg[m].mParam \in Params \cup {NULL}
    BY NewMsgType DEF TypeOK, MsgRecords
  <1>2. DEFINE p == IF msg[m].mParamFreeFunc THEN NULL ELSE msg[m].mParam
  <1>3. p \in Params \cup {NULL}
    BY <1>1
  <1>4. [NewMsg EXCEPT !.mParam = p] \in MsgRecords
    BY <1>1, <1>3 DEF MsgRecords
  <1> QED
    BY <1>4 DEF recycleUnchecked

\* Deleting messages keeps the types.
LEMMA DeleteType ==
  ASSUME TypeOK, NEW S, Delete(S)
  PROVE  msg' \in [Msgs -> MsgRecords] /\ live' \subseteq Msgs
  BY NewMsgType DEF Delete, TypeOK

\* recycleMsg keeps the types.
LEMMA RecycleType ==
  ASSUME TypeOK, NEW m \in Msgs, recycleMsg(m)
  PROVE  /\ msg' \in [Msgs -> MsgRecords] /\ live' \subseteq Msgs
         /\ mMsgPool' \in Seq(Msgs) /\ mMsgPoolSize' \in Int
         /\ mMsgPoolIsFull' \in BOOLEAN
  <1>1. CASE Delete({m}) /\ UNCHANGED poolVars
    BY <1>1, DeleteType DEF TypeOK
  <1>2. CASE /\ msg' = [msg EXCEPT ![m] = recycleUnchecked(m)]
             /\ mMsgPool' = <<m>> \o mMsgPool
             /\ mMsgPoolSize' = mMsgPoolSize + 1
             /\ mMsgPoolIsFull' =
                  (mMsgPoolIsFull \/ mMsgPoolSize + 1 = MaxMsgPoolSize)
             /\ UNCHANGED live
    BY <1>2, RecycledType DEF TypeOK
  <1> QED
    BY <1>1, <1>2 DEF recycleMsg

\* Sequences of messages stay such when one is inserted or removed.
LEMMA InsertType ==
  ASSUME NEW q \in Seq(Msgs), NEW m \in Msgs, NEW k \in 1 .. Len(q) + 1
  PROVE  InsertAt(q, k, m) \in Seq(Msgs)
  BY DEF InsertAt

LEMMA RemoveType ==
  ASSUME NEW q \in Seq(Msgs), NEW k \in 1 .. Len(q)
  PROVE  RemoveAt(q, k) \in Seq(Msgs)
  BY DEF RemoveAt

LEMMA UnlinkType ==
  ASSUME TypeOK, NEW k \in DOMAIN mMsgQueue, Unlink(k)
  PROVE  /\ mMsgQueue' \in Seq(Msgs)
         /\ mMsgQueueTail' \in Msgs \cup {NULL}
         /\ mMsgQueueSize' \in Int
  <1>1. k \in 1 .. Len(mMsgQueue) /\ mMsgQueue \in Seq(Msgs)
    BY DEF TypeOK
  <1>2. mMsgQueue' \in Seq(Msgs)
    BY <1>1, RemoveType DEF Unlink
  <1>3. mMsgQueueTail' \in Msgs \cup {NULL}
    BY <1>1 DEF Unlink, TypeOK, HeadOf
  <1> QED
    BY <1>2, <1>3 DEF Unlink, TypeOK

-----------------------------------------------------------------------------
(* Type correctness *)

TypeInv == TypeOK /\ ReturnedHasMessage

\* Clients: obtaining, changing, recycling, discarding and sending messages.
LEMMA ObtainKeepsType == TypeInv /\ ObtainStep => TypeInv'
  <1> SUFFICES ASSUME TypeInv,
                      NEW c \in Contents, NEW p \in Params \cup {NULL},
                      NEW free \in BOOLEAN,
                      ObtainPooled(c, p, free) \/ ObtainNew(c, p, free)
               PROVE  TypeInv'
    BY DEF ObtainStep
  <1> USE DEF TypeInv
  <1>1. ASSUME NEW m \in Msgs, Fill(m, c, p, free)
        PROVE  msg' \in [Msgs -> MsgRecords]
    <2> DEFINE q == IF p = NULL THEN msg[m].mParam ELSE p
               f == p # NULL /\ free
               r == [msg[m] EXCEPT !.content = c, !.mParam = q,
                                   !.mParamFreeFunc = f]
    <2>1. msg[m] \in MsgRecords /\ c \in Content
      BY <1>1, ContentAssumption DEF TypeOK
    <2>2. q \in Params \cup {NULL} /\ f \in BOOLEAN
      BY <2>1 DEF MsgRecords
    <2>3. r \in MsgRecords
      BY <2>1, <2>2 DEF MsgRecords
    <2>4. msg' = [msg EXCEPT ![m] = r]
      BY <1>1 DEF Fill
    <2> QED
      BY <2>3, <2>4 DEF TypeOK
  <1>2. CASE ObtainPooled(c, p, free)
    <2>1. Head(mMsgPool) \in Msgs /\ Tail(mMsgPool) \in Seq(Msgs)
      BY <1>2 DEF ObtainPooled, TypeOK
    <2>2. msg' \in [Msgs -> MsgRecords]
      BY <1>1, <1>2, <2>1 DEF ObtainPooled
    <2> QED
      BY <1>2, <2>1, <2>2 DEF ObtainPooled, TypeOK, ReturnedHasMessage
  <1>3. CASE ObtainNew(c, p, free)
    <2>1. PICK m \in Msgs \ live : /\ Fill(m, c, p, free)
                                   /\ live' = live \cup {m}
                                   /\ held' = held \cup {m}
      BY <1>3 DEF ObtainNew
    <2>2. msg' \in [Msgs -> MsgRecords]
      BY <1>1, <2>1
    <2> QED
      BY <1>3, <2>1, <2>2 DEF ObtainNew, TypeOK, ReturnedHasMessage
  <1> QED
    BY <1>2, <1>3

LEMMA HeldKeepsType ==
  ASSUME TypeInv, NEW m \in held, MakeInUse(m) \/ recycle(m) \/ Discard(m) \/ removeMessage(m)
  PROVE  TypeInv'
  <1> USE DEF TypeInv
  <1>0. m \in Msgs
    BY DEF TypeOK
  <1>1. CASE MakeInUse(m)
    <2>1. msg' \in [Msgs -> MsgRecords]
      BY <1>0, <1>1 DEF MakeInUse, TypeOK, MsgRecords
    <2> QED
      BY <1>1, <2>1 DEF MakeInUse, TypeOK, ReturnedHasMessage
  <1>2. CASE Discard(m)
    BY <1>2, DeleteType DEF Discard, TypeOK, ReturnedHasMessage
  <1>3. CASE recycle(m)
    <2>1. msg' \in [Msgs -> MsgRecords]
      BY <1>0, <1>3, RecycledType DEF recycle, TypeOK
    <2> QED
      BY <1>3, <2>1 DEF recycle, TypeOK, ReturnedHasMessage
  <1>4. CASE removeMessage(m)
    <2>1. CASE recycleMsg(m)
      BY <1>0, <1>4, <2>1, RecycleType
         DEF removeMessage, TypeOK, ReturnedHasMessage
    <2>2. CASE Delete({m}) /\ UNCHANGED poolVars
      BY <1>4, <2>2, DeleteType DEF removeMessage, TypeOK, ReturnedHasMessage
    <2> QED
      BY <1>4, <2>1, <2>2 DEF removeMessage
  <1> QED
    BY <1>1, <1>2, <1>3, <1>4

LEMMA SendKeepsType ==
  ASSUME TypeInv, NEW s \in Senders, NEW m \in held, SendStep(s, m)
  PROVE  TypeInv'
  <1> USE DEF TypeInv
  <1>1. PICK h \in Handlers \cup {NULL}, t \in Int : sendMessageAtTime(s, m, h, t)
    <2>0. now \in Int
      BY DEF TypeOK
    <2>1. \A d \in Delays : now + (IF d < 0 THEN 0 ELSE d) \in Int
      BY <2>0, TimeAssumption
    <2>2. Uptimes \subseteq Int
      BY TimeAssumption
    <2> QED
      BY <2>1, <2>2, HandlerAssumption DEF SendStep, sendMessageDelayed,
         sendMessageAtFrontOfQueue, postAtTime
  <1>2. m \in Msgs
    BY DEF TypeOK
  <1>3. msg' \in [Msgs -> MsgRecords]
    <2>1. msg[m] \in MsgRecords
      BY <1>2 DEF TypeOK
    <2>3. [msg[m] EXCEPT !.mTarget = h] \in MsgRecords
      BY <2>1 DEF MsgRecords
    <2>2. msg' = [msg EXCEPT ![m] = [msg[m] EXCEPT !.mTarget = h]]
      BY <1>1 DEF sendMessageAtTime
    <2> QED
      BY <2>2, <2>3 DEF TypeOK
  <1>4. call' \in [Senders -> Calls \cup {NULL}]
    BY <1>1, <1>2 DEF sendMessageAtTime, TypeOK, Calls
  <1> QED
    BY <1>1, <1>3, <1>4 DEF sendMessageAtTime, TypeOK, ReturnedHasMessage

\* enqueueMessage.
LEMMA EnqueueKeepsType ==
  ASSUME TypeInv, NEW s \in Senders, EnqueueStep(s)
  PROVE  TypeInv'
  <1> USE DEF TypeInv
  <1> DEFINE m == call[s].m
             t == call[s].t
  <1>1. call[s] # NULL
    BY DEF EnqueueStep, RejectMessage, RefuseMessage, enqueueMessage, Acceptable
  <1>2. m \in Msgs /\ t \in Int
    BY <1>1 DEF TypeOK, Calls
  <1>3. [call EXCEPT ![s] = NULL] \in [Senders -> Calls \cup {NULL}]
    BY DEF TypeOK
  <1> HIDE DEF m, t
  <1>4. CASE RejectMessage(s)
    BY <1>3, <1>4, DeleteType DEF RejectMessage, TypeOK, ReturnedHasMessage
  <1>5. CASE RefuseMessage(s)
    BY <1>2, <1>3, <1>5, RecycleType
       DEF RefuseMessage, TypeOK, ReturnedHasMessage, m
  <1>6. CASE enqueueMessage(s)
    <2>1. mMsgQueue' \in Seq(Msgs) /\ mMsgQueueTail' \in Msgs \cup {NULL}
      <3>1. CASE LinkFirst(m, t)
        BY <1>2, <3>1 DEF LinkFirst, TypeOK
      <3>2. CASE LinkLast(m, t)
        BY <1>2, <3>2 DEF LinkLast, TypeOK
      <3>3. CASE LinkMiddle(m, t)
        <4>1. PICK k \in 2 .. Len(mMsgQueue) + 1 :
                mMsgQueue' = InsertAt(mMsgQueue, k, m)
          BY <3>3 DEF LinkMiddle
        <4>2. k \in 1 .. Len(mMsgQueue) + 1 /\ mMsgQueue \in Seq(Msgs)
          BY DEF TypeOK
        <4>3. mMsgQueue' \in Seq(Msgs)
          BY <1>2, <4>1, <4>2, InsertType
        <4> QED
          BY <3>3, <4>3 DEF LinkMiddle, TypeOK
      <3> QED
        BY <1>6, <3>1, <3>2, <3>3 DEF enqueueMessage, m, t
    <2>2. msg' \in [Msgs -> MsgRecords]
      <3>1. msg[m] \in MsgRecords
        BY <1>2 DEF TypeOK
      <3>2. [msg[m] EXCEPT !.inUse = TRUE, !.mWhen = t] \in MsgRecords
        BY <1>2, <3>1 DEF MsgRecords
      <3>3. msg' = [msg EXCEPT ![m] = [msg[m] EXCEPT !.inUse = TRUE, !.mWhen = t]]
        BY <1>2, <1>6 DEF enqueueMessage, m, t, TypeOK
      <3> QED
        BY <3>2, <3>3 DEF TypeOK
    <2>3. notified' \in BOOLEAN /\ mBlocked' \in BOOLEAN
      BY <1>6 DEF enqueueMessage, NotifyAll
    <2> QED
      BY <1>3, <1>6, <2>1, <2>2, <2>3
         DEF enqueueMessage, TypeOK, ReturnedHasMessage
  <1> QED
    BY <1>4, <1>5, <1>6 DEF EnqueueStep

\* removeMessage and removeAllMessages.
LEMMA RemoveKeepsType ==
  ASSUME TypeInv, NEW h \in Handlers \cup {NULL}, RemoveStep(h)
  PROVE  TypeInv'
  <1> USE DEF TypeInv
  <1>1. CASE removeAllMessages(h)
    BY <1>1 DEF removeAllMessages, TypeOK, ReturnedHasMessage
  <1>2. ASSUME NEW C, UnlinkFirstMatch(C, h)
        PROVE  TypeInv'
    <2>1. PICK k \in DOMAIN mMsgQueue : Unlink(k) /\ recycleMsg(mMsgQueue[k])
      BY <1>2 DEF UnlinkFirstMatch
    <2>2. mMsgQueue[k] \in Msgs
      BY <2>1 DEF TypeOK
    <2> QED
      BY <1>2, <2>1, <2>2, UnlinkType, RecycleType
         DEF UnlinkFirstMatch, TypeOK, ReturnedHasMessage
  <1> QED
    BY <1>1, <1>2 DEF RemoveStep, removeMessageRunnable, removeMessageWhat,
       removeMessageRangeRunnable, removeMessageArgsRunnable,
       removeMessageCallback, removeMessageWhatCallback,
       removeMessageRangeCallback, removeMessageArgsCallback

LEMMA SweepKeepsType == TypeInv /\ SweepStep => TypeInv'
  <1> SUFFICES ASSUME TypeInv, SweepStep PROVE TypeInv'
    OBVIOUS
  <1> USE DEF TypeInv
  <1>1. CASE SweepKeep
    BY <1>1 DEF SweepKeep, TypeOK, ReturnedHasMessage
  <1>2. CASE SweepRemove
    <2>1. sweep.k \in DOMAIN mMsgQueue /\ mMsgQueue[sweep.k] \in Msgs
      BY <1>2 DEF SweepRemove, TypeOK
    <2> QED
      BY <1>2, <2>1, UnlinkType, RecycleType
         DEF SweepRemove, TypeOK, ReturnedHasMessage
  <1>3. CASE SweepFault
    BY <1>3 DEF SweepFault, TypeOK, ReturnedHasMessage
  <1>4. CASE SweepEnd
    BY <1>4 DEF SweepEnd, TypeOK, ReturnedHasMessage
  <1> QED
    BY <1>1, <1>2, <1>3, <1>4 DEF SweepStep

\* quit, ~MsgQueue, the test timeout and the clock.
LEMMA ControlKeepsType ==
  ASSUME TypeInv,
         \/ \E safely \in BOOLEAN : quit(safely)
         \/ \E t \in OutTimes : setTestOutTimeMillisExit(t)
         \/ Destroy
         \/ Tick
  PROVE  TypeInv'
  <1> USE DEF TypeInv
  <1>1. ASSUME NEW safely \in BOOLEAN, quit(safely)
        PROVE  TypeInv'
    <2>1. /\ notified' \in BOOLEAN /\ mBlocked' \in BOOLEAN
          /\ mQuit' \in BOOLEAN /\ mNotEnqueMsg' \in BOOLEAN
      BY <1>1 DEF quit, NotifyAll, TypeOK
    <2>2. CASE safely
      BY <1>1, <2>1, <2>2 DEF quit, TypeOK, ReturnedHasMessage
    <2>3. CASE ~safely
      <3>1. Delete(ToSet(mMsgQueue))
        BY <1>1, <2>3 DEF quit
      <3>2. msg' \in [Msgs -> MsgRecords] /\ live' \subseteq Msgs
        BY <3>1, DeleteType
      <3>3. /\ mMsgQueue' = <<>> /\ mMsgQueueTail' = NULL
            /\ UNCHANGED <<mMsgQueueSize, held, call, poolVars, mOutTimeTest,
                           now, npc, timeout, deadline, ret, sweep, status>>
        BY <1>1, <2>3 DEF quit
      <3> QED
        BY <2>1, <3>2, <3>3 DEF TypeOK, ReturnedHasMessage
    <2> QED
      BY <2>2, <2>3
  <1>2. ASSUME NEW t \in OutTimes, setTestOutTimeMillisExit(t)
        PROVE  TypeInv'
    BY <1>2, TimeAssumption
       DEF setTestOutTimeMillisExit, TypeOK, ReturnedHasMessage
  <1>3. CASE Destroy
    <2>1. Delete(ToSet(mMsgQueue) \cup ToSet(mMsgPool))
      BY <1>3 DEF Destroy
    <2>2. msg' \in [Msgs -> MsgRecords] /\ live' \subseteq Msgs
      BY <2>1, DeleteType
    <2>3. /\ mBlocked' \in BOOLEAN /\ mQuit' \in BOOLEAN
          /\ mNotEnqueMsg' \in BOOLEAN
      BY <1>3 DEF Destroy
    <2> QED
      BY <1>3, <2>2, <2>3 DEF Destroy, TypeOK, ReturnedHasMessage
  <1>4. CASE Tick
    BY <1>4 DEF Tick, TypeOK, ReturnedHasMessage
  <1> QED
    BY <1>1, <1>2, <1>3, <1>4

\* next() and the looper's recycleMsg.
LEMMA LooperKeepsType ==
  ASSUME TypeInv, CallNext \/ NextStep \/ NextSpurious \/ Recycle
  PROVE  TypeInv'
  <1> USE DEF TypeInv
  <1>1. CASE Recycle
    <2>1. ret \in Msgs
      BY <1>1 DEF Recycle, TypeOK, ReturnedHasMessage
    <2> QED
      BY <1>1, <2>1, RecycleType DEF Recycle, TypeOK, ReturnedHasMessage
  <1>2. CASE CallNext
    BY <1>2 DEF CallNext, QuietNext, TypeOK, ReturnedHasMessage
  <1> DEFINE Kept == /\ npc' \in {"idle", "enter", "unlocked", "tosleep",
                                  "relock", "wait", "timed", "returned"}
                     /\ timeout' \in Int /\ deadline' \in Int
                     /\ notified' \in BOOLEAN
                     /\ ret' \in Msgs \cup {NULL}
                     /\ mBlocked' \in BOOLEAN
                     /\ mMsgQueue' \in Seq(Msgs)
                     /\ mMsgQueueTail' \in Msgs \cup {NULL}
                     /\ mMsgQueueSize' \in Int
                     /\ ReturnedHasMessage'
  <1>3. ASSUME QuietNext, Kept PROVE TypeInv'
    BY <1>3 DEF QuietNext, TypeOK
  <1>4. ASSUME npc # "returned", ReturnNull PROVE Kept
    <2>1. notified' \in BOOLEAN
      BY <1>4 DEF ReturnNull
    <2> QED
      BY <1>4, <2>1 DEF ReturnNull, TypeOK, ReturnedHasMessage
  <1>5. ASSUME NEW t \in Int, npc # "returned", Sleep(t) PROVE Kept
    <2>1. deadline' \in Int
      BY <1>5 DEF Sleep, TypeOK
    <2> QED
      BY <1>5, <2>1 DEF Sleep, TypeOK, ReturnedHasMessage
  <1>6. ASSUME npc # "returned", Examine PROVE Kept
    <2>1. CASE TakeHead
      <3>1. Head(mMsgQueue) \in Msgs /\ Tail(mMsgQueue) \in Seq(Msgs)
        BY <2>1 DEF TakeHead, TypeOK
      <3>2. notified' \in BOOLEAN
        BY <2>1 DEF TakeHead
      <3> QED
        BY <2>1, <3>1, <3>2, NullAssumption
           DEF TakeHead, TypeOK, ReturnedHasMessage
    <2>2. CASE PollAgain
      <3>1. timeout' \in Int
        <4>1. CASE mMsgQueue # <<>> /\ timeout' = msg[Head(mMsgQueue)].mWhen - now
          <5>1. Head(mMsgQueue) \in Msgs
            BY <4>1 DEF TypeOK
          <5> QED
            BY <4>1, <5>1 DEF TypeOK, MsgRecords
        <4> QED
          BY <2>2, <4>1 DEF PollAgain, TypeOK
      <3>2. notified' \in BOOLEAN /\ mBlocked' \in BOOLEAN
        BY <2>2 DEF PollAgain, TypeOK
      <3>3. npc' = "enter" /\ deadline' = 0 /\ UNCHANGED <<ret, listVars>>
        BY <2>2 DEF PollAgain
      <3> QED
        BY <1>6, <3>1, <3>2, <3>3 DEF TypeOK, ReturnedHasMessage
    <2> QED
      BY <1>4, <1>6, <2>1, <2>2 DEF Examine
  <1>7. ASSUME npc # "returned", ExamineAfterTimed PROVE Kept
    BY <1>4, <1>6, <1>7 DEF ExamineAfterTimed
  <1>8. RoundTimeout \in Int
    BY DEF RoundTimeout, TypeOK
  <1>9. ASSUME npc \in {"wait", "timed"}, WakeUp PROVE TypeInv'
    <2>1. CASE Windows /\ UNCHANGED <<timeout, ret, listVars, mBlocked>>
               /\ deadline' = 0 /\ notified' = FALSE
               /\ npc' = IF npc = "wait" THEN "unlocked" ELSE "relock"
      <3>1. notified' \in BOOLEAN
        BY <2>1
      <3>2. Kept
        BY <1>9, <2>1, <3>1 DEF TypeOK, ReturnedHasMessage
      <3> QED
        BY <1>3, <1>9, <3>2 DEF WakeUp
    <2> HIDE DEF Kept
    <2>2. -1 \in Int
      OBVIOUS
    <2> QED
      BY <1>3, <1>5, <1>6, <1>7, <1>9, <2>1, <2>2 DEF WakeUp
  <1> HIDE DEF Kept
  <1>10. CASE NextQuit
    BY <1>3, <1>4, <1>10 DEF NextQuit
  <1>11. CASE NextEnterPosix
    BY <1>3, <1>5, <1>6, <1>8, <1>11 DEF NextEnterPosix
  <1>12. CASE NextEnterWindows
    BY <1>8, <1>12 DEF NextEnterWindows, QuietNext, TypeOK, ReturnedHasMessage
  <1>13. CASE NextUnlocked
    BY <1>13 DEF NextUnlocked, QuietNext, TypeOK, ReturnedHasMessage
  <1>14. CASE NextToSleep
    BY <1>3, <1>5, <1>14 DEF NextToSleep, TypeOK
  <1>15. CASE NextRelock
    BY <1>3, <1>7, <1>15 DEF NextRelock
  <1>16. CASE NextNotified \/ NextTimedOut \/ NextSpurious
    BY <1>9, <1>16 DEF NextNotified, NextTimedOut, NextSpurious
  <1> QED
    BY <1>1, <1>2, <1>10, <1>11, <1>12, <1>13, <1>14, <1>15, <1>16 DEF NextStep

\* Every step of the queue keeps the types.
LEMMA NextKeepsType == TypeInv /\ [Next]_vars => TypeInv'
  <1> SUFFICES ASSUME TypeInv, [Next]_vars PROVE TypeInv'
    OBVIOUS
  <1>1. CASE ClientStep
    BY <1>1, ObtainKeepsType, HeldKeepsType, SendKeepsType, EnqueueKeepsType,
       RemoveKeepsType, SweepKeepsType, ControlKeepsType DEF ClientStep
  <1>2. CASE UNCHANGED vars
    BY <1>2 DEF vars, TypeInv, TypeOK, ReturnedHasMessage
  <1> QED
    BY <1>1, <1>2, ControlKeepsType, LooperKeepsType DEF Next, Stopped

LEMMA InitType == Init => TypeInv
  <1> SUFFICES ASSUME Init PROVE TypeInv
    OBVIOUS
  <1>1. /\ mMsgPoolIsFull \in BOOLEAN /\ mBlocked \in BOOLEAN
        /\ mQuit \in BOOLEAN /\ mNotEnqueMsg \in BOOLEAN
        /\ notified \in BOOLEAN
    BY DEF Init
  <1> QED
    BY <1>1, NewMsgType DEF Init, TypeInv, TypeOK, ReturnedHasMessage

\* The variables of the queue always have their types, for any number of
\* messages, handlers and client threads, any pool size and either platform.
THEOREM TypeCorrect == Spec => []TypeOK
  BY InitType, NextKeepsType, PTL DEF Spec, TypeInv

-----------------------------------------------------------------------------
(* No lost wakeup *)

\* next() sleeps without a timeout on the strength of mBlocked alone.  On
\* POSIX the flag, the list and the sleep are under one lock, so the flag is
\* right whenever the looper sleeps on it; on Windows only the first half of
\* the invariant holds.
PosixLocations == ~Windows => npc \notin {"unlocked", "tosleep", "relock"}
WakeupInv == BlockedMeansIdle /\ PosixLocations /\ (~Windows => NoLostWakeup)

\* Steps that neither close the queue nor touch what next() sleeps on.
LEMMA QuietKeepsWakeup ==
  ASSUME TypeInv, WakeupInv,
         UNCHANGED <<mBlocked, mQuit, mNotEnqueMsg, npc, notified>>,
         mMsgQueue' = mMsgQueue \/ mMsgQueue # <<>>
  PROVE  WakeupInv'
  BY DEF WakeupInv, BlockedMeansIdle, NoLostWakeup, PosixLocations

\* Steps that notify: enqueueMessage and quit.
LEMMA NotifyKeepsWakeup ==
  ASSUME TypeInv, WakeupInv, mBlocked' = FALSE, NotifyAll, npc' = npc
  PROVE  WakeupInv'
  <1>1. ~mBlocked'
    OBVIOUS
  <1>2. BlockedMeansIdle'
    BY <1>1 DEF BlockedMeansIdle
  <1>3. NoLostWakeup'
    BY DEF NoLostWakeup, NotifyAll
  <1> QED
    BY <1>2, <1>3 DEF WakeupInv, PosixLocations

LEMMA ClientKeepsWakeup == TypeInv /\ WakeupInv /\ ClientStep => WakeupInv'
  <1> SUFFICES ASSUME TypeInv, WakeupInv, ClientStep PROVE WakeupInv'
    OBVIOUS
  <1> DEFINE Quiet == /\ UNCHANGED <<mBlocked, mQuit, mNotEnqueMsg, npc, notified>>
                      /\ mMsgQueue' = mMsgQueue \/ mMsgQueue # <<>>
  <1>1. CASE ObtainStep
    <2>1. Quiet
      BY <1>1 DEF ObtainStep, ObtainPooled, ObtainNew
    <2> QED
      BY <2>1, QuietKeepsWakeup
  <1>2. CASE \E m \in held : MakeInUse(m) \/ recycle(m) \/ Discard(m) \/ removeMessage(m)
    <2>1. Quiet
      BY <1>2 DEF MakeInUse, recycle, Discard, removeMessage
    <2> QED
      BY <2>1, QuietKeepsWakeup
  <1>3. CASE \E s \in Senders, m \in held : SendStep(s, m)
    <2>1. Quiet
      BY <1>3 DEF SendStep, sendMessageDelayed, sendMessageAtFrontOfQueue,
         postAtTime, sendMessageAtTime
    <2> QED
      BY <2>1, QuietKeepsWakeup
  <1>4. CASE \E s \in Senders : RejectMessage(s) \/ RefuseMessage(s)
    <2>1. Quiet
      BY <1>4 DEF RejectMessage, RefuseMessage
    <2> QED
      BY <2>1, QuietKeepsWakeup
  <1>5. CASE \E s \in Senders : enqueueMessage(s)
    BY <1>5, NotifyKeepsWakeup DEF enqueueMessage
  <1>6. CASE \E h \in Handlers \cup {NULL} : RemoveStep(h)
    <2>1. ASSUME NEW C, NEW h, UnlinkFirstMatch(C, h)
          PROVE  Quiet
      <3>1. mMsgQueue # <<>>
        BY <2>1 DEF UnlinkFirstMatch
      <3> QED
        BY <2>1, <3>1 DEF UnlinkFirstMatch
    <2>2. ASSUME NEW h, removeAllMessages(h)
          PROVE  Quiet
      BY <2>2 DEF removeAllMessages
    <2> HIDE DEF Quiet
    <2>3. Quiet
      BY <1>6, <2>1, <2>2 DEF RemoveStep, removeMessageRunnable,
         removeMessageWhat, removeMessageRangeRunnable,
         removeMessageArgsRunnable, removeMessageCallback,
         removeMessageWhatCallback, removeMessageRangeCallback,
         removeMessageArgsCallback
    <2> QED
      BY <2>3, QuietKeepsWakeup DEF Quiet
  <1>7. CASE SweepStep
    <2>1. Quiet
      <3>1. CASE SweepRemove
        <4>1. mMsgQueue # <<>>
          BY <3>1 DEF SweepRemove, TypeInv, TypeOK
        <4> QED
          BY <3>1, <4>1 DEF SweepRemove
      <3> QED
        BY <1>7, <3>1 DEF SweepStep, SweepKeep, SweepFault, SweepEnd
    <2> QED
      BY <2>1, QuietKeepsWakeup
  <1>8. CASE \E t \in OutTimes : setTestOutTimeMillisExit(t)
    <2>1. Quiet
      BY <1>8 DEF setTestOutTimeMillisExit
    <2> QED
      BY <2>1, QuietKeepsWakeup
  <1> QED
    BY <1>1, <1>2, <1>3, <1>4, <1>5, <1>6, <1>7, <1>8 DEF ClientStep, EnqueueStep

LEMMA LooperKeepsWakeup ==
  ASSUME TypeInv, WakeupInv, CallNext \/ NextStep \/ NextSpurious \/ Recycle
  PROVE  WakeupInv'
  <1> DEFINE Kept == /\ mMsgQueue' = mMsgQueue \/ mMsgQueue # <<>>
                     /\ mBlocked' => \/ mBlocked
                                     \/ mMsgQueue' = <<>> /\ ~mQuit /\ ~mNotEnqueMsg
                     /\ ~Windows => /\ npc' \notin {"unlocked", "tosleep", "relock"}
                                    /\ npc' = "wait" => mBlocked'
  <1>1. ASSUME UNCHANGED <<mQuit, mNotEnqueMsg>>, Kept PROVE WakeupInv'
    BY <1>1 DEF WakeupInv, BlockedMeansIdle, NoLostWakeup, PosixLocations
  <1>2. ASSUME ReturnNull PROVE Kept
    BY <1>2 DEF ReturnNull
  <1>3. ASSUME NEW t, ~Windows /\ t = -1 => mBlocked, Sleep(t) PROVE Kept
    BY <1>3 DEF Sleep
  <1>4. ASSUME Examine PROVE Kept
    <2>1. CASE TakeHead
      BY <2>1 DEF TakeHead
    <2>2. CASE PollAgain
      BY <2>2 DEF PollAgain
    <2> QED
      BY <1>2, <1>4, <2>1, <2>2 DEF Examine
  <1>5. CASE CallNext
    <2>1. Kept /\ UNCHANGED <<mQuit, mNotEnqueMsg>>
      BY <1>5 DEF CallNext, QuietNext
    <2> QED
      BY <1>1, <2>1
  <1>6. CASE Recycle
    <2>1. Kept /\ UNCHANGED <<mQuit, mNotEnqueMsg>>
      BY <1>6 DEF Recycle
    <2> QED
      BY <1>1, <2>1
  <1>7. CASE Windows /\ ~(CallNext \/ Recycle)
    \* Only BlockedMeansIdle is at stake: mBlocked is set by PollAgain alone.
    <2>1. ASSUME UNCHANGED <<listVars, mBlocked>> PROVE Kept
      BY <1>7, <2>1
    <2>2. ASSUME ExamineAfterTimed PROVE Kept
      BY <1>2, <1>4, <2>2 DEF ExamineAfterTimed
    <2>3. ASSUME WakeUp PROVE Kept
      BY <1>7, <2>1, <2>3 DEF WakeUp
    <2> HIDE DEF Kept
    <2>4. Kept
      BY <1>2, <1>7, <2>1, <2>2, <2>3 DEF NextStep, NextQuit, NextEnterPosix,
         NextEnterWindows, NextUnlocked, NextToSleep, Sleep, NextRelock,
         NextNotified, NextTimedOut, NextSpurious
    <2>5. UNCHANGED <<mQuit, mNotEnqueMsg>>
      BY <1>7 DEF NextStep, NextQuit, NextEnterPosix, NextEnterWindows,
         NextUnlocked, NextToSleep, NextRelock, NextNotified, NextTimedOut,
         NextSpurious, WakeUp, QuietNext
    <2> QED
      BY <1>1, <2>4, <2>5
  <1>8. CASE ~Windows /\ ~(CallNext \/ Recycle)
    <2>1. NextQuit \/ NextEnterPosix \/ NextNotified \/ NextTimedOut \/ NextSpurious
      BY <1>8 DEF NextStep, NextEnterWindows, NextUnlocked, NextToSleep,
         NextRelock, WakeupInv, PosixLocations
    <2>2. ASSUME ExamineAfterTimed PROVE Kept
      BY <1>2, <1>4, <2>2 DEF ExamineAfterTimed
    <2>3. ASSUME RoundTimeout > 0 PROVE RoundTimeout # -1
      BY <2>3 DEF RoundTimeout, TypeInv, TypeOK
    <2> HIDE DEF Kept
    <2>4. ASSUME WakeUp PROVE Kept
      BY <1>3, <1>4, <1>8, <2>2, <2>4 DEF WakeUp
    <2>5. Kept
      BY <1>2, <1>3, <1>4, <2>1, <2>3, <2>4
         DEF NextQuit, NextEnterPosix, NextNotified, NextTimedOut, NextSpurious
    <2>6. UNCHANGED <<mQuit, mNotEnqueMsg>>
      BY <2>1 DEF NextQuit, NextEnterPosix, NextNotified, NextTimedOut,
         NextSpurious, WakeUp, QuietNext
    <2> QED
      BY <1>1, <2>5, <2>6
  <1> QED
    BY <1>5, <1>6, <1>7, <1>8

LEMMA NextKeepsWakeup == TypeInv /\ WakeupInv /\ [Next]_vars => WakeupInv'
  <1> SUFFICES ASSUME TypeInv, WakeupInv, [Next]_vars PROVE WakeupInv'
    OBVIOUS
  <1>1. CASE \E safely \in BOOLEAN : quit(safely)
    BY <1>1, NotifyKeepsWakeup DEF quit
  <1>2. CASE Destroy
    <2>1. ~mBlocked' /\ npc = "idle" /\ npc' = npc
      BY <1>2 DEF Destroy
    <2> QED
      BY <2>1 DEF WakeupInv, BlockedMeansIdle, NoLostWakeup, PosixLocations
  <1>3. CASE Tick
    BY <1>3, QuietKeepsWakeup DEF Tick
  <1>4. CASE UNCHANGED vars
    BY <1>4, QuietKeepsWakeup DEF vars
  <1> QED
    BY <1>1, <1>2, <1>3, <1>4, ClientKeepsWakeup, LooperKeepsWakeup
       DEF Next, Stopped

\* WakeupInv holds in every state of every instance.
LEMMA WakeupInvariant == Spec => []WakeupInv
  <1>1. ASSUME Init PROVE TypeInv /\ WakeupInv
    BY <1>1, InitType
       DEF Init, WakeupInv, BlockedMeansIdle, NoLostWakeup, PosixLocations
  <1> QED
    BY <1>1, NextKeepsType, NextKeepsWakeup, PTL DEF Spec

\* mBlocked is set only while the list is empty and no quit is pending, on
\* both platforms.
THEOREM BlockedIsIdle == Spec => []BlockedMeansIdle
  BY WakeupInvariant, PTL DEF WakeupInv

\* On POSIX no enqueueMessage and no quit is lost by a looper that goes to
\* sleep, whatever the number of threads and messages.
THEOREM PosixNoLostWakeup ==
  ASSUME ~Windows
  PROVE  Spec => []NoLostWakeup
  <1>1. WakeupInv => NoLostWakeup
    BY DEF WakeupInv
  <1> QED
    BY <1>1, WakeupInvariant, PTL

-----------------------------------------------------------------------------
(* A closed queue *)

LEMMA ConcatType ==
  ASSUME NEW S, NEW a \in Seq(S), NEW b \in Seq(S)
  PROVE  a \o b \in Seq(S) /\ Len(a \o b) = Len(a) + Len(b)
  OBVIOUS

\* The list without its k-th node.
LEMMA RemoveElements ==
  ASSUME NEW q \in Seq(Msgs), NEW k \in 1 .. Len(q)
  PROVE  /\ RemoveAt(q, k) \in Seq(Msgs) /\ Len(RemoveAt(q, k)) = Len(q) - 1
         /\ \A i \in 1 .. Len(q) - 1 :
              RemoveAt(q, k)[i] = IF i < k THEN q[i] ELSE q[i + 1]
  <1> DEFINE a == SubSeq(q, 1, k - 1)
             b == SubSeq(q, k + 1, Len(q))
  <1>0. Len(q) \in Nat /\ k \in Nat /\ k >= 1 /\ k <= Len(q)
    OBVIOUS
  <1>1. a \in Seq(Msgs) /\ Len(a) = k - 1 /\ \A i \in 1 .. k - 1 : a[i] = q[i]
    OBVIOUS
  <1>2. /\ b \in Seq(Msgs) /\ Len(b) = Len(q) - k
        /\ \A i \in 1 .. Len(q) - k : b[i] = q[i + k]
    OBVIOUS
  <1>3. RemoveAt(q, k) = a \o b
    BY DEF RemoveAt
  <1> HIDE DEF a, b
  <1>4. Len(a \o b) = Len(q) - 1 /\ a \o b \in Seq(Msgs)
    <2>1. a \o b \in Seq(Msgs) /\ Len(a \o b) = Len(a) + Len(b)
      BY <1>1, <1>2, ConcatType
    <2> QED
      BY <1>0, <1>1, <1>2, <2>1
  <1>5. ASSUME NEW i \in 1 .. Len(q) - 1
        PROVE  (a \o b)[i] = IF i < k THEN q[i] ELSE q[i + 1]
    <2>1. CASE i < k
      BY <1>1, <1>2, <2>1
    <2>2. CASE i >= k
      <3>1. (a \o b)[i] = b[i - (k - 1)]
        BY <1>1, <1>2, <2>2
      <3>2. i - (k - 1) \in 1 .. Len(q) - k /\ i - (k - 1) + k = i + 1
        BY <2>2
      <3> QED
        BY <1>2, <2>2, <3>1, <3>2
    <2>3. i < k \/ i >= k
      BY <1>0
    <2> QED
      BY <2>1, <2>2, <2>3
  <1> QED
    BY <1>3, <1>4, <1>5

\* Unlinking a node and taking the head leave no new message in the list.
LEMMA UnlinkShrinks ==
  ASSUME TypeInv, NEW k \in DOMAIN mMsgQueue, Unlink(k)
  PROVE  ToSet(mMsgQueue') \subseteq ToSet(mMsgQueue)
  <1>1. mMsgQueue \in Seq(Msgs) /\ k \in 1 .. Len(mMsgQueue)
    BY DEF TypeInv, TypeOK
  <1>2. /\ mMsgQueue' \in Seq(Msgs) /\ Len(mMsgQueue') = Len(mMsgQueue) - 1
        /\ \A i \in 1 .. Len(mMsgQueue) - 1 :
             mMsgQueue'[i] = IF i < k THEN mMsgQueue[i] ELSE mMsgQueue[i + 1]
    BY <1>1, RemoveElements DEF Unlink
  <1> QED
    BY <1>1, <1>2 DEF ToSet

LEMMA TakeHeadShrinks ==
  ASSUME TypeInv, TakeHead
  PROVE  ToSet(mMsgQueue') \subseteq ToSet(mMsgQueue)
  BY DEF TakeHead, TypeInv, TypeOK, ToSet

\* What a step may do to the flags and to the list: nothing but shrink the
\* list, close the queue, or anything as long as the queue is open.
Shrinks == ToSet(mMsgQueue') \subseteq ToSet(mMsgQueue)
KeepsFlags == UNCHANGED <<mQuit, mNotEnqueMsg>>
ListStep ==
  \/ KeepsFlags /\ Shrinks
  \/ ~mQuit /\ ~mNotEnqueMsg
  \/ (mQuit' \/ mNotEnqueMsg') /\ Shrinks

LEMMA ClientListStep == TypeInv /\ ClientStep => ListStep
  <1> SUFFICES ASSUME TypeInv, ClientStep PROVE ListStep
    OBVIOUS
  <1>0. ASSUME UNCHANGED <<mMsgQueue, mQuit, mNotEnqueMsg>> PROVE ListStep
    BY <1>0 DEF ListStep, Shrinks, KeepsFlags
  <1>1. CASE ObtainStep
    BY <1>0, <1>1 DEF ObtainStep, ObtainPooled, ObtainNew, listVars, flagVars
  <1>2. CASE \E m \in held : MakeInUse(m) \/ recycle(m) \/ Discard(m) \/ removeMessage(m)
    BY <1>0, <1>2 DEF MakeInUse, recycle, Discard, removeMessage, listVars, flagVars
  <1>3. CASE \E s \in Senders, m \in held : SendStep(s, m)
    BY <1>0, <1>3 DEF SendStep, sendMessageDelayed, sendMessageAtFrontOfQueue,
       postAtTime, sendMessageAtTime, listVars, flagVars
  <1>4. CASE \E s \in Senders : EnqueueStep(s)
    BY <1>0, <1>4 DEF EnqueueStep, RejectMessage, RefuseMessage,
       enqueueMessage, Refuses, ListStep, listVars, flagVars
  <1>5. ASSUME NEW C, NEW h, UnlinkFirstMatch(C, h)
        PROVE  ListStep
    <2>1. Shrinks
      BY <1>5, UnlinkShrinks DEF UnlinkFirstMatch, Shrinks
    <2> QED
      BY <1>5, <2>1 DEF UnlinkFirstMatch, ListStep, KeepsFlags, flagVars
  <1>6. ASSUME NEW h, removeAllMessages(h)
        PROVE  ListStep
    BY <1>0, <1>6 DEF removeAllMessages, listVars, flagVars
  <1>7. CASE \E h \in Handlers \cup {NULL} : RemoveStep(h)
    BY <1>5, <1>6, <1>7 DEF RemoveStep, removeMessageRunnable,
       removeMessageWhat, removeMessageRangeRunnable,
       removeMessageArgsRunnable, removeMessageCallback,
       removeMessageWhatCallback, removeMessageRangeCallback,
       removeMessageArgsCallback
  <1>8. CASE SweepRemove
    <2>1. sweep.k \in DOMAIN mMsgQueue
      BY <1>8 DEF SweepRemove, TypeInv, TypeOK
    <2>2. Shrinks
      BY <1>8, <2>1, UnlinkShrinks DEF SweepRemove, Shrinks
    <2> QED
      BY <1>8, <2>2 DEF SweepRemove, ListStep, KeepsFlags, flagVars
  <1>9. CASE SweepKeep \/ SweepFault \/ SweepEnd
    BY <1>0, <1>9 DEF SweepKeep, SweepFault, SweepEnd, listVars, flagVars
  <1>10. CASE \E t \in OutTimes : setTestOutTimeMillisExit(t)
    BY <1>0, <1>10 DEF setTestOutTimeMillisExit, listVars, flagVars
  <1> QED
    BY <1>1, <1>2, <1>3, <1>4, <1>7, <1>8, <1>9, <1>10 DEF ClientStep, SweepStep

LEMMA LooperListStep ==
  ASSUME TypeInv, CallNext \/ NextStep \/ NextSpurious \/ Recycle
  PROVE  ListStep
  <1>1. KeepsFlags
    BY DEF CallNext, NextStep, NextQuit, NextEnterPosix, NextEnterWindows,
       NextUnlocked, NextToSleep, NextRelock, NextNotified, NextTimedOut,
       NextSpurious, WakeUp, Recycle, QuietNext, KeepsFlags, flagVars
  <1>2. ASSUME UNCHANGED listVars PROVE Shrinks
    BY <1>2 DEF listVars, Shrinks
  <1>3. ASSUME ReturnNull PROVE Shrinks
    BY <1>2, <1>3 DEF ReturnNull
  <1>4. ASSUME Examine PROVE Shrinks
    <2>1. ASSUME PollAgain PROVE Shrinks
      BY <1>2, <2>1 DEF PollAgain
    <2>2. ASSUME TakeHead PROVE Shrinks
      BY <2>2, TakeHeadShrinks DEF Shrinks
    <2> QED
      BY <1>3, <1>4, <2>1, <2>2 DEF Examine
  <1>5. ASSUME ExamineAfterTimed PROVE Shrinks
    BY <1>3, <1>4, <1>5 DEF ExamineAfterTimed
  <1>6. ASSUME NEW t, Sleep(t) PROVE Shrinks
    BY <1>2, <1>6 DEF Sleep
  <1>7. ASSUME WakeUp PROVE Shrinks
    BY <1>2, <1>4, <1>5, <1>6, <1>7 DEF WakeUp
  <1>8. Shrinks
    BY <1>2, <1>3, <1>4, <1>5, <1>6, <1>7 DEF CallNext, NextStep, NextQuit,
       NextEnterPosix, NextEnterWindows, NextUnlocked, NextToSleep,
       NextRelock, NextNotified, NextTimedOut, NextSpurious, Recycle
  <1> QED
    BY <1>1, <1>8 DEF ListStep

LEMMA NextListStep == TypeInv /\ [Next]_vars => ListStep
  <1> SUFFICES ASSUME TypeInv, [Next]_vars PROVE ListStep
    OBVIOUS
  <1>1. ASSUME mMsgQueue' = <<>> PROVE Shrinks
    BY <1>1 DEF Shrinks, ToSet
  <1>2. ASSUME NEW safely, quit(safely) PROVE ListStep
    <2>1. CASE mNotEnqueMsg' = TRUE /\ UNCHANGED listVars
      BY <2>1 DEF ListStep, Shrinks, listVars
    <2>2. CASE mMsgQueue' = <<>> /\ mQuit' = TRUE
      BY <1>1, <2>2 DEF ListStep
    <2> QED
      BY <1>2, <2>1, <2>2 DEF quit
  <1>3. CASE Destroy
    BY <1>1, <1>3 DEF Destroy, ListStep
  <1>4. CASE Tick \/ UNCHANGED vars
    BY <1>4 DEF Tick, vars, listVars, flagVars, ListStep, Shrinks, KeepsFlags
  <1> QED
    BY <1>2, <1>3, <1>4, ClientListStep, LooperListStep DEF Next, Stopped

\* A queue that has been closed, safely or not, stays closed and accepts no
\* message any more, whatever calls were in flight when it was closed.
THEOREM ClosedStaysClosed == Spec => ClosedForGood
  <1>1. TypeInv /\ [Next]_vars => [ClosedStep]_vars
    BY NextListStep DEF ListStep, KeepsFlags, Shrinks, ClosedStep
  <1> QED
    BY <1>1, InitType, NextKeepsType, PTL DEF Spec, ClosedForGood

(* Lists of messages: how links and unlinks change members and positions *)

\* List r is list q with message m put in at place k.
Inserted(q, r, k, m) ==
  /\ r \in Seq(Msgs) /\ Len(r) = Len(q) + 1
  /\ \A i \in 1 .. Len(q) + 1 :
       r[i] = IF i < k THEN q[i] ELSE IF i = k THEN m ELSE q[i - 1]

\* List r is list q without its k-th message.
Removed(q, r, k) ==
  /\ r \in Seq(Msgs) /\ Len(r) = Len(q) - 1
  /\ \A i \in 1 .. Len(q) - 1 : r[i] = IF i < k THEN q[i] ELSE q[i + 1]

\* InsertAt (the middle insertion of enqueueMessage) shifts the rest by one.
LEMMA InsertElements ==
  ASSUME NEW q \in Seq(Msgs), NEW m \in Msgs, NEW k \in 1 .. Len(q) + 1
  PROVE  Inserted(q, InsertAt(q, k, m), k, m)
  <1> DEFINE a == SubSeq(q, 1, k - 1)
             b == SubSeq(q, k, Len(q))
             am == a \o <<m>>
  <1>0. Len(q) \in Nat /\ k \in Nat /\ k >= 1 /\ k <= Len(q) + 1
    OBVIOUS
  <1>1. a \in Seq(Msgs) /\ Len(a) = k - 1 /\ \A i \in 1 .. k - 1 : a[i] = q[i]
    OBVIOUS
  <1>2. /\ b \in Seq(Msgs) /\ Len(b) = Len(q) - k + 1
        /\ \A i \in 1 .. Len(q) - k + 1 : b[i] = q[i + k - 1]
    OBVIOUS
  <1>3. InsertAt(q, k, m) = am \o b
    BY DEF InsertAt
  <1> HIDE DEF a, b
  <1>4. /\ am \in Seq(Msgs) /\ Len(am) = k
        /\ \A i \in 1 .. k - 1 : am[i] = q[i]
        /\ am[k] = m
    BY <1>0, <1>1
  <1> HIDE DEF am
  <1>5. am \o b \in Seq(Msgs) /\ Len(am \o b) = Len(q) + 1
    <2>1. am \o b \in Seq(Msgs) /\ Len(am \o b) = Len(am) + Len(b)
      BY <1>2, <1>4, ConcatType
    <2> QED
      BY <1>0, <1>2, <1>4, <2>1
  <1>6. ASSUME NEW i \in 1 .. Len(q) + 1
        PROVE  (am \o b)[i] = IF i < k THEN q[i] ELSE IF i = k THEN m ELSE q[i - 1]
    <2>1. CASE i <= k
      BY <1>0, <1>2, <1>4, <2>1
    <2>2. CASE i > k
      <3>1. (am \o b)[i] = b[i - k]
        BY <1>0, <1>2, <1>4, <2>2
      <3>2. i - k \in 1 .. Len(q) - k + 1 /\ (i - k) + k - 1 = i - 1
        BY <1>0, <2>2
      <3> QED
        BY <1>0, <1>2, <2>2, <3>1, <3>2
    <2>3. i <= k \/ i > k
      BY <1>0
    <2> QED
      BY <2>1, <2>2, <2>3
  <1> QED
    BY <1>3, <1>5, <1>6 DEF Inserted

\* Linking at the front and appending are insertions too.
LEMMA LinkElements ==
  ASSUME NEW q \in Seq(Msgs), NEW m \in Msgs
  PROVE  /\ Inserted(q, <<m>> \o q, 1, m)
         /\ Inserted(q, Append(q, m), Len(q) + 1, m)
         /\ Len(q) + 1 \in 1 .. Len(q) + 1 /\ 1 \in 1 .. Len(q) + 1
  <1>1. <<m>> \in Seq(Msgs) /\ Len(<<m>>) = 1 /\ <<m>>[1] = m /\ Len(q) \in Nat
    OBVIOUS
  <1>2. Inserted(q, <<m>> \o q, 1, m)
    BY <1>1 DEF Inserted
  <1>3. Inserted(q, Append(q, m), Len(q) + 1, m)
    BY <1>1 DEF Inserted
  <1> QED
    BY <1>1, <1>2, <1>3

\* Taking the head is the removal of element 1.
LEMMA TailElements ==
  ASSUME NEW q \in Seq(Msgs), q # <<>>
  PROVE  Removed(q, Tail(q), 1) /\ 1 \in 1 .. Len(q) /\ Head(q) = q[1]
  BY DEF Removed

\* An insertion adds one element, and no duplicate if it is a new one.
LEMMA InsertedMembers ==
  ASSUME NEW q \in Seq(Msgs), NEW r, NEW m \in Msgs, NEW k \in 1 .. Len(q) + 1,
         Inserted(q, r, k, m)
  PROVE  /\ ToSet(r) = ToSet(q) \cup {m}
         /\ IsInjective(q) /\ m \notin ToSet(q) => IsInjective(r)
  <1>0. /\ DOMAIN q = 1 .. Len(q) /\ DOMAIN r = 1 .. Len(q) + 1 /\ Len(q) \in Nat
        /\ k \in Nat /\ k >= 1 /\ k <= Len(q) + 1
    BY DEF Inserted
  <1>1. ASSUME NEW i \in 1 .. Len(q) PROVE q[i] \in ToSet(r)
    <2>1. i \in Nat /\ i + 1 \in 1 .. Len(q) + 1 /\ i \in 1 .. Len(q) + 1
      BY <1>0
    <2>2. CASE i < k
      BY <1>0, <2>1, <2>2 DEF Inserted, ToSet
    <2>3. CASE i >= k
      <3>1. r[i + 1] = q[i]
        BY <1>0, <2>1, <2>3 DEF Inserted
      <3> QED
        BY <1>0, <2>1, <3>1 DEF ToSet
    <2> QED
      BY <1>0, <2>1, <2>2, <2>3
  <1>2. m \in ToSet(r)
    BY <1>0 DEF Inserted, ToSet
  <1>3. ASSUME NEW i \in 1 .. Len(q) + 1 PROVE r[i] \in ToSet(q) \cup {m}
    <2>1. r[i] = IF i < k THEN q[i] ELSE IF i = k THEN m ELSE q[i - 1]
      BY DEF Inserted
    <2>2. /\ i < k => i \in 1 .. Len(q)
          /\ i > k => i - 1 \in 1 .. Len(q)
          /\ i < k \/ i = k \/ i > k
      BY <1>0
    <2> QED
      BY <1>0, <2>1, <2>2 DEF ToSet
  <1>4. ToSet(r) = ToSet(q) \cup {m}
    BY <1>0, <1>1, <1>2, <1>3 DEF ToSet
  <1>5. ASSUME IsInjective(q), m \notin ToSet(q),
               NEW i \in 1 .. Len(q) + 1, NEW j \in 1 .. Len(q) + 1, r[i] = r[j]
        PROVE  i = j
    <2>1. \A x, y \in 1 .. Len(q) : q[x] = q[y] => x = y
      BY <1>0, <1>5 DEF IsInjective
    <2>2. \A x \in 1 .. Len(q) : q[x] # m
      BY <1>0, <1>5 DEF ToSet
    <2>3. /\ (i < k => r[i] = q[i]) /\ (i = k => r[i] = m) /\ (i > k => r[i] = q[i - 1])
          /\ (j < k => r[j] = q[j]) /\ (j = k => r[j] = m) /\ (j > k => r[j] = q[j - 1])
      BY <1>0 DEF Inserted
    <2>4. /\ i < k => i \in 1 .. Len(q)
          /\ i > k => i - 1 \in 1 .. Len(q)
          /\ j < k => j \in 1 .. Len(q)
          /\ j > k => j - 1 \in 1 .. Len(q)
          /\ i < k \/ i = k \/ i > k
          /\ j < k \/ j = k \/ j > k
      BY <1>0
    <2>5. CASE i = k \/ j = k
      BY <1>0, <1>5, <2>2, <2>3, <2>4, <2>5
    <2>6. CASE i # k /\ j # k
      <3>1. PICK x \in 1 .. Len(q) : r[i] = q[x] /\ x = IF i < k THEN i ELSE i - 1
        BY <2>3, <2>4, <2>6
      <3>2. PICK y \in 1 .. Len(q) : r[j] = q[y] /\ y = IF j < k THEN j ELSE j - 1
        BY <2>3, <2>4, <2>6
      <3>3. x = y
        BY <1>5, <2>1, <3>1, <3>2
      <3> QED
        BY <1>0, <2>6, <3>1, <3>2, <3>3
    <2> QED
      BY <2>5, <2>6
  <1> QED
    BY <1>0, <1>4, <1>5 DEF IsInjective

\* A removal from a list without duplicates takes exactly that element out.
LEMMA RemovedMembers ==
  ASSUME NEW q \in Seq(Msgs), NEW r, NEW k \in 1 .. Len(q),
         Removed(q, r, k), IsInjective(q)
  PROVE  /\ ToSet(r) = ToSet(q) \ {q[k]}
         /\ IsInjective(r)
  <1>0. /\ DOMAIN q = 1 .. Len(q) /\ DOMAIN r = 1 .. Len(q) - 1 /\ Len(q) \in Nat
        /\ k \in Nat /\ k >= 1 /\ k <= Len(q)
    BY DEF Removed
  <1>1. \A x, y \in 1 .. Len(q) : q[x] = q[y] => x = y
    BY <1>0 DEF IsInjective
  <1>2. ASSUME NEW i \in 1 .. Len(q), i # k PROVE q[i] \in ToSet(r)
    <2>1. CASE i < k
      <3>1. i \in 1 .. Len(q) - 1 /\ r[i] = q[i]
        BY <1>0, <2>1 DEF Removed
      <3> QED
        BY <1>0, <3>1 DEF ToSet
    <2>2. CASE i > k
      <3>1. i - 1 \in 1 .. Len(q) - 1 /\ r[i - 1] = q[i]
        BY <1>0, <2>2 DEF Removed
      <3> QED
        BY <1>0, <3>1 DEF ToSet
    <2> QED
      BY <1>0, <1>2, <2>1, <2>2
  <1>3. ASSUME NEW i \in 1 .. Len(q) - 1 PROVE r[i] \in ToSet(q) \ {q[k]}
    <2>1. i \in 1 .. Len(q) /\ i + 1 \in 1 .. Len(q)
      BY <1>0
    <2>2. r[i] = IF i < k THEN q[i] ELSE q[i + 1]
      BY DEF Removed
    <2>3. r[i] # q[k]
      BY <1>0, <1>1, <2>1, <2>2
    <2> QED
      BY <1>0, <2>1, <2>2, <2>3 DEF ToSet
  <1>4. ToSet(r) = ToSet(q) \ {q[k]}
    BY <1>0, <1>2, <1>3 DEF ToSet
  <1>5. ASSUME NEW i \in 1 .. Len(q) - 1, NEW j \in 1 .. Len(q) - 1, r[i] = r[j]
        PROVE  i = j
    BY <1>0, <1>1, <1>5 DEF Removed
  <1> QED
    BY <1>0, <1>4, <1>5 DEF IsInjective

-----------------------------------------------------------------------------
(* Every message has one owner *)

CallsApart ==
  \A s, u \in Senders : s # u /\ call[s] # NULL /\ call[u] # NULL
    => call[s].m # call[u].m

\* The five owners' messages are disjoint and make up what is allocated.
Parts(H, C, Q, P, R, L) ==
  /\ H \cap C = {} /\ H \cap Q = {} /\ H \cap P = {} /\ H \cap R = {}
  /\ C \cap Q = {} /\ C \cap P = {} /\ C \cap R = {}
  /\ Q \cap P = {} /\ Q \cap R = {} /\ P \cap R = {}
  /\ L = H \cup C \cup Q \cup P \cup R

\* SoleOwner says that the five owners partition the allocated messages.
LEMMA OwnersParts ==
  SoleOwner <=> /\ IsInjective(mMsgQueue) /\ IsInjective(mMsgPool) /\ CallsApart
                /\ Parts(held, InCall, ToSet(mMsgQueue), ToSet(mMsgPool), InRet, live)
  BY DEF SoleOwner, CallsApart, Parts

\* The same after the step.
LEMMA OwnersPartsNext ==
  SoleOwner' <=> /\ IsInjective(mMsgQueue') /\ IsInjective(mMsgPool') /\ CallsApart'
                 /\ Parts(held', InCall', ToSet(mMsgQueue'), ToSet(mMsgPool'), InRet', live')
  BY DEF SoleOwner, CallsApart, Parts

\* A call takes a message over, and ends.
LEMMA CallBegins ==
  ASSUME TypeInv, CallsApart, NEW s \in Senders, NEW m \in Msgs, NEW t \in Int,
         m \notin InCall, call[s] = NULL,
         call' = [call EXCEPT ![s] = [m |-> m, t |-> t]]
  PROVE  CallsApart' /\ InCall' = InCall \cup {m}
  <1>1. [m |-> m, t |-> t] # NULL
    BY NullRecordAssumption
  <1>2. /\ call'[s] = [m |-> m, t |-> t]
        /\ \A u \in Senders : u # s => call'[u] = call[u]
    BY DEF TypeInv, TypeOK
  <1>3. InCall' = InCall \cup {m}
    BY <1>1, <1>2 DEF InCall
  <1>4. \A u \in Senders : call[u] # NULL => call[u].m # m
    BY DEF InCall
  <1> QED
    BY <1>1, <1>2, <1>3, <1>4 DEF CallsApart

\* A call that returns gives its message up and no other.
LEMMA CallEnds ==
  ASSUME TypeInv, CallsApart, NEW s \in Senders, call[s] # NULL,
         call' = [call EXCEPT ![s] = NULL]
  PROVE  /\ CallsApart' /\ InCall' = InCall \ {call[s].m}
         /\ call[s].m \in InCall /\ call[s].m \in Msgs
  <1>1. /\ call'[s] = NULL
        /\ \A u \in Senders : u # s => call'[u] = call[u]
    BY DEF TypeInv, TypeOK
  <1>2. \A u \in Senders : u # s /\ call[u] # NULL => call[u].m # call[s].m
    BY DEF CallsApart
  <1>3. call[s].m \in InCall /\ call[s].m \in Msgs
    BY DEF InCall, TypeInv, TypeOK, Calls
  <1>4. InCall' = InCall \ {call[s].m}
    <2>1. InCall' = {call[u].m : u \in {x \in Senders \ {s} : call[x] # NULL}}
      BY <1>1 DEF InCall
    <2> QED
      BY <1>2, <2>1 DEF InCall
  <1> QED
    BY <1>1, <1>3, <1>4 DEF CallsApart

\* recycleMsg puts the message into the pool or deletes it.
Recycled(m) ==
  /\ IsInjective(mMsgPool')
  /\ \/ ToSet(mMsgPool') = ToSet(mMsgPool) /\ live' = live \ {m}
     \/ ToSet(mMsgPool') = ToSet(mMsgPool) \cup {m} /\ live' = live
  /\ \A x \in Msgs \ {m} : msg'[x] = msg[x]

\* recycleMsg moves a message nobody else owns into the pool or deletes it.
LEMMA RecycleOwners ==
  ASSUME TypeInv, IsInjective(mMsgPool),
         NEW m \in Msgs, m \notin ToSet(mMsgPool), recycleMsg(m)
  PROVE  Recycled(m)
  <1>0. mMsgPool \in Seq(Msgs) /\ msg \in [Msgs -> MsgRecords]
    BY DEF TypeInv, TypeOK
  <1>1. CASE Delete({m}) /\ UNCHANGED poolVars
    BY <1>1 DEF Delete, Recycled
  <1>2. CASE /\ msg' = [msg EXCEPT ![m] = recycleUnchecked(m)]
             /\ mMsgPool' = <<m>> \o mMsgPool /\ UNCHANGED live
    <2>1. /\ Inserted(mMsgPool, mMsgPool', 1, m) /\ 1 \in 1 .. Len(mMsgPool) + 1
      BY <1>0, <1>2, LinkElements
    <2>2. ToSet(mMsgPool') = ToSet(mMsgPool) \cup {m} /\ IsInjective(mMsgPool')
      BY <1>0, <2>1, InsertedMembers
    <2> QED
      BY <1>0, <1>2, <2>2 DEF Recycled
  <1> QED
    BY <1>1, <1>2 DEF recycleMsg

\* RECYCLEMIDDLE.
LEMMA UnlinkOwners ==
  ASSUME TypeInv, IsInjective(mMsgQueue), NEW k \in DOMAIN mMsgQueue, Unlink(k)
  PROVE  /\ k \in 1 .. Len(mMsgQueue) /\ Removed(mMsgQueue, mMsgQueue', k)
         /\ IsInjective(mMsgQueue')
         /\ ToSet(mMsgQueue') = ToSet(mMsgQueue) \ {mMsgQueue[k]}
         /\ mMsgQueue[k] \in ToSet(mMsgQueue) /\ mMsgQueue[k] \in Msgs
  <1>1. mMsgQueue \in Seq(Msgs) /\ k \in 1 .. Len(mMsgQueue)
    BY DEF TypeInv, TypeOK
  <1>2. Removed(mMsgQueue, mMsgQueue', k)
    BY <1>1, RemoveElements DEF Unlink, Removed
  <1>3. /\ ToSet(mMsgQueue') = ToSet(mMsgQueue) \ {mMsgQueue[k]}
        /\ IsInjective(mMsgQueue')
    BY <1>1, <1>2, RemovedMembers
  <1>4. mMsgQueue[k] \in ToSet(mMsgQueue) /\ mMsgQueue[k] \in Msgs
    BY <1>1 DEF ToSet
  <1> QED
    BY <1>1, <1>2, <1>3, <1>4

\* The messages of the sets by which SoleOwner is stated.
Owners == <<held, call, mMsgQueue, mMsgPool, ret, live>>

\* A step that moves no message keeps the owners.
LEMMA OwnersKept == SoleOwner /\ UNCHANGED Owners => SoleOwner'
  BY DEF SoleOwner, Owners, InCall, InRet

\* obtain() takes the pool's head or allocates: one owner gains, one loses.
LEMMA ObtainKeepsOwners ==
  ASSUME TypeInv, SoleOwner, NEW c, NEW p, NEW free,
         ObtainPooled(c, p, free) \/ ObtainNew(c, p, free)
  PROVE  SoleOwner'
  <1>0. InCall' = InCall /\ InRet' = InRet /\ (CallsApart => CallsApart')
    BY DEF ObtainPooled, ObtainNew, InCall, InRet, CallsApart
  <1>1. CASE ObtainPooled(c, p, free)
    <2>1. /\ mMsgPool \in Seq(Msgs) /\ mMsgPool # <<>> /\ mMsgPool' = Tail(mMsgPool)
          /\ held' = held \cup {Head(mMsgPool)} /\ UNCHANGED <<live, mMsgQueue>>
      BY <1>1 DEF ObtainPooled, TypeInv, TypeOK
    <2>2. /\ Removed(mMsgPool, mMsgPool', 1) /\ 1 \in 1 .. Len(mMsgPool)
          /\ Head(mMsgPool) = mMsgPool[1]
      BY <2>1, TailElements
    <2>3. /\ IsInjective(mMsgPool')
          /\ ToSet(mMsgPool') = ToSet(mMsgPool) \ {Head(mMsgPool)}
      BY <2>1, <2>2, OwnersParts, RemovedMembers
    <2>4. Head(mMsgPool) \in ToSet(mMsgPool)
      BY <2>1, <2>2 DEF ToSet
    <2> QED
      BY <1>0, <2>1, <2>3, <2>4, OwnersParts, OwnersPartsNext DEF Parts
  <1>2. CASE ObtainNew(c, p, free)
    <2>1. PICK m \in Msgs \ live : live' = live \cup {m} /\ held' = held \cup {m}
      BY <1>2 DEF ObtainNew
    <2>2. UNCHANGED <<mMsgQueue, mMsgPool>>
      BY <1>2 DEF ObtainNew
    <2> QED
      BY <1>0, <2>1, <2>2, OwnersParts, OwnersPartsNext DEF Parts
  <1> QED
    BY <1>1, <1>2

\* A client that marks, resets, drops or removes its own message.
LEMMA HeldKeepsOwners ==
  ASSUME TypeInv, SoleOwner, NEW m \in held,
         MakeInUse(m) \/ recycle(m) \/ Discard(m) \/ removeMessage(m)
  PROVE  SoleOwner'
  <1>0. InCall' = InCall /\ InRet' = InRet /\ (CallsApart => CallsApart') /\ m \in Msgs
    BY DEF MakeInUse, recycle, Discard, removeMessage, InCall, InRet, CallsApart, TypeInv, TypeOK
  <1>1. CASE MakeInUse(m) \/ recycle(m)
    BY <1>1, OwnersKept DEF MakeInUse, recycle, Owners
  <1>2. CASE Delete({m}) /\ held' = held \ {m} /\ UNCHANGED <<listVars, poolVars>>
    <2>1. /\ held' = held \ {m} /\ live' = live \ {m}
          /\ UNCHANGED <<mMsgQueue, mMsgPool>>
      BY <1>2 DEF Delete
    <2> QED
      BY <1>0, <2>1, OwnersParts, OwnersPartsNext DEF Parts
  <1>3. CASE recycleMsg(m) /\ held' = held \ {m} /\ UNCHANGED listVars
    <2>1. Recycled(m)
      BY <1>0, <1>3, OwnersParts, RecycleOwners DEF Parts
    <2> QED
      BY <1>0, <1>3, <2>1, OwnersParts, OwnersPartsNext DEF Parts, Recycled
  <1> QED
    BY <1>1, <1>2, <1>3 DEF Discard, removeMessage

\* Every way to send is a sendMessageAtTime with a time that is not negative.
LEMMA SendAtTime ==
  ASSUME TypeInv, NEW s, NEW m, SendStep(s, m)
  PROVE  \E h \in Handlers \cup {NULL}, t \in Nat : sendMessageAtTime(s, m, h, t)
  <1>1. \A d \in Delays : now + (IF d < 0 THEN 0 ELSE d) \in Nat
    BY TimeAssumption DEF TypeInv, TypeOK
  <1>2. Uptimes \subseteq Nat /\ 0 \in Nat
    BY TimeAssumption
  <1> QED
    BY <1>1, <1>2, HandlerAssumption
       DEF SendStep, sendMessageDelayed, sendMessageAtFrontOfQueue, postAtTime

\* sendMessageAtTime moves a message from the client to its call.
LEMMA SendKeepsOwners ==
  ASSUME TypeInv, SoleOwner, NEW s \in Senders, NEW m \in held, SendStep(s, m)
  PROVE  SoleOwner'
  <1>1. PICK h \in Handlers \cup {NULL}, t \in Nat : sendMessageAtTime(s, m, h, t)
    BY SendAtTime
  <1>2. m \in Msgs /\ m \notin InCall /\ t \in Int
    BY DEF TypeInv, TypeOK, SoleOwner
  <1>3. CallsApart' /\ InCall' = InCall \cup {m}
    BY <1>1, <1>2, CallBegins, OwnersParts DEF sendMessageAtTime
  <1>4. /\ held' = held \ {m} /\ UNCHANGED <<live, mMsgQueue, mMsgPool>> /\ InRet' = InRet
    BY <1>1 DEF sendMessageAtTime, InRet
  <1> QED
    BY <1>2, <1>3, <1>4, OwnersParts, OwnersPartsNext DEF Parts

\* How enqueueMessage links message m with time t: at place k.
Linked(m, t, k) ==
  /\ k \in 1 .. Len(mMsgQueue) + 1
  /\ Inserted(mMsgQueue, mMsgQueue', k, m)
  /\ \/ LinkFirst(m, t) /\ k = 1
     \/ LinkLast(m, t) /\ k = Len(mMsgQueue) + 1
     \/ /\ LinkMiddle(m, t) /\ k > 1
        /\ k <= Len(mMsgQueue) => t < msg[mMsgQueue[k]].mWhen
        /\ \A j \in 2 .. k - 1 : t >= msg[mMsgQueue[j]].mWhen

\* The three branches of enqueueMessage are one insertion, at some place k.
LEMMA LinkPlaces ==
  ASSUME TypeInv, NEW m \in Msgs, NEW t,
         LinkFirst(m, t) \/ LinkLast(m, t) \/ LinkMiddle(m, t)
  PROVE  \E k \in Nat : Linked(m, t, k)
  <1>0. mMsgQueue \in Seq(Msgs) /\ Len(mMsgQueue) \in Nat
    BY DEF TypeInv, TypeOK
  <1>1. CASE LinkFirst(m, t)
    <2>1. Linked(m, t, 1)
      BY <1>0, <1>1, LinkElements DEF Linked, LinkFirst
    <2> QED
      BY <2>1
  <1>2. CASE LinkLast(m, t)
    <2>1. Linked(m, t, Len(mMsgQueue) + 1)
      BY <1>0, <1>2, LinkElements DEF Linked, LinkLast
    <2> QED
      BY <1>0, <2>1
  <1>3. CASE LinkMiddle(m, t)
    <2>1. PICK k \in 2 .. Len(mMsgQueue) + 1 :
            /\ k <= Len(mMsgQueue) => t < msg[mMsgQueue[k]].mWhen
            /\ \A j \in 2 .. k - 1 : t >= msg[mMsgQueue[j]].mWhen
            /\ mMsgQueue' = InsertAt(mMsgQueue, k, m)
      BY <1>3 DEF LinkMiddle
    <2>2. k \in 1 .. Len(mMsgQueue) + 1 /\ k > 1 /\ k \in Nat
      BY <1>0
    <2>3. Inserted(mMsgQueue, mMsgQueue', k, m)
      BY <1>0, <2>1, <2>2, InsertElements
    <2>4. Linked(m, t, k)
      BY <1>3, <2>1, <2>2, <2>3 DEF Linked
    <2> QED
      BY <2>2, <2>4
  <1> QED
    BY <1>1, <1>2, <1>3

\* enqueueMessage moves the message of the call into the list, the pool or
\* deletes it, on every path.
LEMMA EnqueueKeepsOwners ==
  ASSUME TypeInv, SoleOwner, NEW s \in Senders, EnqueueStep(s)
  PROVE  SoleOwner'
  <1> DEFINE m == call[s].m
  <1>1. call[s] # NULL /\ call' = [call EXCEPT ![s] = NULL]
    BY DEF EnqueueStep, RejectMessage, RefuseMessage, enqueueMessage, Acceptable
  <1>2. CallsApart' /\ InCall' = InCall \ {m} /\ m \in InCall /\ m \in Msgs
    BY <1>1, CallEnds, OwnersParts
  <1>3. InRet' = InRet /\ held' = held
    BY DEF EnqueueStep, RejectMessage, RefuseMessage, enqueueMessage, InRet
  <1> HIDE DEF m
  <1>4. CASE RejectMessage(s)
    <2>1. live' = live \ {m} /\ UNCHANGED <<mMsgQueue, mMsgPool>>
      BY <1>4 DEF RejectMessage, Delete, m
    <2> QED
      BY <1>2, <1>3, <2>1, OwnersParts, OwnersPartsNext DEF Parts
  <1>5. CASE RefuseMessage(s)
    <2>1. recycleMsg(m) /\ UNCHANGED mMsgQueue
      BY <1>5 DEF RefuseMessage, m
    <2>2. Recycled(m)
      BY <1>2, <2>1, OwnersParts, RecycleOwners DEF Parts
    <2> QED
      BY <1>2, <1>3, <2>1, <2>2, OwnersParts, OwnersPartsNext DEF Parts, Recycled
  <1>6. CASE enqueueMessage(s)
    <2>1. PICK k \in Nat : Linked(m, call[s].t, k)
      BY <1>2, <1>6, LinkPlaces DEF enqueueMessage, m
    <2>2. mMsgQueue \in Seq(Msgs) /\ m \notin ToSet(mMsgQueue)
      BY <1>2, OwnersParts DEF TypeInv, TypeOK, Parts
    <2>3. k \in 1 .. Len(mMsgQueue) + 1 /\ Inserted(mMsgQueue, mMsgQueue', k, m)
      BY <2>1 DEF Linked
    <2>4. ToSet(mMsgQueue') = ToSet(mMsgQueue) \cup {m} /\ IsInjective(mMsgQueue')
      BY <1>2, <2>2, <2>3, OwnersParts, InsertedMembers
    <2>5. UNCHANGED <<live, mMsgPool>>
      BY <1>6 DEF enqueueMessage
    <2> QED
      BY <1>2, <1>3, <2>4, <2>5, OwnersParts, OwnersPartsNext DEF Parts
  <1> QED
    BY <1>4, <1>5, <1>6 DEF EnqueueStep

\* removeMessage and removeAllMessages.
LEMMA UnlinkKeepsOwners ==
  ASSUME TypeInv, SoleOwner, NEW k \in DOMAIN mMsgQueue,
         Unlink(k), recycleMsg(mMsgQueue[k]), UNCHANGED <<held, call, ret>>
  PROVE  SoleOwner'
  <1> DEFINE m == mMsgQueue[k]
  <1>1. /\ IsInjective(mMsgQueue') /\ ToSet(mMsgQueue') = ToSet(mMsgQueue) \ {m}
        /\ m \in ToSet(mMsgQueue) /\ m \in Msgs
    BY OwnersParts, UnlinkOwners
  <1>2. InCall' = InCall /\ InRet' = InRet /\ (CallsApart => CallsApart')
    BY DEF InCall, InRet, CallsApart
  <1>3. recycleMsg(m)
    OBVIOUS
  <1> HIDE DEF m
  <1>4. Recycled(m)
    BY <1>1, <1>3, OwnersParts, RecycleOwners DEF Parts
  <1> QED
    BY <1>1, <1>2, <1>4, OwnersParts, OwnersPartsNext DEF Parts, Recycled

\* Some removeMessage, which unlinks the first match, or removeAllMessages.
LEMMA RemoveKinds ==
  ASSUME NEW h, RemoveStep(h)
  PROVE  removeAllMessages(h) \/ \E C : UnlinkFirstMatch(C, h)
  BY DEF RemoveStep, removeMessageRunnable, removeMessageWhat,
     removeMessageRangeRunnable, removeMessageArgsRunnable,
     removeMessageCallback, removeMessageWhatCallback,
     removeMessageRangeCallback, removeMessageArgsCallback

\* A node of the list is unlinked and recycled.
UnlinkStep(k) ==
  /\ k \in DOMAIN mMsgQueue
  /\ Unlink(k) /\ recycleMsg(mMsgQueue[k])
  /\ UNCHANGED <<held, call, flagVars, mOutTimeTest, now, nextVars, status>>

\* Every removeMessage overload unlinks and recycles at most one node.
LEMMA RemoveUnlinks ==
  ASSUME TypeInv, NEW h, RemoveStep(h)
  PROVE  \/ UNCHANGED <<msgVars, held, call, listVars, poolVars, flagVars,
                        mOutTimeTest, now, nextVars, status>>
         \/ sweep = NULL /\ sweep' = NULL /\ \E k : UnlinkStep(k)
  <1>1. CASE removeAllMessages(h)
    BY <1>1 DEF removeAllMessages
  <1>2. ASSUME NEW C, UnlinkFirstMatch(C, h)
        PROVE  sweep = NULL /\ sweep' = NULL /\ \E k : UnlinkStep(k)
    BY <1>2 DEF UnlinkFirstMatch, UnlinkStep
  <1> QED
    BY <1>1, <1>2, RemoveKinds

\* removeAllMessages unlinks and recycles one node at a time.
LEMMA SweepUnlinks ==
  ASSUME TypeInv, SweepStep
  PROVE  \/ UNCHANGED <<msgVars, held, call, listVars, poolVars, flagVars,
                        mOutTimeTest, now, nextVars>>
            /\ status' \in {status, "faulted"}
         \/ SweepRemove /\ UnlinkStep(sweep.k)
  <1>1. CASE SweepRemove
    <2>1. sweep.k \in DOMAIN mMsgQueue
      BY <1>1 DEF SweepRemove, TypeInv, TypeOK
    <2> QED
      BY <1>1, <2>1 DEF SweepRemove, UnlinkStep
  <1> QED
    BY <1>1 DEF SweepStep, SweepKeep, SweepFault, SweepEnd

\* next() leaves the list alone, or hands out its head.
LEMMA LooperKinds ==
  ASSUME CallNext \/ NextStep \/ NextSpurious
  PROVE  /\ QuietNext
         /\ \/ TakeHead /\ sweep = NULL /\ npc # "returned"
            \/ UNCHANGED <<listVars, ret>>
  <1> DEFINE Kept == UNCHANGED <<listVars, ret>>
             HandedOut == TakeHead /\ sweep = NULL /\ npc # "returned"
  <1>1. QuietNext
    BY DEF CallNext, NextStep, NextQuit, NextEnterPosix, NextEnterWindows,
       NextUnlocked, NextToSleep, NextRelock, NextNotified, NextTimedOut,
       NextSpurious, WakeUp
  <1>2. ASSUME ReturnNull PROVE Kept
    BY <1>2 DEF ReturnNull
  <1>3. ASSUME NEW t, Sleep(t) PROVE Kept
    BY <1>3 DEF Sleep
  <1>4. ASSUME Examine, sweep = NULL, npc # "returned" PROVE Kept \/ HandedOut
    BY <1>2, <1>4 DEF Examine, PollAgain
  <1>5. ASSUME ExamineAfterTimed, sweep = NULL, npc # "returned" PROVE Kept \/ HandedOut
    <2> HIDE DEF Kept, HandedOut
    <2> QED
      BY <1>2, <1>4, <1>5 DEF ExamineAfterTimed
  <1>6. ASSUME WakeUp, npc # "returned" PROVE Kept \/ HandedOut
    <2>1. CASE UNCHANGED <<timeout, ret, listVars, mBlocked>>
      BY <2>1
    <2> HIDE DEF Kept, HandedOut
    <2> QED
      BY <1>3, <1>4, <1>5, <1>6, <2>1 DEF WakeUp
  <1>7. ASSUME CallNext \/ NextEnterWindows \/ NextUnlocked PROVE Kept
    BY <1>7 DEF CallNext, NextEnterWindows, NextUnlocked
  <1> HIDE DEF Kept, HandedOut
  <1>8. Kept \/ HandedOut
    BY <1>2, <1>3, <1>4, <1>5, <1>6, <1>7 DEF NextStep, NextQuit,
       NextEnterPosix, NextToSleep, NextRelock, NextNotified, NextTimedOut,
       NextSpurious
  <1> QED
    BY <1>1, <1>8 DEF Kept, HandedOut

\* next() moves the head of the list to the looper, which recycles it.
LEMMA LooperKeepsOwners ==
  ASSUME TypeInv, SoleOwner, CallNext \/ NextStep \/ NextSpurious \/ Recycle
  PROVE  SoleOwner'
  <1>1. CASE Recycle
    <2>1. /\ recycleMsg(ret) /\ ret' = NULL /\ UNCHANGED <<held, call, mMsgQueue>>
          /\ ret \in Msgs /\ ret # NULL
      BY <1>1 DEF Recycle, TypeInv, TypeOK, ReturnedHasMessage
    <2>2. /\ InRet = {ret} /\ InRet' = {} /\ InCall' = InCall
          /\ (CallsApart => CallsApart')
      BY <2>1 DEF InRet, InCall, CallsApart
    <2>3. Recycled(ret)
      BY <2>1, <2>2, OwnersParts, RecycleOwners DEF Parts
    <2> QED
      BY <2>1, <2>2, <2>3, OwnersParts, OwnersPartsNext DEF Parts, Recycled
  <1>2. CASE QuietNext /\ UNCHANGED <<listVars, ret>>
    BY <1>2, OwnersKept DEF QuietNext, Owners
  <1>3. CASE QuietNext /\ TakeHead /\ npc # "returned"
    <2>1. /\ mMsgQueue \in Seq(Msgs) /\ mMsgQueue # <<>> /\ mMsgQueue' = Tail(mMsgQueue)
          /\ ret' = Head(mMsgQueue) /\ UNCHANGED <<held, call, mMsgPool, live>>
      BY <1>3 DEF QuietNext, TakeHead, TypeInv, TypeOK
    <2>2. /\ Removed(mMsgQueue, mMsgQueue', 1) /\ 1 \in 1 .. Len(mMsgQueue)
          /\ Head(mMsgQueue) = mMsgQueue[1]
      BY <2>1, TailElements
    <2>3. /\ IsInjective(mMsgQueue')
          /\ ToSet(mMsgQueue') = ToSet(mMsgQueue) \ {ret'}
      BY <2>1, <2>2, OwnersParts, RemovedMembers
    <2>4. ret' \in ToSet(mMsgQueue) /\ ret' \in Msgs
      BY <2>1, <2>2 DEF ToSet
    <2>5. /\ InRet = {} /\ InRet' = {ret'} /\ InCall' = InCall
          /\ (CallsApart => CallsApart')
      BY <1>3, <2>1, <2>4, NullAssumption
         DEF InRet, InCall, CallsApart, TypeInv, ReturnedHasMessage
    <2> QED
      BY <2>1, <2>3, <2>4, <2>5, OwnersParts, OwnersPartsNext DEF Parts
  <1> QED
    BY <1>1, <1>2, <1>3, LooperKinds

\* quit, ~MsgQueue, the test timeout and the clock.
LEMMA ControlKeepsOwners ==
  ASSUME TypeInv, SoleOwner,
         \/ \E safely \in BOOLEAN : quit(safely)
         \/ \E t \in OutTimes : setTestOutTimeMillisExit(t)
         \/ Destroy
         \/ Tick
  PROVE  SoleOwner'
  <1>0. IsInjective(<<>>) /\ ToSet(<<>>) = {}
    BY DEF IsInjective, ToSet
  <1>1. CASE \E safely \in BOOLEAN : quit(safely)
    <2>1. InCall' = InCall /\ InRet' = InRet /\ held' = held /\ (CallsApart => CallsApart')
      BY <1>1 DEF quit, InCall, InRet, CallsApart
    <2>2. CASE UNCHANGED <<msgVars, listVars>>
      BY <1>1, <2>2, OwnersKept DEF quit, Owners
    <2>3. CASE Delete(ToSet(mMsgQueue)) /\ mMsgQueue' = <<>>
      <3>1. live' = live \ ToSet(mMsgQueue) /\ mMsgQueue' = <<>> /\ mMsgPool' = mMsgPool
        BY <1>1, <2>3 DEF quit, Delete
      <3> QED
        BY <1>0, <2>1, <3>1, OwnersParts, OwnersPartsNext DEF Parts
    <2> QED
      BY <1>1, <2>2, <2>3 DEF quit
  <1>2. CASE Destroy
    <2>1. InCall' = InCall /\ InRet' = InRet /\ held' = held /\ (CallsApart => CallsApart')
      BY <1>2 DEF Destroy, InCall, InRet, CallsApart
    <2>2. /\ live' = live \ (ToSet(mMsgQueue) \cup ToSet(mMsgPool))
          /\ mMsgQueue' = <<>> /\ mMsgPool' = <<>>
      BY <1>2 DEF Destroy, Delete
    <2> QED
      BY <1>0, <2>1, <2>2, OwnersParts, OwnersPartsNext DEF Parts
  <1>3. CASE Tick \/ \E t \in OutTimes : setTestOutTimeMillisExit(t)
    BY <1>3, OwnersKept DEF Tick, setTestOutTimeMillisExit, Owners
  <1> QED
    BY <1>1, <1>2, <1>3

\* SoleOwner is preserved by every step.
LEMMA NextKeepsOwners == TypeInv /\ SoleOwner /\ [Next]_vars => SoleOwner'
  <1> SUFFICES ASSUME TypeInv, SoleOwner, [Next]_vars PROVE SoleOwner'
    OBVIOUS
  <1>1. ASSUME NEW k, UnlinkStep(k) PROVE SoleOwner'
    BY <1>1, UnlinkKeepsOwners DEF UnlinkStep
  <1>2. CASE \E h \in Handlers \cup {NULL} : RemoveStep(h)
    BY <1>1, <1>2, RemoveUnlinks, OwnersKept DEF Owners
  <1>3. CASE SweepStep
    BY <1>1, <1>3, SweepUnlinks, OwnersKept DEF Owners
  <1>4. CASE ClientStep
    BY <1>2, <1>3, <1>4, ObtainKeepsOwners, HeldKeepsOwners, SendKeepsOwners,
       EnqueueKeepsOwners, ControlKeepsOwners DEF ClientStep, ObtainStep
  <1>5. CASE UNCHANGED vars
    BY <1>5, OwnersKept DEF vars, Owners
  <1> QED
    BY <1>4, <1>5, ControlKeepsOwners, LooperKeepsOwners DEF Next, Stopped

\* Nothing is allocated at first.
LEMMA InitOwners == Init => SoleOwner
  <1>1. IsInjective(<<>>) /\ ToSet(<<>>) = {}
    BY DEF IsInjective, ToSet
  <1> QED
    BY <1>1 DEF Init, SoleOwner, InCall, InRet

\* Every allocated message always has exactly one owner: no double free, no
\* message dispatched twice, no leak, whatever the threads do (SoleOwner).
THEOREM OneOwner == Spec => []SoleOwner
  BY InitType, NextKeepsType, InitOwners, NextKeepsOwners, PTL DEF Spec

-----------------------------------------------------------------------------
(* The list: its tail, its size, its order and the walk of removeAllMessages *)

\* No time is negative, so that 0 goes before all.
CallTimes == \A s \in Senders : call[s] # NULL => call[s].t >= 0
TimesNat ==
  /\ CallTimes
  /\ \A m \in ToSet(mMsgQueue) : msg[m].mWhen >= 0

\* removeAllMessages has left no message of its handler behind it.
Swept ==
  sweep # NULL =>
    \A i \in 1 .. Len(mMsgQueue) : i < sweep.k => msg[mMsgQueue[i]].mTarget # sweep.h

ListInv == TailPointsToLast /\ SizeCounts /\ SortedByWhen /\ TimesNat /\ Swept

\* What a step does to the list.
ListKept ==
  /\ UNCHANGED <<listVars, mQuit>>
  /\ \A m \in ToSet(mMsgQueue) : msg'[m] = msg[m]
  /\ \/ sweep' = sweep \/ SweepKeep \/ SweepEnd
     \/ sweep = NULL /\ sweep' # NULL /\ sweep'.k = 1
Unlinked(k) ==
  /\ Unlink(k) /\ k \in 1 .. Len(mMsgQueue) /\ Removed(mMsgQueue, mMsgQueue', k)
  /\ \A m \in Msgs \ {mMsgQueue[k]} : msg'[m] = msg[m]
  /\ UNCHANGED <<flagVars, ret>>
  /\ \/ sweep = NULL /\ sweep' = NULL
     \/ SweepRemove /\ k = sweep.k
Taken == TakeHead /\ ret = NULL /\ sweep = NULL /\ sweep' = NULL /\ UNCHANGED <<msg, mQuit>>
Cleared ==
  /\ mMsgQueue' = <<>> /\ mMsgQueueTail' = NULL /\ mQuit' /\ UNCHANGED ret
  /\ sweep = NULL /\ sweep' = NULL
ListEffect ==
  \/ ListKept /\ UNCHANGED ret
  \/ ListKept /\ ret' = NULL
  \/ \E s \in Senders : enqueueMessage(s)
  \/ \E k \in Nat : Unlinked(k)
  \/ Taken
  \/ Cleared

\* A step that changes one message that is not in the list.
LEMMA OtherMessage ==
  ASSUME TypeInv, NEW m \in Msgs, m \notin ToSet(mMsgQueue),
         \A x \in Msgs \ {m} : msg'[x] = msg[x],
         UNCHANGED <<listVars, mQuit, sweep>>
  PROVE  ListKept
  <1>1. ToSet(mMsgQueue) \subseteq Msgs
    BY DEF TypeInv, TypeOK, ToSet
  <1> QED
    BY <1>1 DEF ListKept

\* ~Msg of one message changes no other.
LEMMA DeleteOther ==
  ASSUME NEW m, Delete({m})
  PROVE  \A x \in Msgs \ {m} : msg'[x] = msg[x]
  BY DEF Delete

\* RECYCLEMIDDLE with the recycling of the node.
LEMMA UnlinkEffect ==
  ASSUME TypeInv, SoleOwner, NEW k, UnlinkStep(k),
         \/ sweep = NULL /\ sweep' = NULL
         \/ SweepRemove /\ k = sweep.k
  PROVE  k \in Nat /\ Unlinked(k)
  <1>1. /\ k \in 1 .. Len(mMsgQueue) /\ Removed(mMsgQueue, mMsgQueue', k)
        /\ mMsgQueue[k] \in ToSet(mMsgQueue) /\ mMsgQueue[k] \in Msgs
    BY OwnersParts, UnlinkOwners DEF UnlinkStep
  <1>2. Recycled(mMsgQueue[k])
    BY <1>1, OwnersParts, RecycleOwners DEF UnlinkStep, Parts
  <1>3. \A m \in Msgs \ {mMsgQueue[k]} : msg'[m] = msg[m]
    BY <1>2 DEF Recycled
  <1>4. k \in Nat
    BY <1>1
  <1> QED
    BY <1>1, <1>3, <1>4 DEF UnlinkStep, Unlinked

\* What the clients' steps do to the list.
LEMMA ClientListEffect ==
  ASSUME TypeInv, SoleOwner, ClientStep
  PROVE  ListEffect
  <1>0. /\ held \cap ToSet(mMsgQueue) = {} /\ InCall \cap ToSet(mMsgQueue) = {}
        /\ ToSet(mMsgPool) \cap ToSet(mMsgQueue) = {} /\ ToSet(mMsgQueue) \subseteq live
        /\ held \cap ToSet(mMsgPool) = {} /\ InCall \cap ToSet(mMsgPool) = {}
        /\ held \subseteq Msgs /\ msg \in [Msgs -> MsgRecords] /\ IsInjective(mMsgPool)
    BY DEF SoleOwner, TypeInv, TypeOK
  <1>1. ASSUME NEW c, NEW p, NEW free, ObtainPooled(c, p, free) \/ ObtainNew(c, p, free)
        PROVE  ListKept /\ UNCHANGED ret
    <2>1. ASSUME NEW m \in Msgs, Fill(m, c, p, free)
          PROVE  \A x \in Msgs \ {m} : msg'[x] = msg[x]
      BY <1>0, <2>1 DEF Fill
    <2>2. CASE ObtainPooled(c, p, free)
      <3>1. Head(mMsgPool) \in Msgs /\ Head(mMsgPool) \in ToSet(mMsgPool)
        BY <2>2 DEF ObtainPooled, TypeInv, TypeOK, ToSet
      <3>2. Fill(Head(mMsgPool), c, p, free) /\ UNCHANGED <<listVars, mQuit, sweep, ret>>
        BY <2>2 DEF ObtainPooled
      <3> QED
        BY <1>0, <2>1, <3>1, <3>2, OtherMessage
    <2>3. CASE ObtainNew(c, p, free)
      <3>1. PICK m \in Msgs \ live : Fill(m, c, p, free)
        BY <2>3 DEF ObtainNew
      <3>2. UNCHANGED <<listVars, mQuit, sweep, ret>>
        BY <2>3 DEF ObtainNew
      <3> QED
        BY <1>0, <2>1, <3>1, <3>2, OtherMessage
    <2> QED
      BY <1>1, <2>2, <2>3
  <1>2. ASSUME NEW m \in held, MakeInUse(m) \/ recycle(m) \/ Discard(m) \/ removeMessage(m)
        PROVE  ListKept /\ UNCHANGED ret
    <2>1. m \in Msgs /\ m \notin ToSet(mMsgQueue) /\ m \notin ToSet(mMsgPool)
      BY <1>0
    <2>2. UNCHANGED <<listVars, mQuit, sweep, ret>>
      BY <1>2 DEF MakeInUse, recycle, Discard, removeMessage
    <2>3. CASE MakeInUse(m) \/ recycle(m)
      <3>1. \A x \in Msgs \ {m} : msg'[x] = msg[x]
        BY <1>0, <2>1, <2>3 DEF MakeInUse, recycle
      <3> QED
        BY <1>0, <2>1, <2>2, <3>1, OtherMessage
    <2>4. CASE Delete({m})
      BY <2>1, <2>2, <2>4, DeleteOther, OtherMessage
    <2>5. CASE recycleMsg(m)
      <3>1. Recycled(m)
        BY <1>0, <2>1, <2>5, RecycleOwners
      <3> QED
        BY <2>1, <2>2, <3>1, OtherMessage DEF Recycled
    <2> QED
      BY <1>2, <2>3, <2>4, <2>5 DEF MakeInUse, recycle, Discard, removeMessage
  <1>3. ASSUME NEW s \in Senders, NEW m \in held, SendStep(s, m)
        PROVE  ListKept /\ UNCHANGED ret
    <2>1. PICK h \in Handlers \cup {NULL}, t \in Nat : sendMessageAtTime(s, m, h, t)
      BY <1>3, SendAtTime
    <2>2. m \in Msgs /\ m \notin ToSet(mMsgQueue)
      BY <1>0
    <2>3. /\ UNCHANGED <<listVars, mQuit, sweep, ret>>
          /\ \A x \in Msgs \ {m} : msg'[x] = msg[x]
      BY <1>0, <2>1, <2>2 DEF sendMessageAtTime
    <2> QED
      BY <2>2, <2>3, OtherMessage
  <1>4. ASSUME NEW s \in Senders, RejectMessage(s) \/ RefuseMessage(s)
        PROVE  ListKept /\ UNCHANGED ret
    <2> DEFINE m == call[s].m
    <2>1. call[s] # NULL /\ UNCHANGED <<listVars, mQuit, sweep, ret>>
      BY <1>4 DEF RejectMessage, RefuseMessage, Acceptable
    <2>2. m \in Msgs /\ m \in InCall
      BY <2>1 DEF InCall, TypeInv, TypeOK, Calls
    <2>3. Delete({m}) \/ recycleMsg(m)
      BY <1>4 DEF RejectMessage, RefuseMessage
    <2> HIDE DEF m
    <2>4. m \notin ToSet(mMsgQueue) /\ m \notin ToSet(mMsgPool)
      BY <1>0, <2>2
    <2>5. CASE Delete({m})
      BY <2>1, <2>2, <2>4, <2>5, DeleteOther, OtherMessage
    <2>6. CASE recycleMsg(m)
      <3>1. Recycled(m)
        BY <1>0, <2>2, <2>4, <2>6, RecycleOwners
      <3> QED
        BY <2>1, <2>2, <2>4, <3>1, OtherMessage DEF Recycled
    <2> QED
      BY <2>3, <2>5, <2>6
  <1>5. ASSUME NEW h, RemoveStep(h)
        PROVE  ListEffect
    <2>1. CASE removeAllMessages(h)
      BY <2>1 DEF removeAllMessages, ListEffect, ListKept
    <2>2. ASSUME NEW C, UnlinkFirstMatch(C, h)
          PROVE  ListEffect
      <3>1. PICK k : UnlinkStep(k) /\ sweep = NULL /\ sweep' = NULL
        BY <2>2 DEF UnlinkFirstMatch, UnlinkStep
      <3> QED
        BY <3>1, UnlinkEffect DEF ListEffect
    <2> QED
      BY <1>5, <2>1, <2>2, RemoveKinds
  <1>6. CASE SweepStep
    <2>1. CASE SweepRemove
      <3>1. sweep.k \in DOMAIN mMsgQueue
        BY <2>1 DEF SweepRemove, TypeInv, TypeOK
      <3>2. UnlinkStep(sweep.k)
        BY <2>1, <3>1 DEF SweepRemove, UnlinkStep
      <3> QED
        BY <2>1, <3>2, UnlinkEffect DEF ListEffect
    <2>2. CASE SweepKeep \/ SweepFault \/ SweepEnd
      <3>1. UNCHANGED <<msg, listVars, mQuit, ret>> /\ (sweep' = sweep \/ SweepKeep \/ SweepEnd)
        BY <2>2 DEF SweepKeep, SweepFault, SweepEnd
      <3> QED
        BY <3>1 DEF ListEffect, ListKept
    <2> QED
      BY <1>6, <2>1, <2>2 DEF SweepStep
  <1>7. ASSUME NEW t, setTestOutTimeMillisExit(t)
        PROVE  ListKept /\ UNCHANGED ret
    BY <1>7 DEF setTestOutTimeMillisExit, ListKept
  <1> QED
    BY <1>1, <1>2, <1>3, <1>4, <1>5, <1>6, <1>7
       DEF ClientStep, ObtainStep, EnqueueStep, ListEffect

\* Every step has one of the effects above on the list.
LEMMA NextListEffect ==
  ASSUME TypeInv, SoleOwner, [Next]_vars
  PROVE  ListEffect
  <1>1. CASE Recycle
    <2>1. /\ recycleMsg(ret) /\ ret' = NULL /\ UNCHANGED <<listVars, mQuit, sweep>>
          /\ ret \in Msgs /\ ret \in InRet
      BY <1>1 DEF Recycle, InRet, TypeInv, TypeOK, ReturnedHasMessage
    <2>2. ret \notin ToSet(mMsgQueue) /\ ret \notin ToSet(mMsgPool) /\ IsInjective(mMsgPool)
      BY <2>1 DEF SoleOwner
    <2>3. Recycled(ret)
      BY <2>1, <2>2, RecycleOwners
    <2> QED
      BY <2>1, <2>2, <2>3, OtherMessage DEF Recycled, ListEffect
  <1>2. CASE CallNext \/ NextStep \/ NextSpurious
    <2>1. CASE QuietNext /\ UNCHANGED <<listVars, ret>>
      BY <2>1 DEF QuietNext, ListKept, ListEffect
    <2>2. CASE QuietNext /\ TakeHead /\ sweep = NULL /\ npc # "returned"
      BY <2>2 DEF QuietNext, Taken, ListEffect, TypeInv, ReturnedHasMessage
    <2> QED
      BY <1>2, <2>1, <2>2, LooperKinds
  <1>3. CASE Tick \/ UNCHANGED vars
    BY <1>3 DEF Tick, vars, ListKept, ListEffect
  <1>4. CASE Destroy
    BY <1>4 DEF Destroy, Cleared, ListEffect
  <1>5. ASSUME NEW safely \in BOOLEAN, quit(safely)
        PROVE  ListEffect
    <2>1. CASE UNCHANGED <<mQuit, msgVars, listVars>>
      BY <1>5, <2>1 DEF quit, ListKept, ListEffect
    <2>2. CASE mMsgQueue' = <<>> /\ mMsgQueueTail' = NULL /\ mQuit' = TRUE
      BY <1>5, <2>2 DEF quit, Cleared, ListEffect
    <2> QED
      BY <1>5, <2>1, <2>2 DEF quit
  <1> QED
    BY <1>1, <1>2, <1>3, <1>4, <1>5, ClientListEffect DEF Next, Stopped

\* Where enqueueMessage puts a message: behind all that are due no later, unless
\* its time is 0, and before all that are due later.
LEMMA LinkOrder ==
  ASSUME TypeInv, SoleOwner, ListInv, NEW s \in Senders, enqueueMessage(s)
  PROVE  \E k \in 1 .. Len(mMsgQueue) + 1 :
           /\ Inserted(mMsgQueue, mMsgQueue', k, call[s].m)
           /\ \A i \in 1 .. Len(mMsgQueue) : i < k => msg[mMsgQueue[i]].mWhen <= call[s].t
           /\ \A i \in 1 .. Len(mMsgQueue) : i >= k =>
                /\ call[s].t <= msg[mMsgQueue[i]].mWhen
                /\ call[s].t # 0 => call[s].t < msg[mMsgQueue[i]].mWhen
           /\ mMsgQueueTail' = IF k = Len(mMsgQueue) + 1 THEN call[s].m ELSE mMsgQueueTail
  <1> DEFINE m == call[s].m
             t == call[s].t
             W(i) == msg[mMsgQueue[i]].mWhen
             n == Len(mMsgQueue)
  <1>1. call[s] # NULL /\ (LinkFirst(m, t) \/ LinkLast(m, t) \/ LinkMiddle(m, t))
    BY DEF enqueueMessage, Acceptable
  <1>2. m \in Msgs /\ t \in Int /\ t >= 0
    BY <1>1 DEF TypeInv, TypeOK, Calls, ListInv, TimesNat, CallTimes
  <1>3. PICK k \in Nat : Linked(m, t, k)
    BY <1>1, <1>2, LinkPlaces
  <1>4. /\ mMsgQueue \in Seq(Msgs) /\ n \in Nat /\ \A i \in 1 .. n : W(i) \in Int
        /\ DOMAIN mMsgQueue = 1 .. n
    BY DEF TypeInv, TypeOK, MsgRecords
  <1>5. /\ \A i, j \in 1 .. n : i < j => W(i) <= W(j)
        /\ \A i \in 1 .. n : W(i) >= 0
    BY <1>4 DEF ListInv, SortedByWhen, TimesNat, ToSet
  <1>6. mMsgQueue # <<>> => /\ mMsgQueueTail = mMsgQueue[n] /\ mMsgQueueTail # NULL
                            /\ Head(mMsgQueue) = mMsgQueue[1] /\ n >= 1
    BY <1>4, NullAssumption DEF ListInv, TailPointsToLast
  <1>7. mMsgQueue = <<>> => n = 0 /\ mMsgQueueTail = NULL
    BY DEF ListInv, TailPointsToLast
  <1>8. k \in 1 .. n + 1 /\ Inserted(mMsgQueue, mMsgQueue', k, m)
    BY <1>3 DEF Linked
  <1>9. CASE LinkFirst(m, t) /\ k = 1
    <2>1. mMsgQueue # <<>> /\ t # 0 => t < W(1)
      BY <1>6, <1>9 DEF LinkFirst
    <2>2. mMsgQueueTail' = IF mMsgQueueTail = NULL THEN m ELSE mMsgQueueTail
      BY <1>9 DEF LinkFirst
    <2>3. mMsgQueueTail' = IF k = n + 1 THEN m ELSE mMsgQueueTail
      BY <1>4, <1>6, <1>7, <1>9, <2>2
    <2>4. ASSUME NEW i \in 1 .. n PROVE t <= W(i) /\ (t # 0 => t < W(i))
      <3>1. 1 \in 1 .. n /\ W(1) <= W(i) /\ mMsgQueue # <<>> /\ i \in Int
        BY <1>4, <1>5, <1>7
      <3> HIDE DEF W, t, n
      <3> QED
        BY <1>2, <1>4, <1>5, <2>1, <3>1
    <2> QED
      BY <1>8, <1>9, <2>3, <2>4
  <1>10. CASE LinkLast(m, t) /\ k = n + 1
    <2>1. n >= 1 /\ t >= W(n) /\ mMsgQueueTail' = m
      BY <1>6, <1>10 DEF LinkLast
    <2>2. ASSUME NEW i \in 1 .. n PROVE W(i) <= t
      <3>1. n \in 1 .. n /\ W(i) <= W(n)
        BY <1>4, <1>5, <2>1
      <3> HIDE DEF W, t, n
      <3> QED
        BY <1>2, <1>4, <2>1, <3>1
    <2> QED
      BY <1>4, <1>8, <1>10, <2>1, <2>2
  <1>11. CASE /\ LinkMiddle(m, t) /\ k > 1
              /\ k <= n => t < W(k)
              /\ \A j \in 2 .. k - 1 : t >= W(j)
    <2>1. n >= 1 /\ t >= W(1) /\ t < W(n) /\ mMsgQueueTail' = mMsgQueueTail
      BY <1>6, <1>11 DEF LinkMiddle
    <2>2. \A j \in 1 .. k - 1 : t >= W(j)
      <3> HIDE DEF W, t, n
      <3> QED
        BY <1>11, <2>1
    <2>3. k <= n
      <3>1. ~(n \in 1 .. k - 1)
        <4> HIDE DEF W, t, n
        <4> QED
          BY <1>2, <1>4, <2>1, <2>2
      <3> QED
        BY <1>4, <1>8, <2>1, <3>1
    <2>4. ASSUME NEW i \in 1 .. n, i >= k PROVE t < W(i)
      <3>1. k \in 1 .. n /\ t < W(k) /\ (i = k \/ W(k) <= W(i))
        BY <1>4, <1>5, <1>8, <1>11, <2>3, <2>4
      <3> HIDE DEF W, t, n
      <3> QED
        BY <1>2, <1>4, <3>1
    <2>5. ASSUME NEW i \in 1 .. n, i < k PROVE W(i) <= t
      <3>1. i \in 1 .. k - 1 /\ W(i) \in Int
        BY <1>4, <1>8, <2>5
      <3> HIDE DEF W, t, n
      <3> QED
        BY <1>2, <2>2, <3>1
    <2>6. ASSUME NEW i \in 1 .. n, i >= k PROVE t <= W(i)
      <3> HIDE DEF W, t, n
      <3> QED
        BY <1>2, <1>4, <2>4, <2>6
    <2> QED
      BY <1>4, <1>8, <2>1, <2>3, <2>4, <2>5, <2>6
  <1>12. \/ LinkFirst(m, t) /\ k = 1
         \/ LinkLast(m, t) /\ k = n + 1
         \/ /\ LinkMiddle(m, t) /\ k > 1
            /\ k <= n => t < W(k)
            /\ \A j \in 2 .. k - 1 : t >= W(j)
    BY <1>3 DEF Linked
  <1> HIDE DEF W, m, t, n
  <1> QED
    BY <1>9, <1>10, <1>11, <1>12

\* The time of a call is now plus a delay cut off at 0, an uptime, or 0.
LEMMA NextKeepsCallTimes == TypeInv /\ CallTimes /\ [Next]_vars => CallTimes'
  <1> SUFFICES ASSUME TypeInv, CallTimes, [Next]_vars PROVE CallTimes'
    OBVIOUS
  <1>1. ASSUME UNCHANGED call PROVE CallTimes'
    BY <1>1 DEF CallTimes
  <1>2. ASSUME NEW s \in Senders, EnqueueStep(s) PROVE CallTimes'
    <2>1. call' = [call EXCEPT ![s] = NULL]
      BY <1>2 DEF EnqueueStep, RejectMessage, RefuseMessage, enqueueMessage
    <2> QED
      BY <2>1 DEF CallTimes, TypeInv, TypeOK
  <1>3. ASSUME NEW s \in Senders, NEW m \in held, SendStep(s, m) PROVE CallTimes'
    <2>1. PICK h \in Handlers \cup {NULL}, t \in Nat : sendMessageAtTime(s, m, h, t)
      BY <1>3, SendAtTime
    <2>2. call' = [call EXCEPT ![s] = [m |-> m, t |-> t]]
      BY <2>1 DEF sendMessageAtTime
    <2> QED
      BY <2>2 DEF CallTimes, TypeInv, TypeOK
  <1>4. CASE \/ ObtainStep
             \/ \E m \in held : MakeInUse(m) \/ recycle(m) \/ Discard(m) \/ removeMessage(m)
    BY <1>1, <1>4 DEF ObtainStep, ObtainPooled, ObtainNew, MakeInUse, recycle, Discard,
       removeMessage
  <1>5. CASE SweepStep \/ \E h \in Handlers \cup {NULL} : RemoveStep(h)
    BY <1>1, <1>5, SweepUnlinks, RemoveUnlinks DEF UnlinkStep
  <1>6. CASE CallNext \/ NextStep \/ NextSpurious \/ Recycle
    BY <1>1, <1>6, LooperKinds DEF QuietNext, Recycle
  <1>7. CASE \/ \E safely \in BOOLEAN : quit(safely)
             \/ \E t \in OutTimes : setTestOutTimeMillisExit(t)
             \/ Destroy \/ Tick \/ UNCHANGED vars
    BY <1>1, <1>7 DEF quit, setTestOutTimeMillisExit, Destroy, Tick, vars
  <1> QED
    BY <1>2, <1>3, <1>4, <1>5, <1>6, <1>7 DEF Next, Stopped, ClientStep

\* The list is unchanged.
LEMMA KeptKeepsList ==
  ASSUME TypeInv, SoleOwner, ListInv, ListKept, CallTimes'
  PROVE  ListInv'
  <1>0. /\ mMsgQueue \in Seq(Msgs) /\ DOMAIN mMsgQueue = 1 .. Len(mMsgQueue)
        /\ UNCHANGED <<mMsgQueue, mMsgQueueTail, mMsgQueueSize, mQuit>>
        /\ \A i \in 1 .. Len(mMsgQueue) : msg'[mMsgQueue[i]] = msg[mMsgQueue[i]]
        /\ \A m \in ToSet(mMsgQueue) : msg'[m] = msg[m]
    <2>1. mMsgQueue \in Seq(Msgs)
      BY DEF TypeInv, TypeOK
    <2>2. DOMAIN mMsgQueue = 1 .. Len(mMsgQueue)
      BY <2>1
    <2>3. /\ UNCHANGED <<mMsgQueue, mMsgQueueTail, mMsgQueueSize, mQuit>>
          /\ \A m \in ToSet(mMsgQueue) : msg'[m] = msg[m]
      BY DEF ListKept
    <2>4. \A i \in 1 .. Len(mMsgQueue) : mMsgQueue[i] \in ToSet(mMsgQueue)
      BY <2>2 DEF ToSet
    <2> QED
      BY <2>1, <2>2, <2>3, <2>4
  <1>1. TailPointsToLast' /\ SizeCounts'
    BY <1>0 DEF ListInv, TailPointsToLast, SizeCounts
  <1>2. SortedByWhen'
    BY <1>0 DEF ListInv, SortedByWhen
  <1>3. TimesNat'
    BY <1>0 DEF ListInv, TimesNat, CallTimes
  <1>4. Swept'
    <2>1. CASE sweep' = sweep
      BY <1>0, <2>1 DEF ListInv, Swept
    <2>2. CASE SweepKeep
      <3>1. sweep'.k = sweep.k + 1 /\ sweep'.h = sweep.h /\ sweep.k \in Nat
        BY <2>2 DEF SweepKeep, TypeInv, TypeOK
      <3>2. /\ sweep # NULL /\ sweep.k \in 1 .. Len(mMsgQueue)
            /\ msg[mMsgQueue[sweep.k]].mTarget # sweep.h
        BY <2>2 DEF SweepKeep, TypeInv, TypeOK
      <3>3. \A i \in 1 .. Len(mMsgQueue) : i < sweep.k => msg[mMsgQueue[i]].mTarget # sweep.h
        BY <3>2 DEF ListInv, Swept
      <3>4. \A i \in 1 .. Len(mMsgQueue) : i < sweep'.k => i < sweep.k \/ i = sweep.k
        BY <3>1
      <3>5. \A i \in 1 .. Len(mMsgQueue) : i < sweep'.k => msg[mMsgQueue[i]].mTarget # sweep.h
        BY <3>2, <3>3, <3>4
      <3> QED
        BY <1>0, <3>1, <3>5 DEF Swept
    <2>3. CASE SweepEnd
      BY <2>3 DEF SweepEnd, Swept
    <2>4. CASE sweep'.k = 1
      BY <2>4 DEF Swept
    <2> QED
      BY <2>1, <2>2, <2>3, <2>4 DEF ListKept
  <1> QED
    BY <1>1, <1>2, <1>3, <1>4 DEF ListInv

\* A message is linked.
LEMMA LinkKeepsList ==
  ASSUME TypeInv, SoleOwner, ListInv, CallTimes',
         NEW s \in Senders, enqueueMessage(s)
  PROVE  ListInv'
  <1> DEFINE m == call[s].m
             t == call[s].t
             n == Len(mMsgQueue)
  <1>1. PICK k \in 1 .. n + 1 :
           /\ Inserted(mMsgQueue, mMsgQueue', k, m)
           /\ \A i \in 1 .. n : i < k => msg[mMsgQueue[i]].mWhen <= t
           /\ \A i \in 1 .. n : i >= k => t <= msg[mMsgQueue[i]].mWhen
           /\ mMsgQueueTail' = IF k = n + 1 THEN m ELSE mMsgQueueTail
    BY LinkOrder
  <1>2. /\ call[s] # NULL /\ sweep = NULL /\ sweep' = NULL /\ mQuit' = mQuit
        /\ mMsgQueueSize' = mMsgQueueSize + 1
        /\ msg' = [msg EXCEPT ![m].inUse = TRUE, ![m].mWhen = t]
    BY DEF enqueueMessage, Acceptable
  <1>3. m \in Msgs /\ t \in Int /\ m \in InCall /\ t >= 0
    BY <1>2 DEF TypeInv, TypeOK, Calls, InCall, ListInv, TimesNat, CallTimes
  <1>4. m \notin ToSet(mMsgQueue)
    BY <1>3 DEF SoleOwner
  <1>5. /\ mMsgQueue \in Seq(Msgs) /\ n \in Nat /\ DOMAIN mMsgQueue = 1 .. n
        /\ msg \in [Msgs -> MsgRecords] /\ \A i \in 1 .. n : mMsgQueue[i] \in Msgs
    BY DEF TypeInv, TypeOK
  <1>6. \A i \in 1 .. n : mMsgQueue[i] # m
    BY <1>4, <1>5 DEF ToSet
  <1>7. msg'[m].mWhen = t /\ \A x \in Msgs : x # m => msg'[x] = msg[x]
    BY <1>2, <1>3, <1>5
  <1>8. /\ mMsgQueue' \in Seq(Msgs) /\ Len(mMsgQueue') = n + 1
        /\ DOMAIN mMsgQueue' = 1 .. n + 1
        /\ \A i \in 1 .. n + 1 :
             mMsgQueue'[i] = IF i < k THEN mMsgQueue[i] ELSE IF i = k THEN m ELSE mMsgQueue[i - 1]
    BY <1>1 DEF Inserted
  <1> DEFINE W(i) == msg[mMsgQueue[i]].mWhen
             V(i) == msg'[mMsgQueue'[i]].mWhen
  <1>9. ASSUME NEW i \in 1 .. n + 1
        PROVE  /\ i < k => i \in 1 .. n /\ V(i) = W(i) /\ V(i) <= t
               /\ i = k => V(i) = t
               /\ i > k => i - 1 \in 1 .. n /\ V(i) = W(i - 1) /\ t <= V(i)
    <2>1. CASE i < k
      <3>1. i \in 1 .. n /\ mMsgQueue'[i] = mMsgQueue[i]
        BY <1>5, <1>8, <2>1
      <3> QED
        BY <1>1, <1>5, <1>6, <1>7, <2>1, <3>1
    <2>2. CASE i = k
      BY <1>7, <1>8, <2>2
    <2>3. CASE i > k
      <3>1. i - 1 \in 1 .. n /\ mMsgQueue'[i] = mMsgQueue[i - 1] /\ i - 1 >= k
        BY <1>5, <1>8, <2>3
      <3> QED
        BY <1>1, <1>5, <1>6, <1>7, <2>3, <3>1
    <2> QED
      BY <1>5, <2>1, <2>2, <2>3
  <1>10. \A i, j \in 1 .. n : i < j => W(i) <= W(j)
    BY <1>5 DEF ListInv, SortedByWhen
  <1>11. \A i \in 1 .. n : W(i) \in Int /\ W(i) >= 0
    BY <1>5 DEF ListInv, TimesNat, MsgRecords, ToSet
  <1>12. ASSUME NEW i \in 1 .. n + 1, NEW j \in 1 .. n + 1, i < j
         PROVE  V(i) <= V(j)
    <2> HIDE DEF V, W, t, n
    <2>1. CASE i < k /\ j < k
      BY <1>5, <1>9, <1>10, <1>12, <2>1
    <2>2. CASE i <= k /\ k <= j
      <3>1. V(i) <= t /\ t <= V(j) /\ V(i) \in Int /\ V(j) \in Int
        BY <1>3, <1>5, <1>9, <1>11, <2>2
      <3> QED
        BY <1>3, <3>1
    <2>3. CASE i > k /\ j > k
      <3>1. i - 1 \in 1 .. n /\ j - 1 \in 1 .. n /\ i - 1 < j - 1
        BY <1>5, <1>9, <1>12, <2>3
      <3>2. W(i - 1) <= W(j - 1)
        BY <1>10, <3>1
      <3> QED
        BY <1>9, <2>3, <3>2
    <2> QED
      BY <1>5, <1>12, <2>1, <2>2, <2>3
  <1>13. ASSUME NEW i \in 1 .. n + 1 PROVE V(i) >= 0
    <2> HIDE DEF V, W, t, n
    <2> QED
      BY <1>3, <1>5, <1>9, <1>11
  <1>14. SortedByWhen'
    BY <1>8, <1>12 DEF SortedByWhen
  <1>15. TimesNat'
    BY <1>8, <1>13 DEF TimesNat, CallTimes, ToSet
  <1>16. SizeCounts' /\ Swept'
    BY <1>2, <1>8 DEF ListInv, SizeCounts, Swept
  <1>17. mMsgQueue' # <<>> /\ mMsgQueueTail' = mMsgQueue'[Len(mMsgQueue')]
    <2>1. mMsgQueue' # <<>>
      BY <1>5, <1>8
    <2>2. CASE k = n + 1
      BY <1>1, <1>5, <1>8, <2>2
    <2>3. CASE k # n + 1
      <3>1. n >= 1 /\ mMsgQueue # <<>> /\ mMsgQueueTail = mMsgQueue[n]
        BY <1>5, <2>3 DEF ListInv, TailPointsToLast
      <3>2. mMsgQueue'[n + 1] = mMsgQueue[n]
        BY <1>5, <1>8, <2>3
      <3> QED
        BY <1>1, <1>8, <2>1, <2>3, <3>1, <3>2
    <2> QED
      BY <2>2, <2>3
  <1> QED
    BY <1>14, <1>15, <1>16, <1>17 DEF ListInv, TailPointsToLast

\* A message leaves the list: what is left keeps its order and its times.
LEMMA RemovedOrder ==
  ASSUME TypeInv, SoleOwner, ListInv, CallTimes', NEW k \in 1 .. Len(mMsgQueue),
         Removed(mMsgQueue, mMsgQueue', k),
         \A m \in Msgs \ {mMsgQueue[k]} : msg'[m] = msg[m]
  PROVE  /\ SortedByWhen' /\ TimesNat'
         /\ \A i \in 1 .. Len(mMsgQueue) - 1 : msg'[mMsgQueue'[i]] = msg[mMsgQueue'[i]]
  <1> DEFINE n == Len(mMsgQueue)
             W(i) == msg[mMsgQueue[i]].mWhen
             V(i) == msg'[mMsgQueue'[i]].mWhen
             p(i) == IF i < k THEN i ELSE i + 1
  <1>1. /\ mMsgQueue \in Seq(Msgs) /\ n \in Nat /\ DOMAIN mMsgQueue = 1 .. n
        /\ msg \in [Msgs -> MsgRecords] /\ \A i \in 1 .. n : mMsgQueue[i] \in Msgs
    BY DEF TypeInv, TypeOK
  <1>2. \A i, j \in 1 .. n : mMsgQueue[i] = mMsgQueue[j] => i = j
    BY <1>1 DEF SoleOwner, IsInjective
  <1>3. /\ Len(mMsgQueue') = n - 1 /\ DOMAIN mMsgQueue' = 1 .. n - 1
        /\ \A i \in 1 .. n - 1 : p(i) \in 1 .. n /\ p(i) # k /\ mMsgQueue'[i] = mMsgQueue[p(i)]
    BY <1>1 DEF Removed
  <1>4. \A i, j \in 1 .. n - 1 : i < j => p(i) < p(j)
    BY <1>1
  <1> HIDE DEF p
  <1>5. \A i \in 1 .. n - 1 : msg'[mMsgQueue'[i]] = msg[mMsgQueue'[i]] /\ V(i) = W(p(i))
    BY <1>1, <1>2, <1>3
  <1>6. \A i, j \in 1 .. n : i < j => W(i) <= W(j)
    BY <1>1 DEF ListInv, SortedByWhen
  <1>7. \A i \in 1 .. n : W(i) >= 0
    BY <1>1 DEF ListInv, TimesNat, ToSet
  <1>8. \A i, j \in 1 .. n - 1 : i < j => V(i) <= V(j)
    BY <1>3, <1>4, <1>5, <1>6
  <1>9. \A i \in 1 .. n - 1 : V(i) >= 0
    BY <1>3, <1>5, <1>7
  <1>10. SortedByWhen'
    BY <1>3, <1>8 DEF SortedByWhen
  <1>11. TimesNat'
    BY <1>3, <1>9 DEF TimesNat, CallTimes, ToSet
  <1> QED
    BY <1>5, <1>10, <1>11

\* A list is empty exactly if its length is 0.
LEMMA NonEmpty ==
  ASSUME NEW q, NEW k \in 1 .. Len(q)
  PROVE  q # <<>>
  OBVIOUS

\* Unlinking a node keeps tail, size, order and the walk in progress.
LEMMA UnlinkKeepsList ==
  ASSUME TypeInv, SoleOwner, ListInv, CallTimes', NEW k \in Nat, Unlinked(k)
  PROVE  ListInv'
  <1> DEFINE n == Len(mMsgQueue)
  <1>0. k \in 1 .. n /\ Removed(mMsgQueue, mMsgQueue', k) /\ Unlink(k) /\ mQuit' = mQuit
    BY DEF Unlinked
  <1>1. /\ mMsgQueue \in Seq(Msgs) /\ n \in Nat /\ DOMAIN mMsgQueue = 1 .. n
        /\ \A i \in 1 .. n : mMsgQueue[i] \in Msgs
    BY DEF TypeInv, TypeOK
  <1>2. \A i, j \in 1 .. n : mMsgQueue[i] = mMsgQueue[j] => i = j
    BY <1>1 DEF SoleOwner, IsInjective
  <1>3. /\ mMsgQueue' \in Seq(Msgs) /\ Len(mMsgQueue') = n - 1
        /\ \A i \in 1 .. n - 1 : mMsgQueue'[i] = IF i < k THEN mMsgQueue[i] ELSE mMsgQueue[i + 1]
    BY <1>0 DEF Removed
  <1>4. /\ SortedByWhen' /\ TimesNat'
        /\ \A i \in 1 .. n - 1 : msg'[mMsgQueue'[i]] = msg[mMsgQueue'[i]]
    BY <1>0, RemovedOrder DEF Unlinked
  <1>5. SizeCounts'
    BY <1>0, <1>1, <1>3 DEF ListInv, SizeCounts, Unlink
  <1>6. TailPointsToLast'
    <2>1. mMsgQueueTail = mMsgQueue[n] /\ n >= 1
      BY <1>0, <1>1 DEF ListInv, TailPointsToLast
    <2>2. mMsgQueueTail' = IF mMsgQueueTail # mMsgQueue[k] THEN mMsgQueueTail
                           ELSE IF k = 1 THEN HeadOf(Tail(mMsgQueue)) ELSE mMsgQueue[k - 1]
      BY <1>0 DEF Unlink
    <2>3. CASE k < n
      <3>1. mMsgQueueTail' = mMsgQueue[n]
        BY <1>0, <1>1, <1>2, <2>1, <2>2, <2>3
      <3>2. n - 1 \in 1 .. n - 1 /\ mMsgQueue'[n - 1] = mMsgQueue[n]
        BY <1>0, <1>1, <1>3, <2>3
      <3> QED
        BY <1>1, <1>3, <3>1, <3>2 DEF TailPointsToLast
    <2>4. CASE k = n /\ n > 1
      <3>1. n - 1 \in 1 .. n - 1 /\ mMsgQueue'[n - 1] = mMsgQueue[n - 1]
        BY <1>0, <1>1, <1>3, <2>4
      <3> QED
        BY <1>1, <1>3, <2>1, <2>2, <2>4, <3>1 DEF TailPointsToLast
    <2>5. CASE k = n /\ n = 1
      <3>1. mMsgQueue' = <<>>
        BY <1>3, <2>5
      <3>2. Tail(mMsgQueue) = <<>>
        <4> DEFINE r == Tail(mMsgQueue)
        <4>1. mMsgQueue # <<>>
          BY <1>0, NonEmpty
        <4>2. r \in Seq(Msgs) /\ Len(r) = 0
          BY <1>1, <2>5, <4>1, TailElements DEF Removed
        <4> HIDE DEF r
        <4>3. r = <<>>
          BY <4>2
        <4> QED
          BY <4>3 DEF r
      <3> QED
        BY <2>1, <2>2, <2>5, <3>1, <3>2 DEF TailPointsToLast, HeadOf
    <2>6. k < n \/ (k = n /\ n > 1) \/ (k = n /\ n = 1)
      <3>1. k \in 1 .. n /\ n \in Nat
        BY <1>0, <1>1
      <3> HIDE DEF n
      <3> QED
        BY <3>1
    <2> QED
      BY <2>3, <2>4, <2>5, <2>6
  <1>7. Swept'
    <2>1. CASE sweep' = NULL
      BY <2>1 DEF Swept
    <2>2. CASE SweepRemove /\ k = sweep.k /\ sweep' = sweep
      <3>1. \A i \in 1 .. n : i < k => msg[mMsgQueue[i]].mTarget # sweep.h
        BY <2>2 DEF SweepRemove, ListInv, Swept
      <3>2. \A i \in 1 .. n - 1 : i < k => i \in 1 .. n /\ mMsgQueue'[i] = mMsgQueue[i]
        BY <1>1, <1>3
      <3>3. \A i \in 1 .. n - 1 : i < k => msg'[mMsgQueue'[i]].mTarget # sweep.h
        BY <1>4, <3>1, <3>2
      <3> QED
        BY <1>3, <2>2, <3>3 DEF Swept
    <2> QED
      BY <2>1, <2>2 DEF Unlinked, SweepRemove
  <1> QED
    BY <1>4, <1>5, <1>6, <1>7 DEF ListInv

\* next() hands out the first element.
LEMMA TakenFirst ==
  ASSUME TypeInv, Taken
  PROVE  /\ mMsgQueue \in Seq(Msgs) /\ 1 \in 1 .. Len(mMsgQueue)
         /\ Removed(mMsgQueue, mMsgQueue', 1) /\ ret' = mMsgQueue[1]
  <1>1. /\ mMsgQueue \in Seq(Msgs) /\ mMsgQueue # <<>> /\ mMsgQueue' = Tail(mMsgQueue)
        /\ ret' = Head(mMsgQueue)
    BY DEF Taken, TakeHead, TypeInv, TypeOK
  <1> QED
    BY <1>1, TailElements

\* So does handing out the head,
LEMMA TakeKeepsList ==
  ASSUME TypeInv, SoleOwner, ListInv, CallTimes', Taken
  PROVE  ListInv'
  <1> DEFINE n == Len(mMsgQueue)
  <1>1. /\ mMsgQueue \in Seq(Msgs) /\ n \in Nat /\ n >= 1 /\ 1 \in 1 .. n
        /\ Removed(mMsgQueue, mMsgQueue', 1)
    BY TakenFirst
  <1>2. /\ mMsgQueue # <<>> /\ mMsgQueue' = Tail(mMsgQueue) /\ mMsgQueueSize' = mMsgQueueSize - 1
        /\ mMsgQueueTail' = IF Tail(mMsgQueue) = <<>> THEN NULL ELSE mMsgQueueTail
        /\ UNCHANGED <<msg, mQuit>> /\ sweep' = NULL
    BY DEF Taken, TakeHead
  <1>3. SortedByWhen' /\ TimesNat'
    BY <1>1, <1>2, RemovedOrder
  <1>4. /\ mMsgQueue' \in Seq(Msgs) /\ Len(mMsgQueue') = n - 1
        /\ \A i \in 1 .. n - 1 : mMsgQueue'[i] = mMsgQueue[i + 1]
    BY <1>1, <1>2
  <1>5. SizeCounts' /\ Swept'
    BY <1>1, <1>2, <1>4 DEF ListInv, SizeCounts, Swept
  <1>6. TailPointsToLast'
    <2>1. CASE mMsgQueue' = <<>>
      BY <1>2, <2>1 DEF TailPointsToLast
    <2>2. CASE mMsgQueue' # <<>>
      <3>1. n - 1 \in 1 .. n - 1 /\ mMsgQueue'[n - 1] = mMsgQueue[n]
        BY <1>1, <1>4, <2>2
      <3> QED
        BY <1>2, <1>4, <2>2, <3>1 DEF ListInv, TailPointsToLast
    <2> QED
      BY <2>1, <2>2
  <1> QED
    BY <1>3, <1>5, <1>6 DEF ListInv

\* and so do quit() and ~MsgQueue, which leave an empty list.
LEMMA ClearKeepsList ==
  ASSUME CallTimes', Cleared
  PROVE  ListInv'
  BY DEF Cleared, CallTimes, ListInv, TailPointsToLast, SizeCounts,
     SortedByWhen, TimesNat, CallTimes, Swept, ToSet

\* ListInv is preserved by every step.
LEMMA NextKeepsList == TypeInv /\ SoleOwner /\ ListInv /\ [Next]_vars => ListInv'
  <1> SUFFICES ASSUME TypeInv, SoleOwner, ListInv, [Next]_vars PROVE ListInv'
    OBVIOUS
  <1>1. CallTimes'
    BY NextKeepsCallTimes DEF ListInv, TimesNat, CallTimes
  <1> QED
    BY <1>1, NextListEffect, KeptKeepsList, LinkKeepsList, UnlinkKeepsList,
       TakeKeepsList, ClearKeepsList DEF ListEffect

\* The list is empty at first.
LEMMA InitList == Init => ListInv
  BY DEF Init, ListInv, TailPointsToLast, SizeCounts, SortedByWhen, TimesNat, CallTimes,
     Swept, ToSet

\* Owners, list and types together.
QueueInv == TypeInv /\ SoleOwner /\ ListInv

\* The inductive invariant of the queue: types, owners and the list.
LEMMA QueueInvariant == Spec => []QueueInv
  <1>1. Init => QueueInv
    BY InitType, InitOwners, InitList DEF QueueInv
  <1>2. QueueInv /\ [Next]_vars => QueueInv'
    BY NextKeepsType, NextKeepsOwners, NextKeepsList DEF QueueInv
  <1> QED
    BY <1>1, <1>2, PTL DEF Spec

\* mMsgQueueTail always is the last node of the list (TailPointsToLast), so that
\* the append of enqueueMessage neither cuts the list nor writes to a freed node.
THEOREM TailIsLast == Spec => []TailPointsToLast
  BY QueueInvariant, PTL DEF QueueInv, ListInv

\* The list is sorted by mWhen at all times (SortedByWhen), for all arrival
\* orders, delays, uptimes and insertions at the front.
THEOREM ListIsSorted == Spec => []SortedByWhen
  BY QueueInvariant, PTL DEF QueueInv, ListInv

\* Delivery
THEOREM EarliestDueFirst == Spec => DeliversEarliestDue
  <1>1. QueueInv /\ [Next]_vars => [DeliverStep]_vars
    <2> SUFFICES ASSUME QueueInv, [Next]_vars, ret = NULL, ret' # NULL
                 PROVE  /\ msg[ret'].mWhen <= now
                        /\ \A m \in ToSet(mMsgQueue') : msg[ret'].mWhen <= msg[m].mWhen
      BY DEF DeliverStep
    <2>1. ListEffect
      BY NextListEffect DEF QueueInv
    <2>2. Taken
      BY <2>1 DEF ListEffect, enqueueMessage, Unlinked, Cleared
    <2>3. /\ mMsgQueue \in Seq(Msgs) /\ 1 \in 1 .. Len(mMsgQueue)
          /\ Removed(mMsgQueue, mMsgQueue', 1) /\ ret' = mMsgQueue[1]
      BY <2>2, TakenFirst DEF QueueInv
    <2>4. msg[ret'].mWhen <= now
      BY <2>2, <2>3 DEF Taken, TakeHead
    <2>5. \A j \in 1 .. Len(mMsgQueue) : 1 < j => msg[mMsgQueue[1]].mWhen <= msg[mMsgQueue[j]].mWhen
      BY <2>3 DEF QueueInv, ListInv, SortedByWhen
    <2>6. ASSUME NEW m \in ToSet(mMsgQueue') PROVE msg[ret'].mWhen <= msg[m].mWhen
      <3>1. PICK i \in 1 .. Len(mMsgQueue) - 1 : m = mMsgQueue'[i]
        BY <2>3 DEF Removed, ToSet
      <3>2. m = mMsgQueue[i + 1] /\ i + 1 \in 1 .. Len(mMsgQueue) /\ 1 < i + 1
        BY <2>3, <3>1 DEF Removed
      <3> QED
        BY <2>3, <2>5, <3>2
    <2> QED
      BY <2>4, <2>6
  <1> QED
    BY <1>1, QueueInvariant, PTL DEF Spec, DeliversEarliestDue

\* A removal keeps the order of the others,
LEMMA RemovedFifo ==
  ASSUME NEW q \in Seq(Msgs), NEW r, NEW p \in 1 .. Len(q),
         Removed(q, r, p), IsInjective(q)
  PROVE  /\ \A i, j \in DOMAIN q, k, l \in DOMAIN r :
              q[i] = r[k] /\ q[j] = r[l] => (i < j <=> k < l)
         /\ \A k \in DOMAIN r : r[k] \in ToSet(q)
  <1> DEFINE f(k) == IF k < p THEN k ELSE k + 1
  <1>1. /\ Len(q) \in Nat /\ DOMAIN q = 1 .. Len(q) /\ DOMAIN r = 1 .. Len(q) - 1
        /\ \A i, j \in 1 .. Len(q) : q[i] = q[j] => i = j
    BY DEF Removed, IsInjective
  <1>2. \A k \in DOMAIN r : f(k) \in 1 .. Len(q) /\ r[k] = q[f(k)]
    BY <1>1 DEF Removed
  <1>3. \A k, l \in DOMAIN r : k < l <=> f(k) < f(l)
    BY <1>1
  <1> HIDE DEF f
  <1>4. \A k \in DOMAIN r : r[k] \in ToSet(q)
    BY <1>1, <1>2 DEF ToSet
  <1>5. \A i \in DOMAIN q, k \in DOMAIN r : q[i] = r[k] => i = f(k)
    BY <1>1, <1>2
  <1> QED
    BY <1>3, <1>4, <1>5

\* and so does an insertion.
LEMMA InsertedFifo ==
  ASSUME NEW q \in Seq(Msgs), NEW r, NEW m, NEW p \in 1 .. Len(q) + 1,
         Inserted(q, r, p, m), IsInjective(q), m \notin ToSet(q)
  PROVE  \A i, j \in DOMAIN q, k, l \in DOMAIN r :
           q[i] = r[k] /\ q[j] = r[l] => (i < j <=> k < l)
  <1> DEFINE f(i) == IF i < p THEN i ELSE i + 1
  <1>1. /\ Len(q) \in Nat /\ DOMAIN q = 1 .. Len(q) /\ DOMAIN r = 1 .. Len(q) + 1
        /\ \A i, j \in 1 .. Len(q) : q[i] = q[j] => i = j
        /\ \A i \in 1 .. Len(q) : q[i] # m
    BY DEF Inserted, IsInjective, ToSet
  <1>2. \A i, j \in DOMAIN q : i < j <=> f(i) < f(j)
    BY <1>1
  <1>3. ASSUME NEW i \in DOMAIN q, NEW k \in DOMAIN r, q[i] = r[k] PROVE k = f(i)
    <2>1. r[k] = IF k < p THEN q[k] ELSE IF k = p THEN m ELSE q[k - 1]
      BY <1>1 DEF Inserted
    <2>2. CASE k < p
      <3>1. k \in 1 .. Len(q) /\ q[i] = q[k]
        BY <1>1, <1>3, <2>1, <2>2
      <3> QED
        BY <1>1, <2>2, <3>1
    <2>3. CASE k = p
      BY <1>1, <1>3, <2>1, <2>3
    <2>4. CASE k > p
      <3>1. k - 1 \in 1 .. Len(q) /\ q[i] = q[k - 1]
        BY <1>1, <1>3, <2>1, <2>4
      <3>2. i = k - 1
        BY <1>1, <3>1
      <3> QED
        BY <1>1, <2>4, <3>2
    <2>5. k < p \/ k = p \/ k > p
      BY <1>1
    <2> QED
      BY <2>2, <2>3, <2>4, <2>5
  <1> HIDE DEF f
  <1> QED
    BY <1>2, <1>3

\* Messages for the same time leave in the order enqueueMessage accepted them, and
\* no step of any thread reorders the list (FifoPerTime).
THEOREM FifoForSameTime == Spec => FifoPerTime
  <1>1. QueueInv /\ [Next]_vars => [FifoStep]_vars
    <2> SUFFICES ASSUME QueueInv, [Next]_vars PROVE FifoStep
      OBVIOUS
    <2>0. /\ mMsgQueue \in Seq(Msgs) /\ DOMAIN mMsgQueue = 1 .. Len(mMsgQueue)
          /\ IsInjective(mMsgQueue) /\ TypeInv /\ SoleOwner /\ ListInv
      BY DEF QueueInv, TypeInv, TypeOK, SoleOwner
    <2>1. ListEffect
      BY <2>0, NextListEffect
    <2>2. CASE mMsgQueue' = mMsgQueue
      <3>1. \A i, j \in DOMAIN mMsgQueue : mMsgQueue[i] = mMsgQueue[j] => i = j
        BY <2>0 DEF IsInjective
      <3>2. \A i \in DOMAIN mMsgQueue : mMsgQueue[i] \in ToSet(mMsgQueue)
        BY <2>0 DEF ToSet
      <3> QED
        BY <2>2, <3>1, <3>2 DEF FifoStep
    <2>3. ASSUME NEW k \in 1 .. Len(mMsgQueue), Removed(mMsgQueue, mMsgQueue', k)
          PROVE  FifoStep
      BY <2>0, <2>3, RemovedFifo DEF FifoStep
    <2>4. CASE mMsgQueue' = <<>>
      BY <2>4 DEF FifoStep
    <2>5. ASSUME NEW s \in Senders, enqueueMessage(s)
          PROVE  FifoStep
      <3> DEFINE m == call[s].m
                 t == call[s].t
                 n == Len(mMsgQueue)
      <3>1. PICK p \in 1 .. n + 1 :
              /\ Inserted(mMsgQueue, mMsgQueue', p, m)
              /\ \A i \in 1 .. n : i >= p /\ t # 0 => t < msg[mMsgQueue[i]].mWhen
        BY <2>0, <2>5, LinkOrder
      <3>2. /\ m \in InCall /\ m \in Msgs /\ t \in Int
            /\ msg' = [msg EXCEPT ![m].inUse = TRUE, ![m].mWhen = t]
            /\ msg \in [Msgs -> MsgRecords]
        BY <2>0, <2>5 DEF enqueueMessage, Acceptable, InCall, TypeInv, TypeOK, Calls
      <3>3. m \notin ToSet(mMsgQueue)
        BY <2>0, <3>2 DEF SoleOwner
      <3>4. msg'[m].mWhen = t
        BY <3>2
      <3>5. \A i, j \in DOMAIN mMsgQueue, k, l \in DOMAIN mMsgQueue' :
              mMsgQueue[i] = mMsgQueue'[k] /\ mMsgQueue[j] = mMsgQueue'[l] => (i < j <=> k < l)
        BY <2>0, <3>1, <3>3, InsertedFifo
      <3>6. ASSUME NEW k \in DOMAIN mMsgQueue', NEW l \in DOMAIN mMsgQueue',
                   mMsgQueue'[k] \notin ToSet(mMsgQueue),
                   mMsgQueue'[l] \in ToSet(mMsgQueue),
                   msg'[mMsgQueue'[k]].mWhen # 0,
                   msg[mMsgQueue'[l]].mWhen <= msg'[mMsgQueue'[k]].mWhen
            PROVE  l < k
        <4>0. DOMAIN mMsgQueue' = 1 .. n + 1 /\ n \in Nat
          BY <2>0, <3>1 DEF Inserted
        <4>1. ASSUME NEW i \in 1 .. n + 1
              PROVE  /\ i < p => mMsgQueue'[i] = mMsgQueue[i] /\ i \in 1 .. n
                     /\ i = p => mMsgQueue'[i] = m
                     /\ i > p => mMsgQueue'[i] = mMsgQueue[i - 1] /\ i - 1 \in 1 .. n /\ i - 1 >= p
          BY <3>1, <4>0 DEF Inserted
        <4>2. k = p
          BY <2>0, <3>6, <4>0, <4>1 DEF ToSet
        <4>3. mMsgQueue'[k] = m /\ t # 0 /\ msg[mMsgQueue'[l]].mWhen <= t
          BY <3>4, <3>6, <4>0, <4>1, <4>2
        <4>4. l # p
          BY <3>3, <3>6, <4>0, <4>1
        <4>5. ~(l > p)
          <5>1. SUFFICES ASSUME l > p PROVE FALSE
            OBVIOUS
          <5>2. mMsgQueue'[l] = mMsgQueue[l - 1] /\ l - 1 \in 1 .. n /\ l - 1 >= p
            BY <4>0, <4>1, <5>1
          <5>3. t < msg[mMsgQueue[l - 1]].mWhen /\ msg[mMsgQueue[l - 1]].mWhen \in Int
            BY <2>0, <3>1, <3>2, <4>3, <5>2 DEF MsgRecords
          <5> QED
            BY <3>2, <4>3, <5>2, <5>3
        <4> QED
          BY <4>0, <4>2, <4>4, <4>5
      <3> QED
        BY <3>5, <3>6 DEF FifoStep
    <2> QED
      BY <2>0, <2>1, <2>2, <2>3, <2>4, <2>5, TakenFirst
         DEF ListEffect, ListKept, Unlinked, Cleared
  <1> QED
    BY <1>1, QueueInvariant, PTL DEF Spec, FifoPerTime

\* removeAllMessages(h) that gets past the head leaves no message of h in the list
\* (RemovesBehindHead): the walk keeps Swept, and ends behind the last node.
THEOREM RemovesAllBehindHead == Spec => RemovesBehindHead
  <1>1. QueueInv /\ [Next]_vars => [RemoveAllStep]_vars
    <2> SUFFICES ASSUME QueueInv, [Next]_vars, sweep # NULL, sweep.k > 1, sweep' = NULL,
                        NEW m \in ToSet(mMsgQueue')
                 PROVE  msg[m].mTarget # sweep.h
      BY DEF RemoveAllStep
    <2>1. ListEffect
      BY NextListEffect DEF QueueInv
    <2>2. SweepEnd
      <3>1. CASE ListKept
        <4>1. ~SweepKeep
          <5>1. SweepKeep => sweep' \in [h : Handlers \cup {NULL}, k : Nat]
            <6>1. sweep \in [h : Handlers \cup {NULL}, k : Nat \ {0}]
              BY DEF QueueInv, TypeInv, TypeOK
            <6>2. sweep.k + 1 \in Nat /\ sweep.h \in Handlers \cup {NULL}
              BY <6>1
            <6>3. [sweep EXCEPT !.k = @ + 1] = [h |-> sweep.h, k |-> sweep.k + 1]
              BY <6>1
            <6> QED
              BY <6>2, <6>3 DEF SweepKeep
          <5> QED
            BY <5>1, NullRecordAssumption
        <4> QED
          BY <3>1, <4>1 DEF ListKept
      <3>2. ASSUME NEW s \in Senders PROVE ~enqueueMessage(s)
        BY DEF enqueueMessage, Acceptable
      <3>3. ASSUME NEW k \in Nat PROVE ~Unlinked(k)
        BY DEF Unlinked, SweepRemove
      <3>4. ~Taken /\ ~Cleared
        BY DEF Taken, Cleared
      <3> QED
        BY <2>1, <3>1, <3>2, <3>3, <3>4 DEF ListEffect
    <2>3. mMsgQueue' = mMsgQueue /\ sweep.k > Len(mMsgQueue) /\ sweep.k \in Nat
      BY <2>2 DEF SweepEnd, QueueInv, TypeInv, TypeOK
    <2>4. mMsgQueue \in Seq(Msgs)
      BY DEF QueueInv, TypeInv, TypeOK
    <2>5. PICK i \in 1 .. Len(mMsgQueue) : m = mMsgQueue[i]
      BY <2>3, <2>4 DEF ToSet
    <2>6. i < sweep.k
      BY <2>3, <2>4
    <2> QED
      BY <2>5, <2>6 DEF QueueInv, ListInv, Swept
  <1> QED
    BY <1>1, QueueInvariant, PTL DEF Spec, RemovesBehindHead

-----------------------------------------------------------------------------
(* The pool *)

\* What a step does to the pool: nothing, a recycled message goes into it or
\* is deleted, obtain() takes one out, or the queue is destroyed.
PoolKept ==
  /\ UNCHANGED poolVars
  /\ \A m \in ToSet(mMsgPool) : msg'[m] = msg[m]
  /\ status = "destroyed" => status' = "destroyed"
PoolEffect ==
  \/ PoolKept
  \/ \E m \in Msgs \ ToSet(mMsgPool) : recycleMsg(m) /\ UNCHANGED status
  \/ \E c \in Contents, p \in Params \cup {NULL}, free \in BOOLEAN : ObtainPooled(c, p, free)
  \/ Destroy

\* A step that changes one message that is not in the pool.
LEMMA OtherThanPool ==
  ASSUME TypeInv, NEW m \in Msgs \ ToSet(mMsgPool),
         \A x \in Msgs \ {m} : msg'[x] = msg[x],
         UNCHANGED <<poolVars, status>>
  PROVE  PoolKept
  <1>1. ToSet(mMsgPool) \subseteq Msgs
    BY DEF TypeInv, TypeOK, ToSet
  <1> QED
    BY <1>1 DEF PoolKept

\* What the clients' steps do to the pool.
LEMMA ClientPoolEffect ==
  ASSUME TypeInv, SoleOwner, status = "running", ClientStep
  PROVE  PoolEffect
  <1>0. /\ held \cap ToSet(mMsgPool) = {} /\ InCall \cap ToSet(mMsgPool) = {}
        /\ ToSet(mMsgQueue) \cap ToSet(mMsgPool) = {} /\ ToSet(mMsgPool) \subseteq live
        /\ held \subseteq Msgs /\ msg \in [Msgs -> MsgRecords]
        /\ \A k \in DOMAIN mMsgQueue : mMsgQueue[k] \in ToSet(mMsgQueue) /\ mMsgQueue[k] \in Msgs
    BY DEF SoleOwner, TypeInv, TypeOK, ToSet
  <1>1. ASSUME NEW c \in Contents, NEW p \in Params \cup {NULL}, NEW free \in BOOLEAN,
               ObtainNew(c, p, free)
        PROVE  PoolKept
    <2>1. PICK m \in Msgs \ live : Fill(m, c, p, free)
      BY <1>1 DEF ObtainNew
    <2>2. UNCHANGED <<poolVars, status>>
      BY <1>1 DEF ObtainNew
    <2>3. \A x \in Msgs \ {m} : msg'[x] = msg[x]
      BY <1>0, <2>1 DEF Fill
    <2> QED
      BY <1>0, <2>1, <2>2, <2>3, OtherThanPool
  <1>2. ASSUME NEW m \in held, MakeInUse(m) \/ recycle(m) \/ Discard(m) \/ removeMessage(m)
        PROVE  PoolEffect
    <2>1. m \in Msgs \ ToSet(mMsgPool) /\ UNCHANGED status
      BY <1>0, <1>2 DEF MakeInUse, recycle, Discard, removeMessage
    <2>2. CASE MakeInUse(m) \/ recycle(m)
      <3>1. UNCHANGED poolVars /\ \A x \in Msgs \ {m} : msg'[x] = msg[x]
        BY <1>0, <2>1, <2>2 DEF MakeInUse, recycle
      <3> QED
        BY <1>0, <2>1, <3>1, OtherThanPool DEF PoolEffect
    <2>3. CASE Delete({m}) /\ UNCHANGED poolVars
      BY <2>1, <2>3, DeleteOther, OtherThanPool DEF PoolEffect
    <2>4. CASE recycleMsg(m)
      BY <2>1, <2>4 DEF PoolEffect
    <2> QED
      BY <1>2, <2>2, <2>3, <2>4 DEF MakeInUse, recycle, Discard, removeMessage
  <1>3. ASSUME NEW s \in Senders, NEW m \in held, SendStep(s, m)
        PROVE  PoolKept
    <2>1. PICK h \in Handlers \cup {NULL}, t \in Nat : sendMessageAtTime(s, m, h, t)
      BY <1>3, SendAtTime
    <2>2. m \in Msgs \ ToSet(mMsgPool)
      BY <1>0
    <2>3. /\ UNCHANGED <<poolVars, status>>
          /\ \A x \in Msgs \ {m} : msg'[x] = msg[x]
      BY <1>0, <2>1, <2>2 DEF sendMessageAtTime
    <2> QED
      BY <2>2, <2>3, OtherThanPool
  <1>4. ASSUME NEW s \in Senders, EnqueueStep(s)
        PROVE  PoolEffect
    <2> DEFINE m == call[s].m
    <2>1. call[s] # NULL /\ UNCHANGED status
      BY <1>4 DEF EnqueueStep, RejectMessage, RefuseMessage, enqueueMessage, Acceptable
    <2>2. m \in Msgs /\ m \in InCall
      BY <2>1 DEF InCall, TypeInv, TypeOK, Calls
    <2>3. \/ Delete({m}) /\ UNCHANGED poolVars
          \/ recycleMsg(m)
          \/ (\A x \in Msgs \ {m} : msg'[x] = msg[x]) /\ UNCHANGED poolVars
      BY <1>0, <1>4, <2>2 DEF EnqueueStep, RejectMessage, RefuseMessage, enqueueMessage
    <2> HIDE DEF m
    <2>4. m \in Msgs \ ToSet(mMsgPool)
      BY <1>0, <2>2
    <2> QED
      BY <2>1, <2>3, <2>4, DeleteOther, OtherThanPool DEF PoolEffect
  <1>5. ASSUME NEW k, UnlinkStep(k)
        PROVE  PoolEffect
    BY <1>0, <1>5 DEF UnlinkStep, PoolEffect
  <1>6. ASSUME NEW h, RemoveStep(h)
        PROVE  PoolEffect
    <2>1. CASE removeAllMessages(h)
      BY <2>1 DEF removeAllMessages, PoolEffect, PoolKept
    <2>2. ASSUME NEW C, UnlinkFirstMatch(C, h)
          PROVE  PoolEffect
      <3>1. PICK k : UnlinkStep(k)
        BY <2>2 DEF UnlinkFirstMatch, UnlinkStep
      <3> QED
        BY <1>5, <3>1
    <2> QED
      BY <1>6, <2>1, <2>2, RemoveKinds
  <1>7. CASE SweepStep
    <2>1. CASE SweepRemove
      <3>1. sweep.k \in DOMAIN mMsgQueue
        BY <2>1 DEF SweepRemove, TypeInv, TypeOK
      <3> QED
        BY <1>5, <2>1, <3>1 DEF SweepRemove, UnlinkStep
    <2>2. CASE SweepKeep \/ SweepFault \/ SweepEnd
      BY <2>2 DEF SweepKeep, SweepFault, SweepEnd, PoolEffect, PoolKept
    <2> QED
      BY <1>7, <2>1, <2>2 DEF SweepStep
  <1>8. ASSUME NEW t, setTestOutTimeMillisExit(t)
        PROVE  PoolKept
    BY <1>8 DEF setTestOutTimeMillisExit, PoolKept
  <1> QED
    BY <1>1, <1>2, <1>3, <1>4, <1>6, <1>7, <1>8 DEF ClientStep, ObtainStep, PoolEffect

\* Every step has one of the effects above on the pool.
LEMMA NextPoolEffect ==
  ASSUME TypeInv, SoleOwner, [Next]_vars
  PROVE  PoolEffect
  <1>1. CASE Recycle
    <2>1. recycleMsg(ret) /\ UNCHANGED status /\ ret \in Msgs /\ ret \in InRet
      BY <1>1 DEF Recycle, InRet, TypeInv, TypeOK, ReturnedHasMessage
    <2>2. ret \notin ToSet(mMsgPool)
      BY <2>1 DEF SoleOwner
    <2> QED
      BY <2>1, <2>2 DEF PoolEffect
  <1>2. CASE CallNext \/ NextStep \/ NextSpurious
    BY <1>2, LooperKinds DEF QuietNext, PoolKept, PoolEffect
  <1>3. CASE Tick \/ UNCHANGED vars
    BY <1>3 DEF Tick, vars, PoolKept, PoolEffect
  <1>4. ASSUME NEW safely \in BOOLEAN, quit(safely)
        PROVE  PoolEffect
    <2>1. UNCHANGED <<poolVars, status>>
      BY <1>4 DEF quit
    <2>2. CASE UNCHANGED msgVars
      BY <2>1, <2>2 DEF PoolKept, PoolEffect
    <2>3. CASE Delete(ToSet(mMsgQueue))
      <3>1. ToSet(mMsgPool) \subseteq Msgs /\ ToSet(mMsgQueue) \cap ToSet(mMsgPool) = {}
        BY DEF TypeInv, TypeOK, ToSet, SoleOwner
      <3> QED
        BY <2>1, <2>3, <3>1 DEF Delete, PoolKept, PoolEffect
    <2> QED
      BY <1>4, <2>2, <2>3 DEF quit
  <1>5. CASE Destroy
    BY <1>5 DEF PoolEffect
  <1> QED
    BY <1>1, <1>2, <1>3, <1>4, <1>5, ClientPoolEffect DEF Next, Stopped

\* PoolReady is preserved by every step.
LEMMA NextKeepsPool == TypeInv /\ SoleOwner /\ PoolReady /\ [Next]_vars => PoolReady'
  <1> SUFFICES ASSUME TypeInv, SoleOwner, PoolReady, [Next]_vars PROVE PoolReady'
    OBVIOUS
  <1>0. /\ mMsgPool \in Seq(Msgs) /\ msg \in [Msgs -> MsgRecords] /\ IsInjective(mMsgPool)
        /\ ToSet(mMsgPool) \subseteq Msgs /\ mMsgPoolSize \in Nat
    BY DEF TypeInv, TypeOK, SoleOwner, ToSet, PoolReady
  <1>1. CASE PoolKept
    BY <1>1 DEF PoolKept, PoolReady, NewMsg
  <1>2. ASSUME NEW m \in Msgs \ ToSet(mMsgPool), recycleMsg(m), UNCHANGED status
        PROVE  PoolReady'
    <2>1. CASE Delete({m}) /\ UNCHANGED poolVars
      BY <1>1, <1>2, <2>1, DeleteOther, OtherThanPool
    <2>2. CASE /\ mMsgPoolSize # MaxMsgPoolSize
               /\ msg' = [msg EXCEPT ![m] = recycleUnchecked(m)]
               /\ mMsgPool' = <<m>> \o mMsgPool
               /\ mMsgPoolSize' = mMsgPoolSize + 1
      <3>1. /\ Inserted(mMsgPool, mMsgPool', 1, m) /\ 1 \in 1 .. Len(mMsgPool) + 1
        BY <1>0, <2>2, LinkElements
      <3>2. ToSet(mMsgPool') = ToSet(mMsgPool) \cup {m}
        BY <1>0, <1>2, <3>1, InsertedMembers
      <3>3. Len(mMsgPool') = Len(mMsgPool) + 1 /\ mMsgPool' # <<>>
        BY <1>0, <1>2, <2>2
      <3>4. mMsgPoolSize' = Len(mMsgPool') /\ mMsgPoolSize' <= MaxMsgPoolSize
        BY <1>0, <2>2, <3>3, PoolAssumption DEF PoolReady
      <3>5. msg'[m] = [NewMsg EXCEPT !.mParam = msg'[m].mParam]
        BY <1>0, <1>2, <2>2 DEF recycleUnchecked, NewMsg
      <3>6. \A x \in ToSet(mMsgPool) : msg'[x] = msg[x]
        BY <1>0, <1>2, <2>2
      <3>7. \A x \in ToSet(mMsgPool') : msg'[x] = [NewMsg EXCEPT !.mParam = msg'[x].mParam]
        BY <3>2, <3>5, <3>6 DEF PoolReady
      <3> QED
        BY <3>3, <3>4, <3>7 DEF PoolReady, NewMsg
    <2> QED
      BY <1>2, <2>1, <2>2 DEF recycleMsg
  <1>3. ASSUME NEW c, NEW p, NEW free, ObtainPooled(c, p, free)
        PROVE  PoolReady'
    <2> DEFINE m == Head(mMsgPool)
    <2>1. /\ mMsgPool # <<>> /\ mMsgPool' = Tail(mMsgPool) /\ mMsgPoolSize' = mMsgPoolSize - 1
          /\ mMsgPoolIsFull' = (mMsgPoolSize - 1 # 0) /\ Fill(m, c, p, free)
      BY <1>3 DEF ObtainPooled
    <2>2. Removed(mMsgPool, mMsgPool', 1) /\ 1 \in 1 .. Len(mMsgPool) /\ m = mMsgPool[1]
      BY <1>0, <2>1, TailElements
    <2>3. ToSet(mMsgPool') = ToSet(mMsgPool) \ {m}
      BY <1>0, <2>2, RemovedMembers
    <2>4. Len(mMsgPool') = Len(mMsgPool) - 1
      BY <1>0, <2>1
    <2>5. /\ mMsgPoolSize' = Len(mMsgPool') /\ mMsgPoolSize' <= MaxMsgPoolSize
          /\ mMsgPoolIsFull' => mMsgPool' # <<>>
      <3>1. mMsgPoolSize' = Len(mMsgPool') /\ mMsgPoolSize' <= MaxMsgPoolSize
        BY <1>0, <2>1, <2>4, PoolAssumption DEF PoolReady
      <3>2. mMsgPool' = <<>> => mMsgPoolSize - 1 = 0
        BY <2>1, <3>1
      <3> QED
        BY <2>1, <3>1, <3>2
    <2>6. \A x \in Msgs \ {m} : msg'[x] = msg[x]
      BY <1>0, <2>1 DEF Fill
    <2>7. \A x \in ToSet(mMsgPool') : msg'[x] = [NewMsg EXCEPT !.mParam = msg'[x].mParam]
      <3> HIDE DEF m
      <3> QED
        BY <1>0, <2>3, <2>6 DEF PoolReady
    <2> QED
      BY <2>5, <2>7 DEF PoolReady, NewMsg
  <1>4. CASE Destroy
    <2>1. /\ mMsgPool' = <<>> /\ mMsgPoolSize' = 0 /\ status' = "destroyed"
      BY <1>4 DEF Destroy
    <2>2. ToSet(mMsgPool') = {}
      BY <2>1 DEF ToSet
    <2> QED
      BY <2>1, <2>2, PoolAssumption DEF PoolReady
  <1> QED
    BY <1>1, <1>2, <1>3, <1>4, NextPoolEffect DEF PoolEffect

\* The pool stays within its bound, its counter is right, obtain() pops no empty
\* pool and pooled messages are clean (PoolReady).
THEOREM PoolStaysReady == Spec => []PoolReady
  <1>1. Init => PoolReady
    BY PoolAssumption DEF Init, PoolReady, ToSet
  <1> QED
    BY <1>1, NextKeepsPool, QueueInvariant, PTL DEF Spec, QueueInv

-----------------------------------------------------------------------------
(* Safe quit *)

\* Without a test timeout next() ends a round with nullptr on an empty list only.
LEMMA ExamineDrains ==
  ASSUME Examine \/ ExamineAfterTimed, mOutTimeTest = 0, npc' = "idle"
  PROVE  mMsgQueue = <<>>
  BY DEF Examine, ExamineAfterTimed, TakeHead, PollAgain

\* After a safe quit next() gives up only when every accepted message has been
\* handed out (SafeQuitDrains).
THEOREM SafeQuitDelivers == Spec => SafeQuitDrains
  <1>1. [Next]_vars => [DrainStep]_vars
    <2> SUFFICES ASSUME [Next]_vars, npc \notin {"idle", "returned"}, npc' = "idle",
                        ~mQuit, mOutTimeTest = 0
                 PROVE  mMsgQueue = <<>>
      BY DEF DrainStep
    <2>1. CASE NextStep \/ NextSpurious
      <3>1. ASSUME NEW t, Sleep(t) PROVE FALSE
        BY <3>1 DEF Sleep
      <3> QED
        BY <2>1, <3>1, ExamineDrains DEF NextStep, NextSpurious, NextQuit, NextEnterPosix,
           NextEnterWindows, NextUnlocked, NextToSleep, NextRelock, NextNotified,
           NextTimedOut, WakeUp
    <2>2. CASE ClientStep
      <3>1. ASSUME NEW C, NEW h, UnlinkFirstMatch(C, h) PROVE npc' = npc
        BY <3>1 DEF UnlinkFirstMatch
      <3>2. ASSUME NEW h, RemoveStep(h) PROVE npc' = npc
        BY <3>1, <3>2, RemoveKinds DEF removeAllMessages
      <3> QED
        BY <2>2, <3>2 DEF ClientStep, ObtainStep, ObtainPooled, ObtainNew, MakeInUse,
           recycle, Discard, removeMessage, SendStep, sendMessageDelayed, sendMessageAtFrontOfQueue, postAtTime,
           sendMessageAtTime, EnqueueStep, RejectMessage, RefuseMessage, enqueueMessage,
           SweepStep, SweepKeep, SweepRemove, SweepFault, SweepEnd, setTestOutTimeMillisExit
    <2>3. ASSUME NEW safely \in BOOLEAN, quit(safely) PROVE FALSE
      BY <2>3 DEF quit
    <2> QED
      BY <2>1, <2>2, <2>3 DEF Next, Stopped, vars, Destroy, CallNext, Recycle, Tick
  <1> QED
    BY <1>1, PTL DEF Spec, SafeQuitDrains

-----------------------------------------------------------------------------
(* The looper *)

\* Every step of the looper, of a quitter or of a poster is a step of the
\* queue or leaves it alone.
LEMMA StepUsesQueue ==
  ASSUME [LoopNext]_allVars
  PROVE  [Next]_vars
  <1>1. CASE UNCHANGED allVars
    BY <1>1 DEF allVars
  <1>2. CASE Running /\ (ClientStep \/ Tick)
    BY <1>2 DEF Running, Next
  <1>3. CASE Running /\ (LoopStep \/ LoopSpurious)
    <2>1. \/ UNCHANGED vars
          \/ CallNext \/ NextStep \/ NextSpurious \/ Recycle
      BY <1>3 DEF LoopStep, LoopTop, LoopSize, LoopPromote, LoopCallNext, LoopNextStep,
                  LoopSpurious, LoopDispatch, LoopFault, LoopReturn
    <2> QED
      BY <1>3, <2>1 DEF Running, Next
  <1>4. ASSUME NEW q \in Quitters, Running, QuitStep(q)
        PROVE  [Next]_vars
    <2>1. UNCHANGED vars \/ quit(safe[q])
      BY <1>4 DEF QuitStep, QuitStart, QuitQueue, QuitPromote, QuitExit
    <2>2. quit(TRUE) \/ quit(FALSE) => Next
      BY <1>4 DEF Running, Next
    <2>3. quit(safe[q]) => quit(TRUE) \/ quit(FALSE)
      BY DEF quit
    <2> QED
      BY <2>1, <2>2, <2>3
  <1>5. ASSUME NEW s \in Senders, Running, PostStep(s)
        PROVE  [Next]_vars
    <2>1. CASE PostEnd(s)
      BY <2>1 DEF PostEnd
    <2>2. ASSUME NEW m \in held, NEW h \in Posters, NEW d \in Delays, Post(s, m, h, d)
          PROVE  Next
      <3>1. sendMessageDelayed(s, m, h, d) /\ h \in Handlers
        BY <2>2, PosterAssumption DEF Post
      <3>2. SendStep(s, m)
        BY <3>1 DEF SendStep
      <3>3. ClientStep
        BY <3>2 DEF ClientStep
      <3> QED
        BY <1>5, <3>3 DEF Running, Next
    <2> QED
      BY <1>5, <2>1, <2>2 DEF PostStep
  <1> QED
    BY <1>1, <1>2, <1>3, <1>4, <1>5 DEF LoopNext

\* The looper uses its queue by the queue's own rules: what is shown of
\* MessageQueue holds of a queue under a looper.
LEMMA LooperUsesQueue == LoopSpec => Spec
  <1>1. LoopInit => Init
    BY DEF LoopInit
  <1> QED
    BY <1>1, StepUsesQueue, PTL DEF LoopSpec, Spec

\* On POSIX the looper thread never sleeps through a message or a quit.
THEOREM LooperNoLostWakeup ==
  ASSUME ~Windows
  PROVE  LoopSpec => []NoLostWakeup
  <1>1. Spec => []NoLostWakeup
    BY PosixNoLostWakeup
  <1> QED
    BY <1>1, LooperUsesQueue, PTL

-----------------------------------------------------------------------------
(* mExit is set only behind a closed queue *)

Closed == mQuit \/ mNotEnqueMsg

\* A quitter that is past mQueue->quit() has closed the queue, or found it
\* closed; mExit is set by such a quitter.
ExitInv ==
  /\ qpc \in [Quitters -> {"start", "queue", "promote", "exit", "done"}]
  /\ \A q \in Quitters : qpc[q] \in {"promote", "exit"} => Closed
  /\ mExit => Closed

LEMMA StepKeepsExitInv ==
  ASSUME TypeInv, ExitInv, [LoopNext]_allVars
  PROVE  ExitInv'
  <1>1. Closed => Closed'
    BY StepUsesQueue, NextListStep DEF Closed, ListStep, KeepsFlags
  <1>2. CASE UNCHANGED <<qpc, mExit>>
    BY <1>1, <1>2 DEF ExitInv
  <1>3. ASSUME NEW q \in Quitters, QuitStart(q)
        PROVE  ExitInv'
    <2>1. \E place \in {"done", "queue"} : qpc' = [qpc EXCEPT ![q] = place]
      BY <1>3 DEF QuitStart
    <2>2. mExit' = mExit
      BY <1>3 DEF QuitStart, looperVars
    <2> QED
      BY <1>1, <2>1, <2>2 DEF ExitInv
  <1>4. ASSUME NEW q \in Quitters, QuitQueue(q)
        PROVE  ExitInv'
    <2>1. Closed'
      <3>1. CASE quit(safe[q])
        BY <3>1 DEF quit, Closed
      <3>2. CASE mQuit
        BY <1>1, <3>2 DEF Closed
      <3> QED
        BY <1>4, <3>1, <3>2 DEF QuitQueue
    <2>2. \E place \in {"promote", "exit"} : qpc' = [qpc EXCEPT ![q] = place]
      BY <1>4 DEF QuitQueue
    <2> QED
      BY <2>1, <2>2 DEF ExitInv
  <1>5. ASSUME NEW q \in Quitters, QuitPromote(q) \/ QuitExit(q)
        PROVE  ExitInv'
    <2>1. Closed'
      BY <1>1, <1>5 DEF QuitPromote, QuitExit, ExitInv
    <2>2. \E place \in {"exit", "done"} : qpc' = [qpc EXCEPT ![q] = place]
      BY <1>5 DEF QuitPromote, QuitExit
    <2> QED
      BY <2>1, <2>2 DEF ExitInv
  <1>6. CASE LoopStep \/ LoopSpurious
    BY <1>2, <1>6 DEF LoopStep, LoopTop, LoopSize, LoopPromote, LoopCallNext, LoopNextStep,
       LoopSpurious, LoopDispatch, LoopFault, LoopReturn, looperVars, quitVars
  <1>7. ASSUME NEW s \in Senders, PostStep(s)
        PROVE  ExitInv'
    BY <1>2, <1>7 DEF PostStep, Post, PostEnd, looperVars, quitVars
  <1>8. CASE UNCHANGED <<looperVars, quitVars, handlerVars>>
    BY <1>2, <1>8 DEF looperVars, quitVars
  <1>9. CASE UNCHANGED allVars
    BY <1>8, <1>9 DEF allVars
  <1> QED
    BY <1>3, <1>4, <1>5, <1>6, <1>7, <1>8, <1>9 DEF LoopNext, QuitStep

\* Whoever sees mExit sees a queue that accepts nothing any more: the size the
\* loop reads afterwards can only go down.
THEOREM ExitImpliesClosed == LoopSpec => []ExitMeansClosed
  <1>1. LoopInit => ExitInv
    BY DEF LoopInit, ExitInv
  <1>2. Spec => []TypeInv
    BY InitType, NextKeepsType, PTL DEF Spec
  <1>3. ExitInv => ExitMeansClosed
    BY DEF ExitInv, ExitMeansClosed, Closed
  <1> QED
    BY <1>1, <1>2, <1>3, LooperUsesQueue, StepKeepsExitInv, PTL
    DEF LoopSpec

-----------------------------------------------------------------------------
(* loop() ends behind a drained queue *)

USE DEF msgVars, listVars, poolVars, flagVars, nextVars

\* What the queue's own theorems say of a queue under a looper.
LEMMA LooperKeepsQueue == LoopSpec => []QueueInv
  BY QueueInvariant, LooperUsesQueue, PTL

\* The looper thread looks at the size only once it has seen mExit, a queue that
\* has quit is empty, and next() has given up on a closed and empty queue.  The
\* last part needs the second: a quit may come while next() sleeps.
DrainInv ==
  /\ lpc = "size" => mExit
  /\ mQuit => mMsgQueue = <<>>
  /\ lpc = "next" /\ npc = "idle" /\ mOutTimeTest = 0 => Closed /\ mMsgQueue = <<>>

\* A closed and empty queue stays closed and empty.
LEMMA ClosedStaysEmpty ==
  ASSUME TypeInv, [Next]_vars, Closed, mMsgQueue = <<>>
  PROVE  Closed' /\ mMsgQueue' = <<>>
  <1>1. Closed' /\ Shrinks
    BY NextListStep DEF Closed, ListStep, KeepsFlags
  <1>2. mMsgQueue' \in Seq(Msgs)
    BY NextKeepsType DEF TypeInv, TypeOK
  <1>3. ToSet(mMsgQueue') = {}
    BY <1>1 DEF Shrinks, ToSet
  <1>4. mMsgQueue' # <<>> => mMsgQueue'[1] \in ToSet(mMsgQueue')
    BY <1>2 DEF ToSet
  <1> QED
    BY <1>1, <1>3, <1>4

\* A queue that quits drops its messages and gets no new ones.
LEMMA QuitEmpties ==
  ASSUME QueueInv, [Next]_vars, mQuit => mMsgQueue = <<>>
  PROVE  mQuit' => mMsgQueue' = <<>>
  <1>1. CASE mQuit
    BY <1>1, ClosedStaysEmpty DEF QueueInv, Closed
  <1>2. CASE ~mQuit
    BY <1>2, NextListEffect DEF QueueInv, ListEffect, ListKept, enqueueMessage, Unlinked,
       Taken, Cleared
  <1> QED
    BY <1>1, <1>2

\* next() gives up only on a closed and empty queue, unless a test timeout is set.
LEMMA NextGivesUp ==
  ASSUME NextStep \/ NextSpurious, mQuit => mMsgQueue = <<>>,
         npc' = "idle", mOutTimeTest' = 0
  PROVE  Closed' /\ mMsgQueue' = <<>>
  <1>1. UNCHANGED <<mQuit, mNotEnqueMsg, mOutTimeTest>>
    BY LooperKinds DEF QuietNext
  <1>2. ASSUME NEW t, Sleep(t) PROVE FALSE
    BY <1>2 DEF Sleep
  <1>3. CASE Examine \/ ExamineAfterTimed
    BY <1>1, <1>3 DEF Examine, ExamineAfterTimed, TakeHead, PollAgain, ReturnNull, Closed
  <1>4. CASE NextQuit
    BY <1>1, <1>4 DEF NextQuit, ReturnNull, Closed
  <1> QED
    BY <1>2, <1>3, <1>4 DEF NextStep, NextSpurious, NextEnterPosix, NextEnterWindows,
       NextUnlocked, NextToSleep, NextRelock, NextNotified, NextTimedOut, WakeUp

\* Everybody else leaves the looper thread where it is.
LEMMA ClientsKeepPlace ==
  ASSUME ClientStep
  PROVE  npc' = npc /\ (mOutTimeTest' = mOutTimeTest \/ mOutTimeTest' \in OutTimes)
  <1>1. ASSUME NEW C, NEW h, UnlinkFirstMatch(C, h) PROVE UNCHANGED <<npc, mOutTimeTest>>
    BY <1>1 DEF UnlinkFirstMatch
  <1>2. ASSUME NEW h, RemoveStep(h) PROVE UNCHANGED <<npc, mOutTimeTest>>
    BY <1>1, <1>2, RemoveKinds DEF removeAllMessages
  <1> QED
    BY <1>2 DEF ClientStep, ObtainStep, ObtainPooled, ObtainNew, MakeInUse, recycle, Discard,
       removeMessage, SendStep, sendMessageDelayed, sendMessageAtFrontOfQueue, postAtTime,
       sendMessageAtTime, EnqueueStep, RejectMessage, RefuseMessage, enqueueMessage,
       SweepStep, SweepKeep, SweepRemove, SweepFault, SweepEnd, setTestOutTimeMillisExit

\* DrainInv is preserved by every step.
LEMMA StepKeepsDrainInv ==
  ASSUME 0 \notin OutTimes, QueueInv, ExitInv, DrainInv, [LoopNext]_allVars
  PROVE  DrainInv'
  <1>0. TypeInv /\ [Next]_vars
    BY StepUsesQueue DEF QueueInv
  <1>1. mQuit' => mMsgQueue' = <<>>
    BY <1>0, QuitEmpties DEF DrainInv
  <1>2. ASSUME lpc' = lpc, npc' = npc, mOutTimeTest' = mOutTimeTest \/ mOutTimeTest' \in OutTimes,
               mExit => mExit'
        PROVE  DrainInv'
    BY <1>0, <1>1, <1>2, ClosedStaysEmpty DEF DrainInv
  <1>3. CASE UNCHANGED allVars
    BY <1>2, <1>3 DEF allVars, vars, looperVars
  <1>4. CASE (ClientStep \/ Tick) /\ UNCHANGED <<looperVars, quitVars, handlerVars>>
    BY <1>2, <1>4, ClientsKeepPlace DEF Tick, looperVars
  <1>5. ASSUME NEW q \in Quitters, QuitStep(q) PROVE DrainInv'
    BY <1>2, <1>5 DEF QuitStep, QuitStart, QuitQueue, QuitPromote, QuitExit, quit,
       looperVars, vars
  <1>6. ASSUME NEW s \in Senders, PostStep(s) PROVE DrainInv'
    BY <1>2, <1>6 DEF PostStep, Post, PostEnd, sendMessageDelayed, sendMessageAtTime,
       looperVars, vars
  <1>7. CASE LoopNextStep \/ LoopSpurious
    BY <1>1, <1>7, NextGivesUp DEF LoopNextStep, LoopSpurious, looperVars, DrainInv
  <1>8. CASE LoopTop \/ LoopSize \/ LoopPromote \/ LoopDispatch \/ LoopFault \/ LoopReturn
    BY <1>1, <1>8 DEF LoopTop, LoopSize, LoopPromote, LoopDispatch, LoopFault, LoopReturn,
       DrainInv
  <1>9. CASE LoopCallNext
    BY <1>1, <1>9 DEF LoopCallNext, CallNext, DrainInv
  <1> QED
    BY <1>3, <1>4, <1>5, <1>6, <1>7, <1>8, <1>9 DEF LoopNext, LoopStep

\* loop() ends only when the queue is closed and every message that was accepted
\* has been dispatched or dropped by an unsafe quit (LoopEndsDrained).  A client that
\* sets a test timeout does not take it back: next() may have given up on it.
THEOREM LoopEndsOnEmptyQueue ==
  ASSUME 0 \notin OutTimes
  PROVE  LoopSpec => LoopEndsDrained
  <1>1. LoopInit => ExitInv /\ DrainInv
    BY DEF LoopInit, Init, ExitInv, DrainInv
  <1>2. QueueInv /\ ExitInv /\ [LoopNext]_allVars => ExitInv'
    BY StepKeepsExitInv DEF QueueInv
  <1>3. QueueInv /\ ExitInv /\ DrainInv /\ [LoopNext]_allVars => DrainInv'
    BY StepKeepsDrainInv
  <1>4. QueueInv /\ ExitInv /\ DrainInv /\ [LoopNext]_allVars => [LoopEndStep]_allVars
    <2> SUFFICES ASSUME QueueInv, ExitInv, DrainInv, [LoopNext]_allVars,
                        lpc # "out", lpc' = "out", mOutTimeTest = 0
                 PROVE  Closed /\ mMsgQueue = <<>>
      BY DEF LoopEndStep, Closed
    <2>1. LoopSize \/ LoopReturn
      BY DEF LoopNext, LoopStep, LoopTop, LoopPromote, LoopCallNext, LoopNextStep,
         LoopSpurious, LoopDispatch, LoopFault, QuitStep, QuitStart, QuitQueue, QuitPromote,
         QuitExit, PostStep, Post, PostEnd, allVars, looperVars
    <2>2. CASE LoopReturn
      BY <2>2 DEF LoopReturn, DrainInv
    <2>3. CASE LoopSize
      <3>1. Closed /\ mMsgQueueSize = 0
        BY <2>3 DEF LoopSize, DrainInv, ExitInv
      <3>2. mMsgQueue \in Seq(Msgs) /\ (~mQuit => Len(mMsgQueue) = 0)
        BY <3>1 DEF QueueInv, TypeInv, TypeOK, ListInv, SizeCounts
      <3> QED
        BY <3>1, <3>2 DEF DrainInv
    <2> QED
      BY <2>1, <2>2, <2>3
  <1> QED
    BY <1>1, <1>2, <1>3, <1>4, LooperKeepsQueue, PTL DEF LoopSpec, LoopEndsDrained

=============================================================================
