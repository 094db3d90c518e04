---------------------------- MODULE MessageLooper ----------------------------
(***************************************************************************)
(* MsgLooper (src/looper/MessageLooper.cpp) around its MsgQueue: the loop of *)
(* the looper thread, quit() called by other threads, and the dispatch to    *)
(* handlers (MessageHandler.cpp), which messages name by a raw pointer.      *)
(*                                                                           *)
(* loop() and quit() take no lock: mExit and mPromoteThrLevel are written by *)
(* one thread and read by another, and every read and every write is a step. *)
(***************************************************************************)
EXTENDS MessageQueue

CONSTANTS
  Quitters,      \* threads that call MsgLooper::quit(), once each
  Posters        \* handlers whose clients call post()

ASSUME PosterAssumption == Posters \subseteq Handlers

VARIABLES
  lpc,              \* where the looper thread is in loop()
  mExit,
  mPromoteThrLevel,
  qpc,              \* per quitter: where it is in quit()
  safe,             \* per quitter: the argument "safely"
  handlers,         \* MsgHandler objects that have not been deleted
  poster            \* per client thread: the handler whose post() it runs

looperVars == <<lpc, mExit, mPromoteThrLevel>>
quitVars == <<qpc, safe>>
handlerVars == <<handlers, poster>>
allVars == <<vars, looperVars, quitVars, handlerVars>>

\* The looper thread has entered loop(); prepare() made the queue before.
LoopInit ==
  /\ Init
  /\ lpc = "top"
  /\ mExit = FALSE /\ mPromoteThrLevel = FALSE
  /\ qpc = [q \in Quitters |-> "start"]
  /\ safe \in [Quitters -> BOOLEAN]
  /\ handlers = Handlers
  /\ poster = [s \in Senders |-> NULL]

-----------------------------------------------------------------------------
(* MsgLooper::loop() *)

\* The first read of mExit.
LoopTop ==
  /\ lpc = "top"
  /\ lpc' = IF mExit THEN "size" ELSE "promote"
  /\ UNCHANGED <<vars, mExit, mPromoteThrLevel, quitVars, handlerVars>>

\* Faulty variant: off by one.
LoopSizeOne ==
  /\ lpc = "size" /\ sweep = NULL
  /\ lpc' = IF mMsgQueueSize <= 1 THEN "out" ELSE "promote"
  /\ UNCHANGED <<vars, mExit, mPromoteThrLevel, quitVars, handlerVars>>

\* mQueue->getQueueSize() == 0, under mLock.
LoopSize ==
  /\ lpc = "size" /\ sweep = NULL
  /\ lpc' = IF mMsgQueueSize = 0 THEN "out" ELSE "promote"
  /\ UNCHANGED <<vars, mExit, mPromoteThrLevel, quitVars, handlerVars>>

\* if (mExit && mPromoteThrLevel) raise the priority of this thread.
LoopPromote ==
  /\ lpc = "promote" /\ mExit /\ mPromoteThrLevel
  /\ lpc' = "lower"
  /\ UNCHANGED <<vars, mExit, mPromoteThrLevel, quitVars, handlerVars>>

\* Reset mPromoteThrLevel if the priority was raised, and call next().  A
\* quit(true) that set the flag again in between is overwritten.
LoopCallNext ==
  /\ \/ lpc = "promote" /\ ~(mExit /\ mPromoteThrLevel) /\ UNCHANGED mPromoteThrLevel
     \/ lpc = "lower" /\ mPromoteThrLevel' = FALSE
  /\ lpc' = "next"
  /\ CallNext
  /\ UNCHANGED <<mExit, quitVars, handlerVars>>

\* One step of next().
LoopNextStep ==
  /\ lpc = "next"
  /\ NextStep
  /\ UNCHANGED <<looperVars, quitVars, handlerVars>>

LoopSpurious ==
  /\ lpc = "next"
  /\ NextSpurious
  /\ UNCHANGED <<looperVars, quitVars, handlerVars>>

\* dispatchMessage() has run the callback, on a handler that still exists or
\* on a deleted one that happened to work; then recycleMsg().
LoopDispatch ==
  /\ lpc = "next" /\ npc = "returned"
  /\ lpc' = "top"
  /\ Recycle
  /\ UNCHANGED <<mExit, mPromoteThrLevel, quitVars, handlerVars>>

\* dispatchMessage() on a deleted handler goes wrong.
LoopFault ==
  /\ lpc = "next" /\ npc = "returned"
  /\ msg[ret].mTarget \notin handlers
  /\ lpc' = "crashed"
  /\ UNCHANGED <<vars, mExit, mPromoteThrLevel, quitVars, handlerVars>>

\* next() returned null.
LoopReturn ==
  /\ lpc = "next" /\ npc = "idle"
  /\ lpc' = "out"
  /\ UNCHANGED <<vars, mExit, mPromoteThrLevel, quitVars, handlerVars>>

LoopStep ==
  \/ LoopTop \/ LoopSize \/ LoopPromote \/ LoopCallNext \/ LoopNextStep
  \/ LoopDispatch \/ LoopFault \/ LoopReturn

-----------------------------------------------------------------------------
(* MsgLooper::quit(safely) *)

\* Faulty variant: mExit is set before the queue is closed.
QuitStartSetsExit(q) ==
  /\ qpc[q] = "start"
  /\ qpc' = [qpc EXCEPT ![q] = IF mExit THEN "done" ELSE "queue"]
  /\ mExit' = TRUE
  /\ UNCHANGED <<vars, lpc, mPromoteThrLevel, safe, handlerVars>>

\* The first read of mExit: a second quit() does nothing.
QuitStart(q) ==
  /\ qpc[q] = "start"
  /\ qpc' = [qpc EXCEPT ![q] = IF mExit THEN "done" ELSE "queue"]
  /\ UNCHANGED <<vars, looperVars, safe, handlerVars>>

\* mQueue->quit(safely), which returns at once on a queue that has quit.
QuitQueue(q) ==
  /\ qpc[q] = "queue"
  /\ qpc' = [qpc EXCEPT ![q] = IF safe[q] THEN "promote" ELSE "exit"]
  /\ \/ quit(safe[q])
     \/ mQuit /\ sweep = NULL /\ UNCHANGED vars
  /\ UNCHANGED <<looperVars, safe, handlerVars>>

QuitPromote(q) ==
  /\ qpc[q] = "promote"
  /\ qpc' = [qpc EXCEPT ![q] = "exit"]
  /\ mPromoteThrLevel' = TRUE
  /\ UNCHANGED <<vars, lpc, mExit, safe, handlerVars>>

QuitExit(q) ==
  /\ qpc[q] = "exit"
  /\ qpc' = [qpc EXCEPT ![q] = "done"]
  /\ mExit' = TRUE
  /\ UNCHANGED <<vars, lpc, mPromoteThrLevel, safe, handlerVars>>

QuitStep(q) == QuitStart(q) \/ QuitQueue(q) \/ QuitPromote(q) \/ QuitExit(q)

-----------------------------------------------------------------------------
(* MsgHandler lifetime *)

\* post(r, delay): sendMessageDelayed with a temporary Handler(this, deleter).
Post(s, m, h, d) ==
  /\ poster[s] = NULL
  /\ h \in handlers
  /\ sendMessageDelayed(s, m, h, d)
  /\ poster' = [poster EXCEPT ![s] = h]
  /\ UNCHANGED <<looperVars, quitVars, handlers>>

\* The end of post(): the temporary shared_ptr deletes the handler.
PostEnd(s) ==
  /\ poster[s] # NULL /\ call[s] = NULL
  /\ handlers' = handlers \ {poster[s]}
  /\ poster' = [poster EXCEPT ![s] = NULL]
  /\ UNCHANGED <<vars, looperVars, quitVars>>

PostStep(s) ==
  \/ \E m \in held, h \in Posters, d \in Delays : Post(s, m, h, d)
  \/ PostEnd(s)

-----------------------------------------------------------------------------
\* No invalid memory has been used: the process lives.
Running == status = "running" /\ lpc # "crashed"

LoopNext ==
  \/ /\ Running
     /\ \/ (ClientStep \/ Tick) /\ UNCHANGED <<looperVars, quitVars, handlerVars>>
        \/ LoopStep \/ LoopSpurious
        \/ \E q \in Quitters : QuitStep(q)
        \/ \E s \in Senders : PostStep(s)
  \/ ~Running /\ UNCHANGED allVars

LoopSpec == LoopInit /\ [][LoopNext]_allVars

\* The scheduler runs the looper thread, a thread that has called quit() and
\* a thread that holds mLock in removeAllMessages(); a thread that waits for
\* mLock gets it in the end although others take it again and again (hence SF);
\* the clock goes on.  Nothing makes a client obtain, send or remove a message.
Fairness ==
  /\ SF_allVars(Running /\ LoopStep)
  /\ \A q \in Quitters :
       SF_allVars(Running /\ qpc[q] # "start" /\ QuitStep(q))
  /\ WF_allVars(/\ Running /\ SweepStep
                /\ UNCHANGED <<looperVars, quitVars, handlerVars>>)
  /\ WF_allVars(/\ Running /\ Tick
                /\ UNCHANGED <<looperVars, quitVars, handlerVars>>)

FairLoopSpec == LoopSpec /\ Fairness

-----------------------------------------------------------------------------
(* Properties *)

\* mExit is the looper's promise that the queue is closed: whoever reads
\* mExit before the size of the queue can rely on the size never growing.
ExitMeansClosed == mExit => mQuit \/ mNotEnqueMsg

\* loop() ends only when the queue has been closed and, if no quit was unsafe,
\* every message accepted before is dispatched.
LoopEndStep ==
  lpc # "out" /\ lpc' = "out" /\ mOutTimeTest = 0 =>
    (mQuit \/ mNotEnqueMsg) /\ mMsgQueue = <<>>
LoopEndsDrained == [][LoopEndStep]_allVars

\* A message that is in the list leaves it: it is dispatched or removed, or a
\* quit drops it.  (No front insertions here: they can overtake it for ever.)
AcceptedIsHandled ==
  \A m \in Msgs :
    m \in ToSet(mMsgQueue) ~> m \notin ToSet(mMsgQueue) \/ ~Running

\* Once a call of quit() is past its first check, the looper thread leaves
\* loop(): it is woken up if it sleeps, and a stale mMsgQueueSize or a delayed
\* message does not keep it.
QuitEndsLoop ==
  \A q \in Quitters : qpc[q] = "queue" ~> lpc = "out" \/ ~Running

=============================================================================
