---------------------------- MODULE LooperThread ----------------------------
(***************************************************************************)
(* LooperThread (src/looper/LooperThread.cpp) as built on POSIX, with the   *)
(* start handshake of ThreadBase and the Semaphore it waits on: clients get *)
(* the looper, which starts its thread, quit it, and one of them destroys   *)
(* the object.                                                              *)
(*                                                                          *)
(* The looper itself is one bit, closed: MessageLooper shows that a loop    *)
(* ends once its queue is closed, and not before.  A client that has the    *)
(* looper may call its quit() directly, without mMutex; a message handler   *)
(* may call back into the object.                                           *)
(***************************************************************************)
EXTENDS Integers

CONSTANTS
  Clients,   \* threads that hold the LooperThread
  NULL

ASSUME ClientAssumption == NULL \notin Clients

VARIABLES
  object,         \* "alive", "dying" in its destructor, or "dead"
  mMutex,         \* who holds it, or NULL
  mLooperThr,     \* the ThreadBase exists
  mIsJoined,      \* ThreadBase: join() will wait for the thread
  mLooper,        \* the looper exists
  mIsRunning,
  mSem,           \* the semaphore's value
  mLooperExited,
  closed,         \* the looper's queue is closed
  data,           \* the threaddata: "none", "live" or "freed"
  tpc,            \* where the thread is
  cpc,            \* where each client is
  got             \* clients to whom getLooper() has returned

vars == <<object, mMutex, mLooperThr, mIsJoined, mLooper, mIsRunning, mSem,
          mLooperExited, closed, data, tpc, cpc, got>>

Init ==
  /\ object = "alive"
  /\ mMutex = NULL
  /\ mLooperThr = FALSE /\ mIsJoined = FALSE
  /\ mLooper = FALSE /\ mIsRunning = FALSE
  /\ mSem = 0
  /\ mLooperExited = FALSE /\ closed = FALSE
  /\ data = "none"
  /\ tpc = "none"
  /\ cpc = [c \in Clients |-> "idle"]
  /\ got = {}

-----------------------------------------------------------------------------
(* getLooper() *)

GetLooper(c) ==
  /\ cpc[c] = "idle" /\ object = "alive"
  /\ cpc' = [cpc EXCEPT ![c] = "start"]
  /\ UNCHANGED <<object, mMutex, mLooperThr, mIsJoined, mLooper, mIsRunning,
                 mSem, mLooperExited, closed, data, tpc, got>>

\* start() when the thread exists.
Started(c) ==
  /\ cpc[c] = "start" /\ mMutex = NULL
  /\ mLooperThr
  /\ cpc' = [cpc EXCEPT ![c] = "check"]
  /\ UNCHANGED <<object, mMutex, mLooperThr, mIsJoined, mLooper, mIsRunning,
                 mSem, mLooperExited, closed, data, tpc, got>>

\* start() makes the thread object and its data.
Start(c) ==
  /\ cpc[c] = "start" /\ mMutex = NULL
  /\ ~mLooperThr
  /\ mMutex' = c
  /\ mLooperThr' = TRUE
  /\ data' = "live"
  /\ cpc' = [cpc EXCEPT ![c] = "create"]
  /\ UNCHANGED <<object, mIsJoined, mLooper, mIsRunning, mSem, mLooperExited,
                 closed, tpc, got>>

\* pthread_create succeeds; the thread runs from here on.
Create(c) ==
  /\ cpc[c] = "create"
  /\ tpc' = "entry"
  /\ cpc' = [cpc EXCEPT ![c] = "created"]
  /\ UNCHANGED <<object, mMutex, mLooperThr, mIsJoined, mLooper, mIsRunning,
                 mSem, mLooperExited, closed, data, got>>

\* pthread_create fails; LooperThread does not look at the result.
CreateFails(c) ==
  /\ cpc[c] = "create"
  /\ data' = "freed"
  /\ tpc' = "failed"
  /\ mIsJoined' = TRUE
  /\ mMutex' = NULL
  /\ cpc' = [cpc EXCEPT ![c] = "check"]
  /\ UNCHANGED <<object, mLooperThr, mLooper, mIsRunning, mSem, mLooperExited,
                 closed, got>>

\* Faulty variant: the thread is started to be detached.
CreatedDetached(c) ==
  /\ cpc[c] = "created"
  /\ mMutex' = NULL
  /\ cpc' = [cpc EXCEPT ![c] = "check"]
  /\ UNCHANGED <<object, mLooperThr, mIsJoined, mLooper, mIsRunning, mSem,
                 mLooperExited, closed, data, tpc, got>>

\* data->lock(), which reads the data and then locks nothing, and the rest of
\* both start() functions.
Created(c) ==
  /\ cpc[c] = "created"
  /\ mIsJoined' = TRUE
  /\ mMutex' = NULL
  /\ cpc' = [cpc EXCEPT ![c] = "check"]
  /\ UNCHANGED <<object, mLooperThr, mLooper, mIsRunning, mSem, mLooperExited,
                 closed, data, tpc, got>>

\* isRunning() is true: getLooper() returns.
Running(c) ==
  /\ cpc[c] = "check" /\ mMutex = NULL
  /\ mIsRunning /\ mLooper
  /\ cpc' = [cpc EXCEPT ![c] = "idle"]
  /\ got' = got \cup {c}
  /\ UNCHANGED <<object, mMutex, mLooperThr, mIsJoined, mLooper, mIsRunning,
                 mSem, mLooperExited, closed, data, tpc>>

NotRunning(c) ==
  /\ cpc[c] = "check" /\ mMutex = NULL
  /\ ~(mIsRunning /\ mLooper)
  /\ cpc' = [cpc EXCEPT ![c] = "wait"]
  /\ UNCHANGED <<object, mMutex, mLooperThr, mIsJoined, mLooper, mIsRunning,
                 mSem, mLooperExited, closed, data, tpc, got>>

\* Faulty variant: whoever was waiting takes the looper to run.
SemWaitReturns(c) ==
  /\ cpc[c] = "wait"
  /\ mSem' = IF mSem > 0 THEN mSem - 1 ELSE 0
  /\ cpc' = [cpc EXCEPT ![c] = "idle"]
  /\ got' = got \cup {c}
  /\ UNCHANGED <<object, mMutex, mLooperThr, mIsJoined, mLooper, mIsRunning,
                 mLooperExited, closed, data, tpc>>

\* mSem.wait(100): the thread's post, or 100 ms without one.
SemWait(c) ==
  /\ cpc[c] = "wait"
  /\ \/ mSem > 0 /\ mSem' = mSem - 1
     \/ mSem = 0 /\ UNCHANGED mSem
  /\ cpc' = [cpc EXCEPT ![c] = "check"]
  /\ UNCHANGED <<object, mMutex, mLooperThr, mIsJoined, mLooper, mIsRunning,
                 mLooperExited, closed, data, tpc, got>>

-----------------------------------------------------------------------------
(* quit(), quitSafely() and the destructor *)

\* Under mMutex, by a client or by a handler; else nothing is changed.
QuitBody ==
  /\ mLooper /\ ~mLooperExited
  /\ closed' = TRUE
  /\ mLooperExited' = TRUE

\* Faulty variant: quit() does not take mMutex.
QuitUnlocked(c) ==
  /\ cpc[c] = "idle" /\ object = "alive"
  /\ QuitBody
  /\ UNCHANGED <<object, mMutex, mLooperThr, mIsJoined, mLooper, mIsRunning,
                 mSem, data, tpc, cpc, got>>

Quit(c) ==
  /\ cpc[c] = "idle" /\ object = "alive" /\ mMutex = NULL
  /\ QuitBody
  /\ UNCHANGED <<object, mMutex, mLooperThr, mIsJoined, mLooper, mIsRunning,
                 mSem, data, tpc, cpc, got>>

\* MsgLooper::quit() on the looper that getLooper() returned.
LooperQuit(c) ==
  /\ cpc[c] = "idle" /\ c \in got
  /\ closed' = TRUE
  /\ UNCHANGED <<object, mMutex, mLooperThr, mIsJoined, mLooper, mIsRunning,
                 mSem, mLooperExited, data, tpc, cpc, got>>

\* ~LooperThread; no client is in another call.
Destroy(c) ==
  /\ object = "alive" /\ \A d \in Clients : cpc[d] = "idle"
  /\ mMutex = NULL
  /\ mMutex' = c
  /\ mLooperExited' = TRUE
  /\ closed' = (closed \/ mLooperThr)
  /\ object' = "dying"
  /\ cpc' = [cpc EXCEPT ![c] = "join"]
  /\ UNCHANGED <<mLooperThr, mIsJoined, mLooper, mIsRunning, mSem,
                 data, tpc, got>>

\* join(), if there is a thread to join, and the end of the destructor.
Join(c) ==
  /\ cpc[c] = "join"
  /\ mLooperThr /\ mIsJoined => tpc = "ended"
  /\ mIsJoined' = FALSE
  /\ mLooperThr' = FALSE
  /\ mMutex' = NULL
  /\ object' = "dead"
  /\ cpc' = [cpc EXCEPT ![c] = "idle"]
  /\ UNCHANGED <<mLooper, mIsRunning, mSem, mLooperExited, closed, data, tpc, got>>

-----------------------------------------------------------------------------
(* The looper's thread: startThread, runThreadFunc and looper() *)

Prepare ==
  /\ tpc = "entry"
  /\ mLooper' = TRUE
  /\ tpc' = "prepared"
  /\ UNCHANGED <<object, mMutex, mLooperThr, mIsJoined, mIsRunning, mSem,
                 mLooperExited, closed, data, cpc, got>>

\* Faulty variant: the flag is forgotten.
SetRunningForgets ==
  /\ tpc = "prepared"
  /\ tpc' = "running"
  /\ UNCHANGED <<object, mMutex, mLooperThr, mIsJoined, mLooper, mIsRunning, mSem,
                 mLooperExited, closed, data, cpc, got>>

SetRunning ==
  /\ tpc = "prepared"
  /\ mIsRunning' = TRUE
  /\ tpc' = "running"
  /\ UNCHANGED <<object, mMutex, mLooperThr, mIsJoined, mLooper, mSem,
                 mLooperExited, closed, data, cpc, got>>

SemPost ==
  /\ tpc = "running"
  /\ mSem' = mSem + 1
  /\ tpc' = "loop"
  /\ UNCHANGED <<object, mMutex, mLooperThr, mIsJoined, mLooper, mIsRunning,
                 mLooperExited, closed, data, cpc, got>>

\* A handler, of a client's message, calls quit() on the object.
Handler ==
  /\ tpc = "loop"
  /\ got # {}
  /\ tpc' = "handler"
  /\ UNCHANGED <<object, mMutex, mLooperThr, mIsJoined, mLooper, mIsRunning,
                 mSem, mLooperExited, closed, data, cpc, got>>

\* The handler's call has the mutex and returns.
HandlerQuit ==
  /\ tpc = "handler" /\ mMutex = NULL
  /\ QuitBody \/ (mLooperExited /\ UNCHANGED <<closed, mLooperExited>>)
  /\ tpc' = "loop"
  /\ UNCHANGED <<object, mMutex, mLooperThr, mIsJoined, mLooper, mIsRunning,
                 mSem, data, cpc, got>>

\* loop() returns.
LoopReturns ==
  /\ tpc = "loop" /\ closed
  /\ tpc' = "delete"
  /\ UNCHANGED <<object, mMutex, mLooperThr, mIsJoined, mLooper, mIsRunning,
                 mSem, mLooperExited, closed, data, cpc, got>>

\* startThread deletes its data and the thread ends.
DeleteData ==
  /\ tpc = "delete"
  /\ data' = "freed"
  /\ tpc' = "ended"
  /\ UNCHANGED <<object, mMutex, mLooperThr, mIsJoined, mLooper, mIsRunning,
                 mSem, mLooperExited, closed, cpc, got>>

-----------------------------------------------------------------------------
\* The destructor joins the thread while a handler waits for mMutex.
CallbackDeadlock ==
  /\ tpc = "handler"
  /\ \E c \in Clients : cpc[c] = "join" /\ mMutex = c

\* Nothing is left to do, or nothing can be done.
Stopped ==
  /\ object = "dead" \/ CallbackDeadlock
  /\ UNCHANGED vars

StartStep(c) ==
  Started(c) \/ Start(c) \/ Create(c) \/ CreateFails(c) \/ Created(c)
WaitStep(c) == Running(c) \/ NotRunning(c) \/ SemWait(c)
ThreadStep ==
  Prepare \/ SetRunning \/ SemPost \/ HandlerQuit \/ LoopReturns \/ DeleteData

Next ==
  \/ \E c \in Clients :
       \/ GetLooper(c) \/ StartStep(c) \/ WaitStep(c)
       \/ Quit(c) \/ LooperQuit(c) \/ Destroy(c) \/ Join(c)
  \/ ThreadStep \/ Handler
  \/ Stopped

Spec == Init /\ [][Next]_vars

\* Threads run: a call that has begun and the looper's thread go on whenever
\* they can.  Nothing makes a client call, and handlers may come again and
\* again, but a loop whose queue is closed runs out of messages.
Fairness ==
  /\ \A c \in Clients :
       WF_vars(StartStep(c)) /\ WF_vars(WaitStep(c)) /\ WF_vars(Join(c))
  /\ WF_vars(ThreadStep) /\ SF_vars(LoopReturns)

FairSpec == Spec /\ Fairness

-----------------------------------------------------------------------------
(* Properties *)

\* Types; the thread posts once.
TypeOK ==
  /\ object \in {"alive", "dying", "dead"}
  /\ mLooperThr \in BOOLEAN /\ mIsJoined \in BOOLEAN
  /\ mLooper \in BOOLEAN /\ mIsRunning \in BOOLEAN
  /\ mLooperExited \in BOOLEAN /\ closed \in BOOLEAN
  /\ mMutex \in Clients \cup {NULL}
  /\ mSem \in 0 .. 1
  /\ data \in {"none", "live", "freed"}
  /\ tpc \in {"none", "failed", "entry", "prepared", "running", "loop",
              "handler", "delete", "ended"}
  /\ cpc \in [Clients -> {"idle", "start", "create", "created", "check",
                          "wait", "join"}]
  /\ got \subseteq Clients

\* getLooper() never returns a null looper, although the thread sets mLooper
\* without mMutex, and the destructor's mLooper->quit() never meets one.
LooperReady ==
  /\ got # {} => mLooper
  /\ \A c \in Clients : cpc[c] = "join" /\ mLooperThr => mLooper

\* ThreadBase::start() reads the thread's data after pthread_create, when the
\* thread may be at work: under LooperThread it is never deleted by then, as
\* nobody can end the loop before start() gives mMutex up.
StartDataLive == \A c \in Clients : cpc[c] = "created" => data = "live"

\* The object is destroyed only when its thread, which uses it, is over.
ThreadOutlived == object = "dead" => tpc \in {"none", "ended"}

\* getLooper() returns unless the thread could not be created, and the
\* destructor returns unless a handler calls back into the object.
CallsReturn ==
  \A c \in Clients :
    /\ cpc[c] = "start" ~> cpc[c] = "idle" \/ tpc = "failed"
    /\ cpc[c] = "join" ~> object = "dead" \/ CallbackDeadlock

=============================================================================
