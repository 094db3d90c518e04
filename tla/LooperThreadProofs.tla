------------------------- MODULE LooperThreadProofs -------------------------
(***************************************************************************)
(* LooperThread is safe for any number of clients.  The inductive invariant *)
(* says who holds mMutex where, and that until start() has given it up      *)
(* nobody has the looper, so that nothing can close it.                     *)
(***************************************************************************)
EXTENDS LooperThread, TLAPS

\* mMutex is held across steps by start() and by the destructor only.
MutexInv ==
  \A c \in Clients : cpc[c] \in {"create", "created", "join"} <=> mMutex = c

\* What the thread has done by the place it is at.
ThreadInv ==
  /\ tpc \in {"none", "failed", "entry"} => ~mLooper
  /\ tpc \notin {"none", "failed", "entry"} => mLooper
  /\ mIsRunning => mLooper
  /\ tpc \in {"none", "failed", "entry", "prepared", "running"} => mSem = 0
  /\ tpc = "none" => ~closed
  /\ tpc = "handler" => got # {}
  /\ got # {} => mLooper
  /\ tpc \in {"delete", "ended"} => closed

\* While start() is at work nobody has the looper and nothing has closed it.
StartInv ==
  \A c \in Clients :
    /\ cpc[c] \in {"create", "created"} =>
         got = {} /\ ~closed /\ data = "live" /\ object = "alive" /\ mLooperThr
    /\ cpc[c] = "create" => tpc = "none"
    /\ cpc[c] \in {"start", "check", "wait"} => object = "alive"

\* The life of the object: before its thread exists, while it can be joined,
\* and in its destructor.
ObjectInv ==
  /\ object = "alive" /\ ~mLooperThr => tpc = "none"
  /\ object = "alive" /\ mLooperThr =>
       got # {} \/ \E c \in Clients : cpc[c] \in {"create", "created", "check", "wait"}
  /\ object = "alive" /\ mLooperThr /\ mMutex = NULL => mIsJoined
  /\ object = "dying" /\ mLooperThr => mLooper /\ mIsJoined
  /\ object = "dying" /\ ~mLooperThr => tpc = "none"
  /\ \A c \in Clients : cpc[c] = "join" => object = "dying"
  /\ object = "dead" => tpc \in {"none", "ended"}

IInv == TypeOK /\ MutexInv /\ ThreadInv /\ StartInv /\ ObjectInv

USE ClientAssumption

\* The initial state satisfies the invariant.
LEMMA InitInv == Init => IInv
<1> SUFFICES ASSUME Init PROVE IInv
  OBVIOUS
<1> USE DEF Init
<1>1. TypeOK
  <2>1. mSem \in 0 .. 1  BY SMT
  <2>2. cpc \in [Clients -> {"idle", "start", "create", "created", "check",
                            "wait", "join"}]
    BY SMT
  <2> QED  BY <2>1, <2>2, Zenon DEF TypeOK
<1>2. MutexInv  BY DEF MutexInv
<1>3. ThreadInv  BY DEF ThreadInv
<1>4. StartInv  BY DEF StartInv
<1>5. ObjectInv  BY DEF ObjectInv
<1> QED  BY <1>1, <1>2, <1>3, <1>4, <1>5 DEF IInv

\* Every step keeps the types.
LEMMA TypeStep == IInv /\ [Next]_vars => TypeOK'
<1> SUFFICES ASSUME IInv, [Next]_vars PROVE TypeOK'
  OBVIOUS
<1> USE DEF IInv, TypeOK
<1>1. ASSUME NEW c \in Clients, StartStep(c) PROVE TypeOK'
  <2>1. CASE Started(c)  BY <2>1 DEF Started
  <2>2. CASE Start(c)  BY <2>2 DEF Start
  <2>3. CASE Create(c)  BY <2>3 DEF Create
  <2>4. CASE CreateFails(c)  BY <2>4 DEF CreateFails
  <2>5. CASE Created(c)  BY <2>5 DEF Created
  <2> QED  BY <1>1, <2>1, <2>2, <2>3, <2>4, <2>5 DEF StartStep
<1>2. ASSUME NEW c \in Clients, WaitStep(c) PROVE TypeOK'
  BY <1>2 DEF WaitStep, Running, NotRunning, SemWait
<1>3. ASSUME NEW c \in Clients, GetLooper(c) PROVE TypeOK'
  BY <1>3 DEF GetLooper
<1>4. ASSUME NEW c \in Clients, Quit(c) PROVE TypeOK'
  BY <1>4 DEF Quit, QuitBody
<1>5. ASSUME NEW c \in Clients, LooperQuit(c) PROVE TypeOK'
  BY <1>5 DEF LooperQuit
<1>6. ASSUME NEW c \in Clients, Destroy(c) PROVE TypeOK'
  BY <1>6 DEF Destroy
<1>7. ASSUME NEW c \in Clients, Join(c) PROVE TypeOK'
  BY <1>7 DEF Join
<1>8. CASE ThreadStep
  <2>1. CASE Prepare  BY <2>1 DEF Prepare
  <2>2. CASE SetRunning  BY <2>2 DEF SetRunning
  <2>3. CASE SemPost  BY <2>3 DEF SemPost, ThreadInv
  <2>4. CASE HandlerQuit  BY <2>4 DEF HandlerQuit, QuitBody
  <2>5. CASE LoopReturns  BY <2>5 DEF LoopReturns
  <2>6. CASE DeleteData  BY <2>6 DEF DeleteData
  <2> QED  BY <1>8, <2>1, <2>2, <2>3, <2>4, <2>5, <2>6 DEF ThreadStep
<1>9. CASE Handler  BY <1>9 DEF Handler
<1>10. CASE Stopped \/ UNCHANGED vars  BY <1>10 DEF Stopped, vars
<1> QED
  BY <1>1, <1>2, <1>3, <1>4, <1>5, <1>6, <1>7, <1>8, <1>9, <1>10 DEF Next

\* Every step keeps the rest of the invariant.
LEMMA NextInv == IInv /\ [Next]_vars => IInv'
<1> SUFFICES ASSUME IInv, [Next]_vars PROVE IInv'
  OBVIOUS
<1>0. TypeOK'  BY TypeStep
<1> DEFINE Rest == MutexInv /\ ThreadInv /\ StartInv /\ ObjectInv
<1>1. ASSUME NEW c \in Clients, GetLooper(c) PROVE Rest'
  <2>1. MutexInv'  BY <1>0, <1>1 DEF IInv, TypeOK, MutexInv, GetLooper
  <2>2. ThreadInv'  BY <1>0, <1>1 DEF IInv, TypeOK, ThreadInv, GetLooper
  <2>3. StartInv'  BY <1>0, <1>1 DEF IInv, TypeOK, MutexInv, ThreadInv, StartInv, GetLooper
  <2>4. ObjectInv'  BY <1>0, <1>1 DEF IInv, TypeOK, MutexInv, ThreadInv, StartInv, ObjectInv, GetLooper
  <2> QED  BY <2>1, <2>2, <2>3, <2>4
<1>2. ASSUME NEW c \in Clients, Started(c) PROVE Rest'
  <2>1. MutexInv'  BY <1>0, <1>2 DEF IInv, TypeOK, MutexInv, Started
  <2>2. ThreadInv'  BY <1>0, <1>2 DEF IInv, TypeOK, ThreadInv, Started
  <2>3. StartInv'  BY <1>0, <1>2 DEF IInv, TypeOK, MutexInv, ThreadInv, StartInv, Started
  <2>4. ObjectInv'  BY <1>0, <1>2 DEF IInv, TypeOK, MutexInv, ThreadInv, StartInv, ObjectInv, Started
  <2> QED  BY <2>1, <2>2, <2>3, <2>4
<1>3. ASSUME NEW c \in Clients, Start(c) PROVE Rest'
  <2>1. MutexInv'  BY <1>0, <1>3 DEF IInv, TypeOK, MutexInv, Start
  <2>2. ThreadInv'  BY <1>0, <1>3 DEF IInv, TypeOK, ThreadInv, Start
  <2>3. StartInv'  BY <1>0, <1>3 DEF IInv, TypeOK, MutexInv, ThreadInv, StartInv, ObjectInv, Start
  <2>4. ObjectInv'  BY <1>0, <1>3 DEF IInv, TypeOK, MutexInv, ThreadInv, StartInv, ObjectInv, Start
  <2> QED  BY <2>1, <2>2, <2>3, <2>4
<1>4. ASSUME NEW c \in Clients, Create(c) PROVE Rest'
  <2>1. MutexInv'  BY <1>0, <1>4 DEF IInv, TypeOK, MutexInv, Create
  <2>2. ThreadInv'  BY <1>0, <1>4 DEF IInv, TypeOK, ThreadInv, StartInv, Create
  <2>3. StartInv'  BY <1>0, <1>4 DEF IInv, TypeOK, MutexInv, ThreadInv, StartInv, Create
  <2>4. ObjectInv'  BY <1>0, <1>4 DEF IInv, TypeOK, MutexInv, ThreadInv, StartInv, ObjectInv, Create
  <2> QED  BY <2>1, <2>2, <2>3, <2>4
<1>5. ASSUME NEW c \in Clients, CreateFails(c) PROVE Rest'
  <2>1. MutexInv'  BY <1>0, <1>5 DEF IInv, TypeOK, MutexInv, CreateFails
  <2>2. ThreadInv'  BY <1>0, <1>5 DEF IInv, TypeOK, ThreadInv, StartInv, CreateFails
  <2>3. StartInv'  BY <1>0, <1>5 DEF IInv, TypeOK, MutexInv, ThreadInv, StartInv, CreateFails
  <2>4. ObjectInv'  BY <1>0, <1>5 DEF IInv, TypeOK, MutexInv, ThreadInv, StartInv, ObjectInv, CreateFails
  <2> QED  BY <2>1, <2>2, <2>3, <2>4
<1>6. ASSUME NEW c \in Clients, Created(c) PROVE Rest'
  <2>1. MutexInv'  BY <1>0, <1>6 DEF IInv, TypeOK, MutexInv, Created
  <2>2. ThreadInv'  BY <1>0, <1>6 DEF IInv, TypeOK, ThreadInv, Created
  <2>3. StartInv'  BY <1>0, <1>6 DEF IInv, TypeOK, MutexInv, ThreadInv, StartInv, Created
  <2>4. ObjectInv'  BY <1>0, <1>6 DEF IInv, TypeOK, MutexInv, ThreadInv, StartInv, ObjectInv, Created
  <2> QED  BY <2>1, <2>2, <2>3, <2>4
<1>7. ASSUME NEW c \in Clients, Running(c) PROVE Rest'
  <2>1. MutexInv'  BY <1>0, <1>7 DEF IInv, TypeOK, MutexInv, Running
  <2>2. ThreadInv'  BY <1>0, <1>7 DEF IInv, TypeOK, ThreadInv, Running
  <2>3. StartInv'  BY <1>0, <1>7 DEF IInv, TypeOK, MutexInv, ThreadInv, StartInv, Running
  <2>4. ObjectInv'  BY <1>0, <1>7 DEF IInv, TypeOK, MutexInv, ThreadInv, StartInv, ObjectInv, Running
  <2> QED  BY <2>1, <2>2, <2>3, <2>4
<1>8. ASSUME NEW c \in Clients, NotRunning(c) PROVE Rest'
  <2>1. MutexInv'  BY <1>0, <1>8 DEF IInv, TypeOK, MutexInv, NotRunning
  <2>2. ThreadInv'  BY <1>0, <1>8 DEF IInv, TypeOK, ThreadInv, NotRunning
  <2>3. StartInv'  BY <1>0, <1>8 DEF IInv, TypeOK, MutexInv, ThreadInv, StartInv, NotRunning
  <2>4. ObjectInv'  BY <1>0, <1>8 DEF IInv, TypeOK, MutexInv, ThreadInv, StartInv, ObjectInv, NotRunning
  <2> QED  BY <2>1, <2>2, <2>3, <2>4
<1>9. ASSUME NEW c \in Clients, SemWait(c) PROVE Rest'
  <2>1. MutexInv'  BY <1>0, <1>9 DEF IInv, TypeOK, MutexInv, SemWait
  <2>2. ThreadInv'  BY <1>0, <1>9 DEF IInv, TypeOK, ThreadInv, SemWait
  <2>3. StartInv'  BY <1>0, <1>9 DEF IInv, TypeOK, MutexInv, ThreadInv, StartInv, SemWait
  <2>4. ObjectInv'  BY <1>0, <1>9 DEF IInv, TypeOK, MutexInv, ThreadInv, StartInv, ObjectInv, SemWait
  <2> QED  BY <2>1, <2>2, <2>3, <2>4
<1>10. ASSUME NEW c \in Clients, Quit(c) PROVE Rest'
  <2>1. MutexInv'  BY <1>0, <1>10 DEF IInv, TypeOK, MutexInv, Quit, QuitBody
  <2>2. ThreadInv'  BY <1>0, <1>10 DEF IInv, TypeOK, ThreadInv, Quit, QuitBody
  <2>3. StartInv'  BY <1>0, <1>10 DEF IInv, TypeOK, MutexInv, ThreadInv, StartInv, Quit, QuitBody
  <2>4. ObjectInv'  BY <1>0, <1>10 DEF IInv, TypeOK, MutexInv, ThreadInv, StartInv, ObjectInv, Quit, QuitBody
  <2> QED  BY <2>1, <2>2, <2>3, <2>4
<1>11. ASSUME NEW c \in Clients, LooperQuit(c) PROVE Rest'
  <2>1. MutexInv'  BY <1>0, <1>11 DEF IInv, TypeOK, MutexInv, LooperQuit
  <2>2. ThreadInv'  BY <1>0, <1>11 DEF IInv, TypeOK, ThreadInv, LooperQuit
  <2>3. StartInv'  BY <1>0, <1>11 DEF IInv, TypeOK, MutexInv, ThreadInv, StartInv, LooperQuit
  <2>4. ObjectInv'  BY <1>0, <1>11 DEF IInv, TypeOK, MutexInv, ThreadInv, StartInv, ObjectInv, LooperQuit
  <2> QED  BY <2>1, <2>2, <2>3, <2>4
<1>12. ASSUME NEW c \in Clients, Destroy(c) PROVE Rest'
  <2>1. MutexInv'  BY <1>0, <1>12 DEF IInv, TypeOK, MutexInv, Destroy
  <2>2. ThreadInv'  BY <1>0, <1>12 DEF IInv, TypeOK, ThreadInv, ObjectInv, Destroy
  <2>3. StartInv'  BY <1>0, <1>12 DEF IInv, TypeOK, MutexInv, ThreadInv, StartInv, Destroy
  <2>4. ObjectInv'  BY <1>0, <1>12 DEF IInv, TypeOK, MutexInv, ThreadInv, StartInv, ObjectInv, Destroy
  <2> QED  BY <2>1, <2>2, <2>3, <2>4
<1>13. ASSUME NEW c \in Clients, Join(c) PROVE Rest'
  <2>1. MutexInv'  BY <1>0, <1>13 DEF IInv, TypeOK, MutexInv, Join
  <2>2. ThreadInv'  BY <1>0, <1>13 DEF IInv, TypeOK, ThreadInv, Join
  <2>3. StartInv'  BY <1>0, <1>13 DEF IInv, TypeOK, MutexInv, StartInv, ObjectInv, Join
  <2>4. ObjectInv'  BY <1>0, <1>13 DEF IInv, TypeOK, MutexInv, ThreadInv, StartInv, ObjectInv, Join
  <2> QED  BY <2>1, <2>2, <2>3, <2>4
<1>14. ASSUME Prepare PROVE Rest'
  <2>1. MutexInv'  BY <1>14 DEF IInv, MutexInv, Prepare
  <2>2. ThreadInv'  BY <1>0, <1>14 DEF IInv, TypeOK, ThreadInv, Prepare
  <2>3. StartInv'  BY <1>0, <1>14 DEF IInv, TypeOK, ThreadInv, StartInv, Prepare
  <2>4. ObjectInv'  BY <1>0, <1>14 DEF IInv, TypeOK, ThreadInv, StartInv, ObjectInv, Prepare
  <2> QED  BY <2>1, <2>2, <2>3, <2>4
<1>15. ASSUME SetRunning PROVE Rest'
  <2>1. MutexInv'  BY <1>15 DEF IInv, MutexInv, SetRunning
  <2>2. ThreadInv'  BY <1>0, <1>15 DEF IInv, TypeOK, ThreadInv, SetRunning
  <2>3. StartInv'  BY <1>0, <1>15 DEF IInv, TypeOK, ThreadInv, StartInv, SetRunning
  <2>4. ObjectInv'  BY <1>0, <1>15 DEF IInv, TypeOK, ThreadInv, StartInv, ObjectInv, SetRunning
  <2> QED  BY <2>1, <2>2, <2>3, <2>4
<1>16. ASSUME SemPost PROVE Rest'
  <2>1. MutexInv'  BY <1>16 DEF IInv, MutexInv, SemPost
  <2>2. ThreadInv'  BY <1>0, <1>16 DEF IInv, TypeOK, ThreadInv, SemPost
  <2>3. StartInv'  BY <1>0, <1>16 DEF IInv, TypeOK, ThreadInv, StartInv, SemPost
  <2>4. ObjectInv'  BY <1>0, <1>16 DEF IInv, TypeOK, ThreadInv, StartInv, ObjectInv, SemPost
  <2> QED  BY <2>1, <2>2, <2>3, <2>4
<1>17. ASSUME Handler PROVE Rest'
  <2>1. MutexInv'  BY <1>17 DEF IInv, MutexInv, Handler
  <2>2. ThreadInv'  BY <1>0, <1>17 DEF IInv, TypeOK, ThreadInv, Handler
  <2>3. StartInv'  BY <1>0, <1>17 DEF IInv, TypeOK, ThreadInv, StartInv, Handler
  <2>4. ObjectInv'  BY <1>0, <1>17 DEF IInv, TypeOK, ThreadInv, StartInv, ObjectInv, Handler
  <2> QED  BY <2>1, <2>2, <2>3, <2>4
<1>18. ASSUME HandlerQuit PROVE Rest'
  <2>1. MutexInv'  BY <1>18 DEF IInv, MutexInv, HandlerQuit, QuitBody
  <2>2. ThreadInv'  BY <1>0, <1>18 DEF IInv, TypeOK, ThreadInv, HandlerQuit, QuitBody
  <2>3. StartInv'  BY <1>0, <1>18 DEF IInv, TypeOK, ThreadInv, StartInv, HandlerQuit, QuitBody
  <2>4. ObjectInv'  BY <1>0, <1>18 DEF IInv, TypeOK, ThreadInv, StartInv, ObjectInv, HandlerQuit, QuitBody
  <2> QED  BY <2>1, <2>2, <2>3, <2>4
<1>19. ASSUME LoopReturns PROVE Rest'
  <2>1. MutexInv'  BY <1>19 DEF IInv, MutexInv, LoopReturns
  <2>2. ThreadInv'  BY <1>0, <1>19 DEF IInv, TypeOK, ThreadInv, LoopReturns
  <2>3. StartInv'  BY <1>0, <1>19 DEF IInv, TypeOK, ThreadInv, StartInv, LoopReturns
  <2>4. ObjectInv'  BY <1>0, <1>19 DEF IInv, TypeOK, ThreadInv, StartInv, ObjectInv, LoopReturns
  <2> QED  BY <2>1, <2>2, <2>3, <2>4
<1>20. ASSUME DeleteData PROVE Rest'
  <2>1. MutexInv'  BY <1>20 DEF IInv, MutexInv, DeleteData
  <2>2. ThreadInv'  BY <1>0, <1>20 DEF IInv, TypeOK, ThreadInv, DeleteData
  <2>3. StartInv'  BY <1>0, <1>20 DEF IInv, TypeOK, ThreadInv, StartInv, DeleteData
  <2>4. ObjectInv'  BY <1>0, <1>20 DEF IInv, TypeOK, ThreadInv, StartInv, ObjectInv, DeleteData
  <2> QED  BY <2>1, <2>2, <2>3, <2>4
<1>21. ASSUME UNCHANGED vars PROVE Rest'
  <2>1. MutexInv'  BY <1>21 DEF IInv, MutexInv, vars
  <2>2. ThreadInv'  BY <1>21 DEF IInv, ThreadInv, vars
  <2>3. StartInv'  BY <1>21 DEF IInv, StartInv, vars
  <2>4. ObjectInv'  BY <1>21 DEF IInv, ObjectInv, vars
  <2> QED  BY <2>1, <2>2, <2>3, <2>4
<1> QED
  BY <1>0, <1>1, <1>2, <1>3, <1>4, <1>5, <1>6, <1>7, <1>8, <1>9, <1>10,
     <1>11, <1>12, <1>13, <1>14, <1>15, <1>16, <1>17, <1>18, <1>19, <1>20, <1>21
     DEF IInv, Next, StartStep, WaitStep, ThreadStep, Stopped

\* The invariant always holds.
THEOREM Invariance == Spec => []IInv
  BY InitInv, NextInv, PTL DEF Spec

\* getLooper() never returns a null looper and the destructor never uses one,
\* for any number of clients.
THEOREM ReadyLooper == Spec => []LooperReady
<1>1. IInv => LooperReady
  BY DEF IInv, ThreadInv, ObjectInv, LooperReady
<1> QED  BY <1>1, Invariance, PTL

\* ThreadBase::start() reads its data before the thread deletes it, when
\* LooperThread calls it under mMutex.
THEOREM LiveStartData == Spec => []StartDataLive
<1>1. IInv => StartDataLive
  BY DEF IInv, StartInv, StartDataLive
<1> QED  BY <1>1, Invariance, PTL

\* The destructor returns only after the thread has ended.
THEOREM OutlivesThread == Spec => []ThreadOutlived
<1>1. IInv => ThreadOutlived
  BY DEF IInv, ObjectInv, ThreadOutlived
<1> QED  BY <1>1, Invariance, PTL

=============================================================================
