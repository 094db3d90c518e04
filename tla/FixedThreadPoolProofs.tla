------------------------ MODULE FixedThreadPoolProofs ------------------------
(***************************************************************************)
(* Proofs about FixedThreadPool, for any number of workers, clients, tasks  *)
(* and arguments, and for clients that misuse the pool too.                 *)
(***************************************************************************)
EXTENDS FixedThreadPool, FiniteSetTheorems, TLAPS

\* The parts of TypeOK that worker and client steps change.
WorkerTypes ==
  /\ wpc \in [Workers -> {"awake", "asleep", "run", "exit", "spin"}]
  /\ param \in [Workers -> Params \cup {NULL}]
  /\ \A w \in Workers : wpc[w] = "run" <=> param[w] # NULL
ClientTypes == cpc \in [Clients -> {"idle", "notify", "notifyAll"}]
DataTypes ==
  /\ tasks_ \in Seq(Funcs \cup Opaque)
  /\ funParams \in [Params -> Funcs \cup Opaque \cup {NULL}]
FlagTypes == is_shutdown_ \in BOOLEAN /\ misused \in BOOLEAN

LEMMA TypeParts == TypeOK <=> WorkerTypes /\ ClientTypes /\ DataTypes /\ FlagTypes
  BY DEF TypeOK, WorkerTypes, ClientTypes, DataTypes, FlagTypes

\* A disjunction is a Boolean.
LEMMA FlagIsBoolean == ASSUME NEW p, NEW q PROVE (p \/ q) \in BOOLEAN
  OBVIOUS

\* No step takes a variable out of its type.
LEMMA StepKeepsType ==
  ASSUME TypeOK, [Next]_vars
  PROVE  TypeOK'
  <1>0. WorkerTypes /\ ClientTypes /\ DataTypes /\ FlagTypes
    BY TypeParts
  <1> SUFFICES WorkerTypes' /\ ClientTypes' /\ DataTypes' /\ FlagTypes'
    BY DEF TypeOK, WorkerTypes, ClientTypes, DataTypes, FlagTypes
  <1>1. ASSUME NEW w \in Workers, NEW a \in Params, Take(w, a)
        PROVE  WorkerTypes' /\ ClientTypes' /\ DataTypes' /\ FlagTypes'
    <2>1. WorkerTypes'
      BY <1>0, <1>1, ParamAssumption DEF Take, WorkerTypes
    <2>2. DataTypes'
      BY <1>0, <1>1 DEF Take, DataTypes
    <2> QED
      BY <1>0, <1>1, <2>1, <2>2 DEF Take, ClientTypes, FlagTypes
  <1>2. ASSUME NEW w \in Workers, Spin(w) \/ Exit(w) \/ Sleep(w) \/ Spurious(w)
        PROVE  WorkerTypes' /\ ClientTypes' /\ DataTypes' /\ FlagTypes'
    <2>1. WorkerTypes'
      BY <1>0, <1>2 DEF Spin, Exit, Sleep, Spurious, WorkerTypes
    <2> QED
      BY <1>0, <1>2, <2>1
      DEF Spin, Exit, Sleep, Spurious, ClientTypes, FlagTypes, DataTypes
  <1>3. ASSUME NEW w \in Workers, Finish(w)
        PROVE  WorkerTypes' /\ ClientTypes' /\ DataTypes' /\ FlagTypes'
    <2>1. WorkerTypes'
      BY <1>0, <1>3 DEF Finish, WorkerTypes
    <2> QED
      BY <1>0, <1>3, <2>1 DEF Finish, ClientTypes, FlagTypes, DataTypes
  <1>4. ASSUME NEW c \in Clients, NEW f \in Funcs \cup Opaque, NEW a \in Params,
               execute(c, f, a)
        PROVE  WorkerTypes' /\ ClientTypes' /\ DataTypes' /\ FlagTypes'
    <2>1. DataTypes'
      BY <1>0, <1>4 DEF execute, DataTypes
    <2>2. ClientTypes'
      BY <1>0, <1>4 DEF execute, ClientTypes
    <2>3. misused' \in BOOLEAN
      BY <1>4, FlagIsBoolean DEF execute
    <2> QED
      BY <1>0, <1>4, <2>1, <2>2, <2>3 DEF execute, WorkerTypes, FlagTypes
  <1>5. ASSUME NEW c \in Clients, Shutdown(c)
        PROVE  WorkerTypes' /\ ClientTypes' /\ DataTypes' /\ FlagTypes'
    <2>1. ClientTypes'
      BY <1>0, <1>5 DEF Shutdown, ClientTypes
    <2>2. is_shutdown_' \in BOOLEAN
      BY <1>5, Zenon DEF Shutdown
    <2>3. misused' \in BOOLEAN
      BY <1>0, <1>5 DEF Shutdown, FlagTypes
    <2>4. FlagTypes'
      BY <2>2, <2>3, Zenon DEF FlagTypes
    <2>5. WorkerTypes' /\ DataTypes'
      BY <1>0, <1>5, Zenon DEF Shutdown, WorkerTypes, DataTypes
    <2> QED
      BY <2>1, <2>4, <2>5
  <1>6. ASSUME NEW c \in Clients, NotifyOne(c)
        PROVE  WorkerTypes' /\ ClientTypes' /\ DataTypes' /\ FlagTypes'
    <2>1. WorkerTypes'
      BY <1>0, <1>6 DEF NotifyOne, WorkerTypes, Sleepers
    <2>2. ClientTypes'
      BY <1>0, <1>6 DEF NotifyOne, ClientTypes
    <2> QED
      BY <1>0, <1>6, <2>1, <2>2 DEF NotifyOne, DataTypes, FlagTypes
  <1>7. ASSUME NEW c \in Clients, NotifyAll(c)
        PROVE  WorkerTypes' /\ ClientTypes' /\ DataTypes' /\ FlagTypes'
    <2>1. WorkerTypes'
      BY <1>0, <1>7 DEF NotifyAll, WorkerTypes
    <2>2. ClientTypes'
      BY <1>0, <1>7 DEF NotifyAll, ClientTypes
    <2> QED
      BY <1>0, <1>7, <2>1, <2>2 DEF NotifyAll, DataTypes, FlagTypes
  <1>8. CASE UNCHANGED vars
    BY <1>0, <1>8 DEF vars, WorkerTypes, ClientTypes, DataTypes, FlagTypes
  <1> QED
    BY <1>1, <1>2, <1>3, <1>4, <1>5, <1>6, <1>7, <1>8
    DEF Next, WorkerStep, ClientStep, Ended

\* The pool starts with values of the right types.
LEMMA InitTyped == Init => TypeOK
  <1> SUFFICES ASSUME Init PROVE TypeOK
    OBVIOUS
  <1>1. WorkerTypes /\ ClientTypes /\ DataTypes
    BY DEF Init, WorkerTypes, ClientTypes, DataTypes
  <1>2. FlagTypes
    BY Zenon DEF Init, FlagTypes
  <1> QED
    BY <1>1, <1>2, TypeParts

\* Every variable of the pool keeps its type, and a worker has an argument
\* exactly while it runs a task.
THEOREM TypeCorrect == Spec => []TypeOK
  BY InitTyped, StepKeepsType, PTL DEF Spec

-----------------------------------------------------------------------------
(* Notifications *)

\* Workers and clients can be counted.
LEMMA Counts ==
  /\ IsFiniteSet(Awake) /\ IsFiniteSet(Notifying)
  /\ Cardinality(Awake) \in Nat /\ Cardinality(Notifying) \in Nat
  <1>1. Awake \subseteq Workers /\ Notifying \subseteq Clients
    BY DEF Awake, Notifying
  <1>2. IsFiniteSet(Awake) /\ IsFiniteSet(Notifying)
    BY <1>1, WorkerAssumption, ClientAssumption, FS_Subset
  <1> QED
    BY <1>2, FS_CardinalityType

\* One element more or less.
LEMMA CountOne ==
  ASSUME NEW S, IsFiniteSet(S), NEW x
  PROVE  /\ x \notin S => Cardinality(S \cup {x}) = Cardinality(S) + 1
         /\ x \in S => Cardinality(S \ {x}) = Cardinality(S) - 1
  BY FS_AddElement, FS_RemoveElement

\* The two halves of WakeupsSuffice, and the steps that keep them.
QueueServed ==
  Sleepers # {} /\ MutexFree =>
    Len(tasks_) <= Cardinality(Awake) + Cardinality(Notifying)
EndAnnounced ==
  is_shutdown_ /\ Sleepers # {} => \E c \in Clients : cpc[c] = "notifyAll"

LEMMA StepKeepsServed ==
  ASSUME TypeOK, QueueServed, [Next]_vars
  PROVE  QueueServed'
  <1>0. WorkerTypes /\ ClientTypes /\ DataTypes
    BY TypeParts
  <1>a. Cardinality(Awake) \in Nat /\ Cardinality(Notifying) \in Nat
    BY Counts
  <1>b. Len(tasks_) \in Nat
    BY <1>0 DEF DataTypes
  <1>1. ASSUME NEW w \in Workers, NEW a \in Params, Take(w, a)
        PROVE  QueueServed'
    <2>1. Awake' = Awake \ {w} /\ w \in Awake /\ Sleepers' = Sleepers /\ Notifying' = Notifying
      BY <1>0, <1>1 DEF Take, WorkerTypes, Awake, Sleepers, Notifying
    <2>2. Cardinality(Awake') = Cardinality(Awake) - 1
      BY <2>1, Counts, CountOne
    <2>3. Len(tasks_') = Len(tasks_) - 1
      BY <1>0, <1>1 DEF Take, DataTypes
    <2>4. MutexFree
      BY <1>1 DEF Take
    <2> QED
      BY <1>a, <1>b, <2>1, <2>2, <2>3, <2>4 DEF QueueServed
  <1>2. ASSUME NEW w \in Workers, Spin(w)
        PROVE  QueueServed'
    BY <1>0, <1>2 DEF Spin, WorkerTypes, QueueServed, MutexFree
  <1>3. ASSUME NEW w \in Workers, Exit(w) \/ Sleep(w)
        PROVE  QueueServed'
    <2>1. Len(tasks_') = 0
      BY <1>3 DEF Exit, Sleep
    <2>2. Cardinality(Awake') \in Nat /\ Cardinality(Notifying') \in Nat
      <3>1. Awake' \subseteq Workers /\ Notifying' \subseteq Clients
        BY DEF Awake, Notifying
      <3>2. IsFiniteSet(Awake') /\ IsFiniteSet(Notifying')
        BY <3>1, WorkerAssumption, ClientAssumption, FS_Subset
      <3> QED
        BY <3>2, FS_CardinalityType
    <2> QED
      BY <2>1, <2>2 DEF QueueServed
  <1>4. ASSUME NEW w \in Workers, Finish(w) \/ Spurious(w)
        PROVE  QueueServed'
    <2>1. Awake' = Awake \cup {w} /\ w \notin Awake /\ Notifying' = Notifying
      BY <1>0, <1>4 DEF Finish, Spurious, WorkerTypes, Awake, Notifying
    <2>2. Sleepers' \subseteq Sleepers /\ (MutexFree' => MutexFree) /\ tasks_' = tasks_
      BY <1>0, <1>4 DEF Finish, Spurious, WorkerTypes, Sleepers, MutexFree
    <2>3. Cardinality(Awake') = Cardinality(Awake) + 1
      BY <2>1, Counts, CountOne
    <2>4. Sleepers' # {} => Sleepers # {}
      BY <2>2
    <2> QED
      BY <1>a, <1>b, <2>1, <2>2, <2>3, <2>4 DEF QueueServed
  <1>5. ASSUME NEW c \in Clients, NEW f \in Funcs \cup Opaque, NEW a \in Params,
               execute(c, f, a)
        PROVE  QueueServed'
    <2>1. Notifying' = Notifying \cup {c} /\ c \notin Notifying
      BY <1>0, <1>5 DEF execute, ClientTypes, Notifying
    <2>2. Cardinality(Notifying') = Cardinality(Notifying) + 1
      BY <2>1, Counts, CountOne
    <2>3. Len(tasks_') = Len(tasks_) + 1
      BY <1>0, <1>5 DEF execute, DataTypes
    <2>4. Awake' = Awake /\ Sleepers' = Sleepers /\ MutexFree
      BY <1>5 DEF execute, Awake, Sleepers
    <2> QED
      BY <1>a, <1>b, <2>2, <2>3, <2>4 DEF QueueServed
  <1>6. ASSUME NEW c \in Clients, Shutdown(c)
        PROVE  QueueServed'
    <2>1. Notifying' = Notifying
      BY <1>0, <1>6 DEF Shutdown, ClientTypes, Notifying
    <2>2. Awake' = Awake /\ Sleepers' = Sleepers /\ MutexFree /\ tasks_' = tasks_
      BY <1>6 DEF Shutdown, Awake, Sleepers
    <2> QED
      BY <2>1, <2>2 DEF QueueServed
  <1>7. ASSUME NEW c \in Clients, NotifyOne(c)
        PROVE  QueueServed'
    <2>1. CASE Sleepers = {} /\ UNCHANGED wpc
      BY <2>1 DEF QueueServed, Sleepers
    <2>2. ASSUME NEW w \in Sleepers, wpc' = [wpc EXCEPT ![w] = "awake"]
          PROVE  QueueServed'
      <3>1. w \in Workers /\ wpc[w] = "asleep"
        BY DEF Sleepers
      <3>2. Awake' = Awake \cup {w} /\ w \notin Awake
        BY <1>0, <2>2, <3>1 DEF WorkerTypes, Awake
      <3>3. Notifying' = Notifying \ {c} /\ c \in Notifying
        BY <1>0, <1>7 DEF NotifyOne, ClientTypes, Notifying
      <3>4. MutexFree' => MutexFree
        BY <1>0, <2>2, <3>1 DEF WorkerTypes, MutexFree
      <3>5. Cardinality(Awake') = Cardinality(Awake) + 1
        BY <3>2, Counts, CountOne
      <3>6. Cardinality(Notifying') = Cardinality(Notifying) - 1
        BY <3>3, Counts, CountOne
      <3>7. tasks_' = tasks_ /\ Sleepers # {}
        BY <1>7 DEF NotifyOne
      <3> QED
        BY <1>a, <1>b, <3>4, <3>5, <3>6, <3>7 DEF QueueServed
    <2> QED
      BY <1>7, <2>1, <2>2 DEF NotifyOne
  <1>8. ASSUME NEW c \in Clients, NotifyAll(c)
        PROVE  QueueServed'
    BY <1>0, <1>8 DEF NotifyAll, WorkerTypes, QueueServed, Sleepers
  <1>9. CASE UNCHANGED vars
    BY <1>9 DEF vars, QueueServed, Sleepers, MutexFree, Awake, Notifying
  <1> QED
    BY <1>1, <1>2, <1>3, <1>4, <1>5, <1>6, <1>7, <1>8, <1>9
    DEF Next, WorkerStep, ClientStep, Ended

LEMMA StepKeepsAnnounced ==
  ASSUME TypeOK, EndAnnounced, [Next]_vars
  PROVE  EndAnnounced'
  <1>0. WorkerTypes /\ ClientTypes
    BY TypeParts
  <1>1. ASSUME NEW w \in Workers, NEW a \in Params, Take(w, a)
        PROVE  EndAnnounced'
    BY <1>0, <1>1 DEF Take, WorkerTypes, EndAnnounced, Sleepers
  <1>2. ASSUME NEW w \in Workers, Spin(w) \/ Exit(w) \/ Finish(w) \/ Spurious(w)
        PROVE  EndAnnounced'
    BY <1>0, <1>2 DEF Spin, Exit, Finish, Spurious, WorkerTypes, EndAnnounced, Sleepers
  <1>3. ASSUME NEW w \in Workers, Sleep(w)
        PROVE  EndAnnounced'
    BY <1>3 DEF Sleep, EndAnnounced
  <1>4. ASSUME NEW c \in Clients, NEW f \in Funcs \cup Opaque, NEW a \in Params,
               execute(c, f, a)
        PROVE  EndAnnounced'
    BY <1>4 DEF execute, EndAnnounced
  <1>5. ASSUME NEW c \in Clients, Shutdown(c)
        PROVE  EndAnnounced'
    <2>1. cpc'[c] = "notifyAll"
      BY <1>0, <1>5 DEF Shutdown, ClientTypes
    <2> QED
      BY <2>1 DEF EndAnnounced
  <1>6. ASSUME NEW c \in Clients, NotifyOne(c)
        PROVE  EndAnnounced'
    <2>1. \A d \in Clients : cpc[d] = "notifyAll" => cpc'[d] = "notifyAll"
      BY <1>0, <1>6 DEF NotifyOne, ClientTypes
    <2>2. Sleepers' \subseteq Sleepers /\ is_shutdown_' = is_shutdown_
      BY <1>0, <1>6 DEF NotifyOne, WorkerTypes, Sleepers
    <2> QED
      BY <2>1, <2>2 DEF EndAnnounced
  <1>7. ASSUME NEW c \in Clients, NotifyAll(c)
        PROVE  EndAnnounced'
    BY <1>0, <1>7 DEF NotifyAll, WorkerTypes, EndAnnounced, Sleepers
  <1>8. CASE UNCHANGED vars
    BY <1>8 DEF vars, EndAnnounced, Sleepers
  <1> QED
    BY <1>1, <1>2, <1>3, <1>4, <1>5, <1>6, <1>7, <1>8
    DEF Next, WorkerStep, ClientStep, Ended

\* execute() and the destructor wake the workers that are needed, although
\* they notify after they have given the mutex up.
THEOREM EnoughWakeups == Spec => []WakeupsSuffice
  <1>1. Init => QueueServed /\ EndAnnounced
    BY DEF Init, QueueServed, EndAnnounced, Sleepers
  <1>2. QueueServed /\ EndAnnounced => WakeupsSuffice
    BY DEF QueueServed, EndAnnounced, WakeupsSuffice
  <1> QED
    BY <1>1, <1>2, TypeCorrect, StepKeepsServed, StepKeepsAnnounced, PTL DEF Spec

-----------------------------------------------------------------------------
(* Arguments *)

\* As long as callers keep to the rules, no argument is given to two tasks.
LEMMA StepKeepsUsedOnce ==
  ASSUME TypeOK, ArgumentUsedOnce, [Next]_vars
  PROVE  ArgumentUsedOnce'
  <1>0. WorkerTypes /\ DataTypes
    BY TypeParts
  <1>1. ASSUME NEW w \in Workers, NEW a \in Params, Take(w, a)
        PROVE  ArgumentUsedOnce'
    <2>1. funParams[a] # NULL
      BY <1>1, FuncAssumption DEF Take, Found
    <2> QED
      BY <1>0, <1>1, <2>1 DEF Take, WorkerTypes, DataTypes, ArgumentUsedOnce
  <1>2. ASSUME NEW w \in Workers, Finish(w)
        PROVE  ArgumentUsedOnce'
    BY <1>0, <1>2 DEF Finish, WorkerTypes, ArgumentUsedOnce
  <1>3. ASSUME NEW c \in Clients, NEW f \in Funcs \cup Opaque, NEW a \in Params,
               execute(c, f, a)
        PROVE  ArgumentUsedOnce'
    <2> SUFFICES ASSUME ~misused' PROVE ArgumentUsedOnce'
      BY DEF ArgumentUsedOnce
    <2>1. ~misused /\ ~InUse(a)
      BY <1>3 DEF execute
    <2> QED
      BY <1>0, <1>3, <2>1 DEF execute, InUse, WorkerTypes, DataTypes, ArgumentUsedOnce
  <1>4. CASE UNCHANGED <<funParams, param, misused>>
    BY <1>4 DEF ArgumentUsedOnce
  <1>5. ASSUME NEW w \in Workers, Spin(w) \/ Exit(w) \/ Sleep(w) \/ Spurious(w)
        PROVE  ArgumentUsedOnce'
    BY <1>4, <1>5 DEF Spin, Exit, Sleep, Spurious
  <1>6. ASSUME NEW c \in Clients, Shutdown(c) \/ NotifyOne(c) \/ NotifyAll(c)
        PROVE  ArgumentUsedOnce'
    BY <1>4, <1>6 DEF Shutdown, NotifyOne, NotifyAll
  <1>7. CASE UNCHANGED vars
    BY <1>4, <1>7 DEF vars
  <1> QED
    BY <1>1, <1>2, <1>3, <1>5, <1>6, <1>7 DEF Next, WorkerStep, ClientStep, Ended

\* No two tasks are given one argument, unless a caller passed it twice.
THEOREM NoSharedArgument == Spec => []ArgumentUsedOnce
  <1>1. Init => ArgumentUsedOnce
    BY DEF Init, ArgumentUsedOnce
  <1> QED
    BY <1>1, TypeCorrect, StepKeepsUsedOnce, PTL DEF Spec

-----------------------------------------------------------------------------
(* Every task has an argument *)

\* The tasks of the queue can be given arguments that the map holds for their
\* functions, a different one each.  The map does not say which task an argument
\* was passed with, so a worker may well take another task's: the matching is
\* then rearranged.
Matches(g, tasks, params) ==
  /\ g \in [1 .. Len(tasks) -> Params]
  /\ \A i, j \in 1 .. Len(tasks) : g[i] = g[j] => i = j
  /\ \A i \in 1 .. Len(tasks) : tasks[i] \in Funcs /\ params[g[i]] = tasks[i]
Matched == \E g : Matches(g, tasks_, funParams)

SpinInv == misused \/ (Matched /\ MutexFree)

\* A worker takes the first task with any argument a of the same function: the
\* task that a was meant for gets the first task's argument.
LEMMA TakeKeepsMatched ==
  ASSUME TypeOK, Matched, NEW w \in Workers, NEW a \in Params, Take(w, a)
  PROVE  Matched'
  <1> DEFINE n == Len(tasks_)
  <1>1. PICK g : Matches(g, tasks_, funParams)
    BY DEF Matched
  <1>2. /\ tasks_ \in Seq(Funcs \cup Opaque) /\ tasks_ # <<>> /\ tasks_' = Tail(tasks_)
        /\ funParams \in [Params -> Funcs \cup Opaque \cup {NULL}]
        /\ funParams' = [funParams EXCEPT ![a] = NULL]
        /\ Head(tasks_) \in Funcs /\ funParams[a] = Head(tasks_)
    BY DEF TypeOK, Take, Found
  <1>3. /\ n \in Nat /\ n >= 1 /\ 1 \in 1 .. n /\ Len(tasks_') = n - 1 /\ funParams[a] = tasks_[1]
        /\ \A i \in 1 .. n - 1 : tasks_'[i] = tasks_[i + 1] /\ i + 1 \in 1 .. n
    BY <1>2
  <1>4. /\ g \in [1 .. n -> Params] /\ \A i, j \in 1 .. n : g[i] = g[j] => i = j
        /\ \A i \in 1 .. n : tasks_[i] \in Funcs /\ funParams[g[i]] = tasks_[i]
    BY <1>1 DEF Matches
  <1> DEFINE h == [i \in 1 .. n - 1 |-> IF g[i + 1] = a THEN g[1] ELSE g[i + 1]]
  <1> HIDE DEF n
  <1>5. h \in [1 .. n - 1 -> Params]
    BY <1>3, <1>4
  <1>6. ASSUME NEW i \in 1 .. n - 1, NEW j \in 1 .. n - 1, h[i] = h[j]
        PROVE  i = j
    <2>1. /\ i + 1 \in 1 .. n /\ j + 1 \in 1 .. n /\ i + 1 # 1 /\ j + 1 # 1
      BY <1>3
    <2>2. /\ h[i] = IF g[i + 1] = a THEN g[1] ELSE g[i + 1]
          /\ h[j] = IF g[j + 1] = a THEN g[1] ELSE g[j + 1]
      OBVIOUS
    <2> HIDE DEF h
    <2>3. i + 1 = j + 1
      BY <1>3, <1>4, <1>6, <2>1, <2>2
    <2> QED
      BY <2>3
  <1>7. ASSUME NEW i \in 1 .. n - 1
        PROVE  tasks_'[i] \in Funcs /\ funParams'[h[i]] = tasks_'[i]
    <2>1. i + 1 \in 1 .. n /\ i + 1 # 1 /\ tasks_'[i] = tasks_[i + 1]
      BY <1>3
    <2>2. h[i] = IF g[i + 1] = a THEN g[1] ELSE g[i + 1]
      OBVIOUS
    <2> HIDE DEF h
    <2>3. h[i] # a /\ h[i] \in Params
      BY <1>3, <1>4, <2>1, <2>2
    <2>4. funParams'[h[i]] = funParams[h[i]]
      BY <1>2, <2>3
    <2>5. funParams[h[i]] = tasks_[i + 1]
      BY <1>3, <1>4, <2>1, <2>2
    <2> QED
      BY <1>4, <2>1, <2>4, <2>5
  <1> HIDE DEF h
  <1>8. Matches(h, tasks_', funParams')
    BY <1>3, <1>5, <1>6, <1>7 DEF Matches
  <1> QED
    BY <1>8 DEF Matched

\* A caller that keeps to the rules brings a function and an argument of its own.
LEMMA ExecuteKeepsMatched ==
  ASSUME TypeOK, Matched, NEW c \in Clients, NEW f \in Funcs \cup Opaque,
         NEW a \in Params, execute(c, f, a), f \notin Opaque, ~InUse(a)
  PROVE  Matched'
  <1> DEFINE n == Len(tasks_)
  <1>1. PICK g : Matches(g, tasks_, funParams)
    BY DEF Matched
  <1>2. /\ tasks_ \in Seq(Funcs \cup Opaque) /\ tasks_' = Append(tasks_, f)
        /\ funParams \in [Params -> Funcs \cup Opaque \cup {NULL}]
        /\ funParams' = [funParams EXCEPT ![a] = f]
        /\ f \in Funcs /\ funParams[a] = NULL
    BY DEF TypeOK, execute, InUse
  <1>3. /\ n \in Nat /\ Len(tasks_') = n + 1 /\ tasks_'[n + 1] = f
        /\ \A i \in 1 .. n : tasks_'[i] = tasks_[i]
        /\ \A i \in 1 .. n + 1 : i \in 1 .. n \/ i = n + 1
    BY <1>2
  <1>4. /\ g \in [1 .. n -> Params] /\ \A i, j \in 1 .. n : g[i] = g[j] => i = j
        /\ \A i \in 1 .. n : tasks_[i] \in Funcs /\ funParams[g[i]] = tasks_[i]
    BY <1>1 DEF Matches
  <1>5. \A i \in 1 .. n : g[i] # a
    BY <1>2, <1>4, FuncAssumption
  <1> DEFINE h == [i \in 1 .. n + 1 |-> IF i = n + 1 THEN a ELSE g[i]]
  <1> HIDE DEF n
  <1>6. /\ h \in [1 .. n + 1 -> Params] /\ h[n + 1] = a
        /\ \A i \in 1 .. n : h[i] = g[i]
    BY <1>3, <1>4
  <1> HIDE DEF h
  <1>7. \A i, j \in 1 .. n + 1 : h[i] = h[j] => i = j
    BY <1>3, <1>4, <1>5, <1>6
  <1>8. ASSUME NEW i \in 1 .. n + 1
        PROVE  tasks_'[i] \in Funcs /\ funParams'[h[i]] = tasks_'[i]
    <2>1. CASE i = n + 1
      BY <1>2, <1>3, <1>6, <2>1
    <2>2. CASE i \in 1 .. n
      <3>1. h[i] = g[i] /\ g[i] \in Params /\ g[i] # a
        BY <1>4, <1>5, <1>6, <2>2
      <3> QED
        BY <1>2, <1>3, <1>4, <2>2, <3>1
    <2> QED
      BY <1>3, <2>1, <2>2
  <1>9. Matches(h, tasks_', funParams')
    BY <1>3, <1>6, <1>7, <1>8 DEF Matches
  <1> QED
    BY <1>9 DEF Matched

\* With a matching no worker finds nothing for the first task.
LEMMA StepKeepsSpinInv ==
  ASSUME TypeOK, SpinInv, [Next]_vars
  PROVE  SpinInv'
  <1>0. WorkerTypes
    BY TypeParts
  <1>1. ASSUME UNCHANGED <<tasks_, funParams, misused>>, MutexFree => MutexFree'
        PROVE  SpinInv'
    BY <1>1 DEF SpinInv, Matched, Matches
  <1>2. ASSUME NEW w \in Workers, NEW a \in Params, Take(w, a)
        PROVE  SpinInv'
    <2>1. MutexFree' /\ misused' = misused
      BY <1>0, <1>2 DEF Take, WorkerTypes, MutexFree
    <2> QED
      BY <1>2, <2>1, TakeKeepsMatched DEF SpinInv
  <1>3. ASSUME NEW w \in Workers, Spin(w)
        PROVE  SpinInv'
    <2>1. ~Matched
      <3> SUFFICES ASSUME NEW g, Matches(g, tasks_, funParams) PROVE FALSE
        BY DEF Matched
      <3>1. 1 \in 1 .. Len(tasks_) /\ Head(tasks_) = tasks_[1]
        BY <1>3 DEF Spin, TypeOK
      <3>2. g[1] \in Found(Head(tasks_))
        BY <3>1 DEF Matches, Found
      <3> QED
        BY <1>3, <3>2 DEF Spin
    <2> QED
      BY <1>3, <2>1 DEF Spin, SpinInv
  <1>4. ASSUME NEW w \in Workers, Exit(w) \/ Sleep(w) \/ Finish(w) \/ Spurious(w)
        PROVE  SpinInv'
    <2>1. MutexFree => MutexFree'
      BY <1>0, <1>4 DEF Exit, Sleep, Finish, Spurious, WorkerTypes, MutexFree
    <2> QED
      BY <1>1, <1>4, <2>1 DEF Exit, Sleep, Finish, Spurious
  <1>5. ASSUME NEW c \in Clients, NEW f \in Funcs \cup Opaque, NEW a \in Params,
               execute(c, f, a)
        PROVE  SpinInv'
    <2>1. CASE misused \/ f \in Opaque \/ InUse(a)
      BY <1>5, <2>1 DEF execute, SpinInv
    <2>2. CASE ~misused /\ f \notin Opaque /\ ~InUse(a)
      <3>1. MutexFree'
        BY <1>5 DEF execute, MutexFree
      <3> QED
        BY <1>5, <2>2, <3>1, ExecuteKeepsMatched DEF SpinInv
    <2> QED
      BY <2>1, <2>2
  <1>6. ASSUME NEW c \in Clients, Shutdown(c) \/ NotifyOne(c) \/ NotifyAll(c)
        PROVE  SpinInv'
    <2>1. MutexFree => MutexFree'
      BY <1>0, <1>6 DEF Shutdown, NotifyOne, NotifyAll, WorkerTypes, MutexFree, Sleepers
    <2> QED
      BY <1>1, <1>6, <2>1 DEF Shutdown, NotifyOne, NotifyAll
  <1>7. CASE UNCHANGED vars
    <2>1. MutexFree => MutexFree'
      BY <1>7 DEF vars, MutexFree
    <2> QED
      BY <1>1, <1>7, <2>1 DEF vars
  <1> QED
    BY <1>2, <1>3, <1>4, <1>5, <1>6, <1>7 DEF Next, WorkerStep, ClientStep, Ended

\* A worker spins with the mutex locked only after a caller broke the rules: with
\* functions only and each argument in one task at a time, the lookup by function
\* finds an argument for every task, whichever it takes (SpinsOnlyIfMisused).
THEOREM LookupFinds == Spec => []SpinsOnlyIfMisused
  <1>1. Init => SpinInv
    <2> SUFFICES ASSUME Init PROVE SpinInv
      OBVIOUS
    <2>1. Matches([i \in 1 .. 0 |-> NULL], tasks_, funParams)
      BY DEF Init, Matches
    <2>2. MutexFree
      BY DEF Init, MutexFree
    <2> QED
      BY <2>1, <2>2 DEF SpinInv, Matched
  <1>2. SpinInv => SpinsOnlyIfMisused
    BY DEF SpinInv, SpinsOnlyIfMisused
  <1> QED
    BY <1>1, <1>2, TypeCorrect, StepKeepsSpinInv, PTL DEF Spec

=============================================================================
