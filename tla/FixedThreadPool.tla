--------------------------- MODULE FixedThreadPool ---------------------------
(***************************************************************************)
(* fixed_thread_pool (inc/os/SimpleFixedThreadpool.hpp): workers take tasks *)
(* from a queue under one mutex.  A task's argument is not in the queue but *)
(* in a map from arguments to tasks; a worker looks for an entry with the   *)
(* same function as the first task.  The pool object hands its data to the  *)
(* workers and may be destroyed while tasks are left.                       *)
(*                                                                          *)
(* One action per critical section.  execute() and the destructor notify    *)
(* after they have given the mutex up, which is a step of its own.          *)
(***************************************************************************)
EXTENDS Integers, Sequences, FiniteSets

CONSTANTS
  Workers,
  Clients,    \* threads that call execute(), one of them the destructor
  Funcs,      \* plain functions void (*)(void* )
  Opaque,     \* callables that are no plain function: target<> gives null
  Params,     \* the void* arguments
  NULL,
  MaxTasks    \* bound on the length of the queue

ASSUME WorkerAssumption == IsFiniteSet(Workers) /\ Workers # {}
ASSUME ClientAssumption == IsFiniteSet(Clients)
ASSUME FuncAssumption == NULL \notin Funcs \cup Opaque /\ Funcs \cap Opaque = {}
ASSUME ParamAssumption == NULL \notin Params
ASSUME BoundAssumption == MaxTasks \in Nat

VARIABLES
  tasks_,        \* the queue of callables
  funParams,     \* argument -> callable, NULL for an argument not in the map
  is_shutdown_,
  wpc,           \* per worker: "awake" wants the mutex, "asleep" in cond_.wait,
                 \* "run" a task, "exit", or "spin" for ever with the mutex
  param,         \* per worker: the argument of the task it runs
  cpc,           \* per client: "idle" or which notification it still owes
  misused        \* history: execute() got an Opaque or an argument in use

vars == <<tasks_, funParams, is_shutdown_, wpc, param, cpc, misused>>

Sleepers == {w \in Workers : wpc[w] = "asleep"}
Awake == {w \in Workers : wpc[w] = "awake"}
Notifying == {c \in Clients : cpc[c] = "notify"}

\* The mutex can be had.
MutexFree == \A w \in Workers : wpc[w] # "spin"

\* fixed_thread_pool(thread_count): every worker is on its way to the mutex.
Init ==
  /\ tasks_ = <<>>
  /\ funParams = [a \in Params |-> NULL]
  /\ is_shutdown_ = FALSE
  /\ wpc = [w \in Workers |-> "awake"]
  /\ param = [w \in Workers |-> NULL]
  /\ cpc = [c \in Clients |-> "idle"]
  /\ misused = FALSE

-----------------------------------------------------------------------------
(* Workers *)

\* The entries of the map that the search may find for callable f, in the
\* order of the hash table: any of them.
Found(f) == {a \in Params : f \in Funcs /\ funParams[a] = f}

\* Faulty variants: the entry stays in the map; the task stays in the queue.
TakeKeepsParam(w, a) ==
  /\ wpc[w] = "awake" /\ MutexFree
  /\ tasks_ # <<>> /\ a \in Found(Head(tasks_))
  /\ tasks_' = Tail(tasks_)
  /\ wpc' = [wpc EXCEPT ![w] = "run"]
  /\ param' = [param EXCEPT ![w] = a]
  /\ UNCHANGED <<funParams, is_shutdown_, cpc, misused>>
TakeKeepsTask(w, a) ==
  /\ wpc[w] = "awake" /\ MutexFree
  /\ tasks_ # <<>> /\ a \in Found(Head(tasks_))
  /\ funParams' = [funParams EXCEPT ![a] = NULL]
  /\ wpc' = [wpc EXCEPT ![w] = "run"]
  /\ param' = [param EXCEPT ![w] = a]
  /\ UNCHANGED <<tasks_, is_shutdown_, cpc, misused>>

\* The first task and an argument for it: unlock and run.
Take(w, a) ==
  /\ wpc[w] = "awake" /\ MutexFree
  /\ tasks_ # <<>> /\ a \in Found(Head(tasks_))
  /\ tasks_' = Tail(tasks_)
  /\ funParams' = [funParams EXCEPT ![a] = NULL]
  /\ wpc' = [wpc EXCEPT ![w] = "run"]
  /\ param' = [param EXCEPT ![w] = a]
  /\ UNCHANGED <<is_shutdown_, cpc, misused>>

\* No argument for the first task: the loop goes round without an unlock.
Spin(w) ==
  /\ wpc[w] = "awake" /\ MutexFree
  /\ tasks_ # <<>> /\ Found(Head(tasks_)) = {}
  /\ wpc' = [wpc EXCEPT ![w] = "spin"]
  /\ UNCHANGED <<tasks_, funParams, is_shutdown_, param, cpc, misused>>

\* Faulty variant: the first worker to leave clears the flag.
ExitResets(w) ==
  /\ wpc[w] = "awake" /\ MutexFree
  /\ tasks_ = <<>> /\ is_shutdown_
  /\ wpc' = [wpc EXCEPT ![w] = "exit"]
  /\ is_shutdown_' = FALSE
  /\ UNCHANGED <<tasks_, funParams, param, cpc, misused>>

Exit(w) ==
  /\ wpc[w] = "awake" /\ MutexFree
  /\ tasks_ = <<>> /\ is_shutdown_
  /\ wpc' = [wpc EXCEPT ![w] = "exit"]
  /\ UNCHANGED <<tasks_, funParams, is_shutdown_, param, cpc, misused>>

Sleep(w) ==
  /\ wpc[w] = "awake" /\ MutexFree
  /\ tasks_ = <<>> /\ ~is_shutdown_
  /\ wpc' = [wpc EXCEPT ![w] = "asleep"]
  /\ UNCHANGED <<tasks_, funParams, is_shutdown_, param, cpc, misused>>

\* currentfunc(param) has returned.
Finish(w) ==
  /\ wpc[w] = "run"
  /\ wpc' = [wpc EXCEPT ![w] = "awake"]
  /\ param' = [param EXCEPT ![w] = NULL]
  /\ UNCHANGED <<tasks_, funParams, is_shutdown_, cpc, misused>>

\* cond_.wait may return without a notification.
Spurious(w) ==
  /\ wpc[w] = "asleep"
  /\ wpc' = [wpc EXCEPT ![w] = "awake"]
  /\ UNCHANGED <<tasks_, funParams, is_shutdown_, param, cpc, misused>>

WorkerStep(w) ==
  (\E a \in Params : Take(w, a)) \/ Spin(w) \/ Exit(w) \/ Sleep(w) \/ Finish(w)

-----------------------------------------------------------------------------
(* Clients *)

\* Argument a is in the map or a worker uses it.
InUse(a) == funParams[a] # NULL \/ \E w \in Workers : param[w] = a

\* execute(task, arg) under the mutex.
execute(c, f, a) ==
  /\ cpc[c] = "idle" /\ MutexFree /\ ~is_shutdown_
  /\ Len(tasks_) < MaxTasks
  /\ funParams' = [funParams EXCEPT ![a] = f]
  /\ tasks_' = Append(tasks_, f)
  /\ cpc' = [cpc EXCEPT ![c] = "notify"]
  /\ misused' = (misused \/ f \in Opaque \/ InUse(a))
  /\ UNCHANGED <<is_shutdown_, wpc, param>>

\* Faulty variant: the destructor drops the tasks.
ShutdownDrops(c) ==
  /\ \A d \in Clients : cpc[d] = "idle"
  /\ MutexFree /\ ~is_shutdown_
  /\ is_shutdown_' = TRUE
  /\ tasks_' = <<>>
  /\ cpc' = [cpc EXCEPT ![c] = "notifyAll"]
  /\ UNCHANGED <<funParams, wpc, param, misused>>

\* The destructor under the mutex; no other call is in progress or follows.
Shutdown(c) ==
  /\ \A d \in Clients : cpc[d] = "idle"
  /\ MutexFree /\ ~is_shutdown_
  /\ is_shutdown_' = TRUE
  /\ cpc' = [cpc EXCEPT ![c] = "notifyAll"]
  /\ UNCHANGED <<tasks_, funParams, wpc, param, misused>>

\* Faulty variant: the notification is forgotten.
NotifyNobody(c) ==
  /\ cpc[c] = "notify"
  /\ cpc' = [cpc EXCEPT ![c] = "idle"]
  /\ UNCHANGED <<tasks_, funParams, is_shutdown_, wpc, param, misused>>

\* cond_.notify_one() at the end of execute().
NotifyOne(c) ==
  /\ cpc[c] = "notify"
  /\ cpc' = [cpc EXCEPT ![c] = "idle"]
  /\ \/ Sleepers = {} /\ UNCHANGED wpc
     \/ \E w \in Sleepers : wpc' = [wpc EXCEPT ![w] = "awake"]
  /\ UNCHANGED <<tasks_, funParams, is_shutdown_, param, misused>>

\* cond_.notify_all() at the end of the destructor.
NotifyAll(c) ==
  /\ cpc[c] = "notifyAll"
  /\ cpc' = [cpc EXCEPT ![c] = "idle"]
  /\ wpc' = [w \in Workers |-> IF wpc[w] = "asleep" THEN "awake" ELSE wpc[w]]
  /\ UNCHANGED <<tasks_, funParams, is_shutdown_, param, misused>>

ClientStep(c) ==
  \/ \E f \in Funcs \cup Opaque, a \in Params : execute(c, f, a)
  \/ Shutdown(c)
  \/ NotifyOne(c) \/ NotifyAll(c)

-----------------------------------------------------------------------------
\* Every worker has returned, or one holds the mutex for ever.
Ended ==
  /\ (\A w \in Workers : wpc[w] = "exit") \/ ~MutexFree
  /\ UNCHANGED vars

Next ==
  \/ \E w \in Workers : WorkerStep(w) \/ Spurious(w)
  \/ \E c \in Clients : ClientStep(c)
  \/ Ended

Spec == Init /\ [][Next]_vars

\* Workers run and tasks return; a client that owes a notification gives it.
\* Nothing makes a client call execute() or destroy the pool.
Fairness ==
  /\ \A w \in Workers : WF_vars(WorkerStep(w))
  /\ \A c \in Clients : WF_vars(NotifyOne(c)) /\ WF_vars(NotifyAll(c))

FairSpec == Spec /\ Fairness

-----------------------------------------------------------------------------
(* Properties *)

\* Types, and a worker has an argument exactly while it runs a task.
TypeOK ==
  /\ tasks_ \in Seq(Funcs \cup Opaque)
  /\ funParams \in [Params -> Funcs \cup Opaque \cup {NULL}]
  /\ is_shutdown_ \in BOOLEAN
  /\ wpc \in [Workers -> {"awake", "asleep", "run", "exit", "spin"}]
  /\ param \in [Workers -> Params \cup {NULL}]
  /\ \A w \in Workers : wpc[w] = "run" <=> param[w] # NULL
  /\ cpc \in [Clients -> {"idle", "notify", "notifyAll"}]
  /\ misused \in BOOLEAN

\* notify_one wakes enough workers although it comes after the unlock and may
\* meet workers that are awake for another reason: while a worker sleeps, each
\* task in the queue has an awake worker or a notification under way, so none
\* waits for a worker that is busy.  Once the pool is shut down, a worker
\* sleeps only until the destructor has notified all.
WakeupsSuffice ==
  /\ Sleepers # {} /\ MutexFree =>
       Len(tasks_) <= Cardinality(Awake) + Cardinality(Notifying)
  /\ is_shutdown_ /\ Sleepers # {} => \E c \in Clients : cpc[c] = "notifyAll"

\* Looking an argument up by its function finds one for every task: a worker
\* spins with the mutex locked only after a caller passed something else than
\* a function or an argument that was in use.
SpinsOnlyIfMisused == ~MutexFree => misused

\* No argument is given to two tasks (threadFunc deletes its argument).
ArgumentUsedOnce ==
  ~misused =>
    \A v, w \in Workers : param[v] # NULL =>
      /\ funParams[param[v]] = NULL
      /\ v # w => param[v] # param[w]

\* Every task the pool's destructor leaves behind is started with its argument.
\* (Before that an argument may be overtaken for ever by later ones of the same
\* function, as the lookup takes them in the order of the hash table.)
LeftTasksStart ==
  \A a \in Params :
    is_shutdown_ /\ funParams[a] # NULL ~> funParams[a] = NULL \/ misused

\* Destroying the pool ends every worker.
WorkersEnd ==
  is_shutdown_ ~> (\A w \in Workers : wpc[w] = "exit") \/ misused

=============================================================================
