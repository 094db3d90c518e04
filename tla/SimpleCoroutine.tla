--------------------------- MODULE SimpleCoroutine ---------------------------
(***************************************************************************)
(* The coroutines of src/os/SimpleCoroutine.cpp, of one thread: they switch *)
(* with setjmp and longjmp, coro_yield goes on with a coroutine chosen at    *)
(* random, and the library keeps in g_cur_co whose code it takes to run.     *)
(*                                                                           *)
(* exec is whose code really runs and ctx[c] whose code a longjmp to c's     *)
(* jmp_buf continues; both agree with g_cur_co and c only if the library     *)
(* saves and switches rightly.  A coroutine's function yields a bounded      *)
(* number of times before it returns; callers satisfy the library's asserts  *)
(* and the rule at line 103: only the main coroutine calls coro_resume.      *)
(***************************************************************************)
EXTENDS Integers, SequencesExt

CONSTANTS
  Coros,        \* coroutine objects
  Main,         \* g_main_co
  NULL,
  Destroyers,   \* those whose code calls coro_destroy
  MaxYields     \* bound: how often a coroutine's function yields

ASSUME MainAssumption == Main \notin Coros /\ NULL \notin Coros \cup {Main}
ASSUME DestroyerAssumption == Destroyers \subseteq Coros \cup {Main}
ASSUME YieldAssumption == MaxYields \in Nat

All == Coros \cup {Main}

VARIABLES
  live,         \* coroutines that are allocated
  status,
  g_co_list, g_co_cnt, g_cur_co,
  exec,         \* whose code runs
  ctx,          \* per coroutine: whose code its jmp_buf continues, or NULL
  destroying,   \* per coroutine: whom its call of coro_destroy waits for
  yields        \* per coroutine: how often it has yielded

listVars == <<g_co_list, g_co_cnt>>
vars == <<live, status, listVars, g_cur_co, exec, ctx, destroying, yields>>

Init ==
  /\ live = {Main}
  /\ status = [c \in All |-> IF c = Main THEN "running" ELSE "ready"]
  /\ g_co_list = <<>> /\ g_co_cnt = 0
  /\ g_cur_co = Main
  /\ exec = Main
  /\ ctx = [c \in All |-> NULL]
  /\ destroying = [c \in All |-> NULL]
  /\ yields = [c \in All |-> 0]

\* The running code is in no call of coro_destroy.
Free == destroying[exec] = NULL

-----------------------------------------------------------------------------
coro_create(c) ==
  /\ Free
  /\ c \in Coros \ live
  /\ live' = live \cup {c}
  /\ status' = [status EXCEPT ![c] = "ready"]
  /\ yields' = [yields EXCEPT ![c] = 0]
  /\ ctx' = [ctx EXCEPT ![c] = NULL]
  /\ UNCHANGED <<listVars, g_cur_co, exec, destroying>>

\* coro_add_list: put c in front unless it is in the list.
Added(list, c) == IF c \in ToSet(list) THEN list ELSE <<c>> \o list

\* Faulty variant: any coroutine may resume another one.
ResumeAnywhere(c) ==
  /\ Free
  /\ c \in live \ {Main} /\ status[c] \in {"ready", "suspend"}
  /\ LET first == IF g_co_cnt = 0 THEN Added(g_co_list, Main) ELSE g_co_list
     IN  g_co_list' = Added(first, c)
  /\ g_co_cnt' = Len(g_co_list')
  /\ ctx' = [ctx EXCEPT ![Main] = exec]
  /\ g_cur_co' = c
  /\ exec' = IF status[c] = "suspend" THEN ctx[c] ELSE c
  /\ status' = [status EXCEPT ![c] = IF @ = "ready" THEN "running" ELSE @]
  /\ UNCHANGED <<live, destroying, yields>>

\* coro_resume: a new coroutine starts on its own stack, a suspended one goes
\* on where it yielded (and keeps the status co_suspend).
coro_resume(c) ==
  /\ Free /\ exec = Main
  /\ c \in live \ {Main} /\ status[c] \in {"ready", "suspend"}
  /\ LET first == IF g_co_cnt = 0 THEN Added(g_co_list, Main) ELSE g_co_list
     IN  g_co_list' = Added(first, c)
  /\ g_co_cnt' = g_co_cnt + Len(g_co_list') - Len(g_co_list)
  /\ ctx' = [ctx EXCEPT ![Main] = exec]
  /\ g_cur_co' = c
  /\ exec' = IF status[c] = "suspend" THEN ctx[c] ELSE c
  /\ status' = [status EXCEPT ![c] = IF @ = "ready" THEN "running" ELSE @]
  /\ UNCHANGED <<live, destroying, yields>>

\* coro_resume(c) that returns with nothing done: there is no memory for the
\* stack of one that is ready, or c has the status co_running or co_done.
ResumeReturns(c) ==
  /\ Free /\ exec = Main
  /\ c \in live \ {Main} /\ status[c] # "suspend"
  /\ UNCHANGED vars

-----------------------------------------------------------------------------
\* Faulty variant: the head of the list is never chosen.
SelectSkipsHead(n, st) ==
  \E i \in 2 .. g_co_cnt :
    \/ st[g_co_list[i]] # "done" /\ n = g_co_list[i]
    \/ st[g_co_list[i]] = "done" /\ n = Main

\* coro_select: a random node of the list; if it is done, a second one; if
\* that is done too, the main coroutine.
Select(n, st) ==
  \E i \in 1 .. g_co_cnt :
    \/ st[g_co_list[i]] # "done" /\ n = g_co_list[i]
    \/ /\ st[g_co_list[i]] = "done"
       /\ \E j \in 1 .. g_co_cnt :
            \/ st[g_co_list[j]] # "done" /\ n = g_co_list[j]
            \/ st[g_co_list[j]] = "done" /\ n = Main

\* coro_yield with the statuses st: save, select n, and go on with n.
coro_yield(n, st) ==
  /\ Select(n, st)
  /\ ctx' = [ctx EXCEPT ![g_cur_co] = exec]
  /\ \/ /\ n = g_cur_co \/ st[n] = "done"
        /\ status' = st
        /\ UNCHANGED <<g_cur_co, exec>>
     \/ /\ n # g_cur_co /\ st[n] # "done"
        /\ status' =
             [st EXCEPT ![g_cur_co] = IF @ = "running" THEN "suspend" ELSE @,
                        ![n] = IF @ = "suspend" THEN "running" ELSE @]
        /\ g_cur_co' = n
        /\ exec' = ctx[n]
  /\ UNCHANGED <<live, listVars>>

\* The code of a coroutine, or main, calls coro_yield.
Yield(n) ==
  /\ Free
  /\ exec # Main => yields[exec] < MaxYields
  /\ yields' = [yields EXCEPT ![exec] = IF exec = Main THEN @ ELSE @ + 1]
  /\ coro_yield(n, status)
  /\ UNCHANGED destroying

\* coro_run: the function has returned.
Finish(n) ==
  /\ Free /\ exec # Main /\ status[exec] # "done"
  /\ coro_yield(n, [status EXCEPT ![exec] = "done"])
  /\ UNCHANGED <<destroying, yields>>

-----------------------------------------------------------------------------
\* A call of coro_destroy(c), which is not the caller and which nobody else
\* destroys.
coro_destroy(c) ==
  /\ Free /\ exec \in Destroyers
  /\ c \in live \ {Main, exec} /\ \A d \in All : destroying[d] # c
  /\ destroying' = [destroying EXCEPT ![exec] = c]
  /\ UNCHANGED <<live, status, listVars, g_cur_co, exec, ctx, yields>>

\* while (status == co_running || status == co_suspend) coro_yield();
DestroyWaits(n) ==
  /\ ~Free
  /\ status[destroying[exec]] \in {"running", "suspend"}
  /\ coro_yield(n, status)
  /\ UNCHANGED <<destroying, yields>>

\* The walk over the list: unlink the first node that is c, if there is one.
UnlinkNode(c) ==
  \/ c \notin ToSet(g_co_list) /\ UNCHANGED g_co_list
  \/ \E k \in DOMAIN g_co_list :
       /\ g_co_list[k] = c /\ \A j \in 1 .. k - 1 : g_co_list[j] # c
       /\ g_co_list' = RemoveAt(g_co_list, k)

\* Faulty variants: coro_destroy does not wait; the counter is not counted
\* down.
DestroyAtOnce(c) ==
  /\ destroying[exec] = c
  /\ UnlinkNode(c)
  /\ g_co_cnt' = Len(g_co_list')
  /\ live' = live \ {c}
  /\ destroying' = [destroying EXCEPT ![exec] = NULL]
  /\ UNCHANGED <<status, g_cur_co, exec, ctx, yields>>
DestroyForgetsCount(c) ==
  /\ destroying[exec] = c
  /\ status[c] \in {"ready", "done"}
  /\ UnlinkNode(c)
  /\ live' = live \ {c}
  /\ destroying' = [destroying EXCEPT ![exec] = NULL]
  /\ UNCHANGED <<g_co_cnt, status, g_cur_co, exec, ctx, yields>>

\* Unlink c, count down if it was in the list, and free it.
DestroyEnds(c) ==
  /\ destroying[exec] = c
  /\ status[c] \in {"ready", "done"}
  /\ UnlinkNode(c)
  /\ g_co_cnt' = IF c \in ToSet(g_co_list) THEN g_co_cnt - 1 ELSE g_co_cnt
  /\ live' = live \ {c}
  /\ destroying' = [destroying EXCEPT ![exec] = NULL]
  /\ UNCHANGED <<status, g_cur_co, exec, ctx, yields>>

Next ==
  \/ \E c \in Coros : \/ coro_create(c) \/ coro_resume(c) \/ ResumeReturns(c)
                      \/ coro_destroy(c) \/ DestroyEnds(c)
  \/ \E n \in All : Yield(n) \/ Finish(n) \/ DestroyWaits(n)

Spec == Init /\ [][Next]_vars

\* The code of a coroutine goes on until it yields or returns, coro_destroy
\* runs, and rand() chooses everyone again and again.  Nothing makes the main
\* coroutine call the library.
Fairness ==
  /\ WF_vars(exec # Main /\ \E n \in All : Yield(n) \/ Finish(n))
  /\ WF_vars(\E c \in Coros : DestroyEnds(c))
  /\ \A n \in All : SF_vars(DestroyWaits(n)) /\ SF_vars(exec # Main /\ (Yield(n) \/ Finish(n)))

FairSpec == Spec /\ Fairness

-----------------------------------------------------------------------------
(* Properties *)

\* rand() % g_co_cnt never walks off the list: the counter, kept apart from
\* the list in coro_add_list and coro_destroy, is its length; the list has no
\* node twice and always leads back to the main coroutine.
CountsList ==
  /\ g_co_cnt = Len(g_co_list)
  /\ IsInjective(g_co_list)
  /\ g_co_list # <<>> => Main \in ToSet(g_co_list)

\* A switch continues the coroutine it names: the library's g_cur_co is the
\* coroutine whose code runs, and every other one that can be selected has its
\* own code saved.
ContextsValid ==
  /\ exec = g_cur_co
  /\ \A c \in ToSet(g_co_list) \ {exec} : status[c] # "done" => ctx[c] = c

\* Nothing the library still reaches is freed: the list, the running
\* coroutine (its stack), and those that wait in coro_destroy.
NothingDangles ==
  /\ exec \in live /\ ToSet(g_co_list) \subseteq live
  /\ \A c \in All : destroying[c] # NULL => c \in live /\ destroying[c] \in live

\* Two coroutines destroy each other: neither can come to its end.
MutualDestroy ==
  \E c, d \in Coros : destroying[c] = d /\ destroying[d] = c

\* coro_destroy returns to the main coroutine: whatever rand() lets run, the
\* coroutine is run to its end and freed, unless two coroutines (of the two
\* that may destroy) wait for each other.
DestroyReturns ==
  destroying[Main] # NULL ~> destroying[Main] = NULL \/ MutualDestroy

=============================================================================
