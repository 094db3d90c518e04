------------------------ MODULE SimpleCoroutineProofs ------------------------
(***************************************************************************)
(* Proofs about SimpleCoroutine, for any set of coroutines, any bound on    *)
(* their yields and any coroutines that call coro_destroy.                  *)
(***************************************************************************)
EXTENDS SimpleCoroutine, TLAPS

-----------------------------------------------------------------------------
(* The list *)

\* coro_add_list: a new node in front.
LEMMA PushElements ==
  ASSUME NEW q \in Seq(All), NEW c \in All, c \notin ToSet(q), IsInjective(q)
  PROVE  /\ <<c>> \o q \in Seq(All) /\ Len(<<c>> \o q) = Len(q) + 1
         /\ ToSet(<<c>> \o q) = ToSet(q) \cup {c} /\ IsInjective(<<c>> \o q)
  <1> DEFINE r == <<c>> \o q
             n == Len(q)
  <1>1. /\ r \in Seq(All) /\ Len(r) = n + 1 /\ r[1] = c /\ n \in Nat
        /\ DOMAIN q = 1 .. n /\ DOMAIN r = 1 .. n + 1
        /\ \A i \in 2 .. n + 1 : r[i] = q[i - 1] /\ i - 1 \in 1 .. n
    OBVIOUS
  <1> HIDE DEF r
  <1>2. \A i \in 1 .. n : q[i] = r[i + 1] /\ i + 1 \in 1 .. n + 1
    BY <1>1
  <1>3. 1 \in 1 .. n + 1 /\ \A i \in 1 .. n + 1 : i = 1 \/ i \in 2 .. n + 1
    BY <1>1
  <1>4. \A i \in 1 .. n + 1 : r[i] \in ToSet(q) \cup {c}
    <2>1. \A j \in 1 .. n : q[j] \in ToSet(q)
      BY <1>1 DEF ToSet
    <2> QED
      BY <1>1, <1>3, <2>1
  <1>5. ToSet(r) = ToSet(q) \cup {c}
    <2>1. \A x \in ToSet(r) : x \in ToSet(q) \cup {c}
      BY <1>1, <1>4 DEF ToSet
    <2>2. \A i \in 1 .. n : q[i] \in ToSet(r)
      BY <1>1, <1>2 DEF ToSet
    <2>3. \A x \in ToSet(q) : x \in ToSet(r)
      BY <1>1, <2>2 DEF ToSet
    <2>4. c \in ToSet(r)
      BY <1>1, <1>3 DEF ToSet
    <2> QED
      BY <2>1, <2>3, <2>4
  <1>6. /\ \A i, j \in 1 .. n : q[i] = q[j] => i = j
        /\ \A i \in 1 .. n : q[i] # c
    BY <1>1 DEF IsInjective, ToSet
  <1>7. ASSUME NEW i \in 1 .. n + 1, NEW j \in 1 .. n + 1, r[i] = r[j]
        PROVE  i = j
    <2>1. CASE i = 1 \/ j = 1
      BY <1>1, <1>3, <1>6, <1>7, <2>1
    <2>2. CASE i # 1 /\ j # 1
      <3>1. i - 1 = j - 1
        BY <1>1, <1>3, <1>6, <1>7, <2>2
      <3> QED
        BY <1>1, <3>1
    <2> QED
      BY <2>1, <2>2
  <1>8. IsInjective(r)
    BY <1>1, <1>7 DEF IsInjective
  <1> QED
    BY <1>1, <1>5, <1>8 DEF r

\* coro_add_list adds c, and only once.
LEMMA AddedElements ==
  ASSUME NEW q \in Seq(All), NEW c \in All, IsInjective(q)
  PROVE  /\ Added(q, c) \in Seq(All) /\ ToSet(Added(q, c)) = ToSet(q) \cup {c}
         /\ IsInjective(Added(q, c))
  BY PushElements DEF Added

\* The parts before and behind a node, put together.
LEMMA ConcatElements ==
  ASSUME NEW a \in Seq(All), NEW b \in Seq(All)
  PROVE  a \o b \in Seq(All) /\ Len(a \o b) = Len(a) + Len(b)
  OBVIOUS

\* A list without its k-th node.
LEMMA RemoveElements ==
  ASSUME NEW q \in Seq(All), NEW k \in 1 .. Len(q)
  PROVE  /\ RemoveAt(q, k) \in Seq(All) /\ Len(RemoveAt(q, k)) = Len(q) - 1
         /\ \A i \in 1 .. Len(q) - 1 :
              RemoveAt(q, k)[i] = IF i < k THEN q[i] ELSE q[i + 1]
  <1> DEFINE a == SubSeq(q, 1, k - 1)
             b == SubSeq(q, k + 1, Len(q))
  <1>1. a \in Seq(All) /\ Len(a) = k - 1 /\ \A i \in 1 .. k - 1 : a[i] = q[i]
    OBVIOUS
  <1>2. /\ b \in Seq(All) /\ Len(b) = Len(q) - k
        /\ \A i \in 1 .. Len(q) - k : b[i] = q[i + k]
    OBVIOUS
  <1>3. RemoveAt(q, k) = a \o b
    BY DEF RemoveAt
  <1> HIDE DEF a, b
  <1>4. a \o b \in Seq(All) /\ Len(a \o b) = Len(a) + Len(b)
    BY <1>1, <1>2, ConcatElements
  <1>5. Len(q) \in Nat /\ k \in Nat /\ Len(a \o b) = Len(q) - 1
    BY <1>1, <1>2, <1>4
  <1>6. ASSUME NEW i \in 1 .. Len(q) - 1
        PROVE  (a \o b)[i] = IF i < k THEN q[i] ELSE q[i + 1]
    <2>1. CASE i < k
      BY <1>1, <1>2, <2>1
    <2>2. CASE i >= k
      <3>1. (a \o b)[i] = b[i - (k - 1)]
        BY <1>1, <1>2, <2>2
      <3>2. i - (k - 1) \in 1 .. Len(q) - k /\ i - (k - 1) + k = i + 1
        BY <2>2
      <3> QED
        BY <1>2, <2>2, <3>1, <3>2
    <2>3. i < k \/ i >= k
      BY <1>5
    <2> QED
      BY <2>1, <2>2, <2>3
  <1> QED
    BY <1>3, <1>4, <1>5, <1>6

\* coro_destroy takes c out of the list and nothing else.
LEMMA UnlinkElements ==
  ASSUME g_co_list \in Seq(All), IsInjective(g_co_list), NEW c \in All, UnlinkNode(c)
  PROVE  /\ g_co_list' \in Seq(All) /\ ToSet(g_co_list') = ToSet(g_co_list) \ {c}
         /\ IsInjective(g_co_list')
         /\ Len(g_co_list') =
              IF c \in ToSet(g_co_list) THEN Len(g_co_list) - 1 ELSE Len(g_co_list)
  <1> DEFINE q == g_co_list
             r == g_co_list'
             n == Len(g_co_list)
  <1>0. /\ n \in Nat /\ DOMAIN q = 1 .. n
        /\ \A i, j \in 1 .. n : q[i] = q[j] => i = j
    BY DEF IsInjective
  <1>1. CASE c \notin ToSet(q) /\ r = q
    BY <1>1
  <1>2. ASSUME NEW k \in DOMAIN q, q[k] = c, r = RemoveAt(q, k)
        PROVE  /\ r \in Seq(All) /\ ToSet(r) = ToSet(q) \ {c} /\ IsInjective(r)
               /\ Len(r) = n - 1 /\ c \in ToSet(q)
    <2>0. k \in 1 .. n /\ q \in Seq(All)
      BY <1>0, <1>2
    <2>1. /\ r \in Seq(All) /\ Len(r) = n - 1 /\ k \in 1 .. n
          /\ \A i \in 1 .. n - 1 : r[i] = IF i < k THEN q[i] ELSE q[i + 1]
      BY <1>2, <2>0, RemoveElements
    <2>2. DOMAIN r = 1 .. n - 1
      BY <1>0, <2>1
    <2> HIDE DEF q, r, n
    <2>3. ASSUME NEW i \in 1 .. n - 1
          PROVE  \E j \in 1 .. n : j # k /\ r[i] = q[j] /\ j = IF i < k THEN i ELSE i + 1
      <3>1. /\ i < k => i \in 1 .. n /\ i # k /\ r[i] = q[i]
            /\ i >= k => i + 1 \in 1 .. n /\ i + 1 # k /\ r[i] = q[i + 1]
            /\ i < k \/ i >= k
        BY <1>0, <2>1
      <3> QED
        BY <3>1
    <2>4. ASSUME NEW j \in 1 .. n, j # k
          PROVE  \E i \in 1 .. n - 1 : r[i] = q[j]
      <3>1. CASE j < k
        <4>1. j \in 1 .. n - 1 /\ r[j] = q[j]
          BY <1>0, <2>1, <3>1
        <4> QED
          BY <4>1
      <3>2. CASE j > k
        <4>1. j - 1 \in 1 .. n - 1 /\ r[j - 1] = q[j]
          BY <1>0, <2>1, <3>2
        <4> QED
          BY <4>1
      <3> QED
        BY <1>0, <2>1, <2>4, <3>1, <3>2
    <2>5. c \in ToSet(q)
      BY <1>0, <1>2, <2>1 DEF ToSet
    <2>6. \A i \in 1 .. n - 1 : r[i] \in ToSet(q) \ {c}
      BY <1>0, <1>2, <2>1, <2>3 DEF ToSet
    <2>7. \A j \in 1 .. n : q[j] # c => q[j] \in ToSet(r)
      BY <1>2, <2>2, <2>4 DEF ToSet
    <2>8. ToSet(r) = ToSet(q) \ {c}
      BY <1>0, <2>2, <2>6, <2>7 DEF ToSet
    <2>9. ASSUME NEW i \in 1 .. n - 1, NEW j \in 1 .. n - 1, r[i] = r[j]
          PROVE  i = j
      <3>1. PICK x \in 1 .. n : r[i] = q[x] /\ x = IF i < k THEN i ELSE i + 1
        BY <2>3
      <3>2. PICK y \in 1 .. n : r[j] = q[y] /\ y = IF j < k THEN j ELSE j + 1
        BY <2>3
      <3>3. x = y
        BY <1>0, <2>9, <3>1, <3>2
      <3> QED
        BY <1>0, <2>1, <3>1, <3>2, <3>3
    <2>10. IsInjective(r)
      BY <2>2, <2>9 DEF IsInjective
    <2> QED
      BY <2>1, <2>5, <2>8, <2>10
  <1> QED
    BY <1>1, <1>2 DEF UnlinkNode

-----------------------------------------------------------------------------
(* The inductive invariant *)

Statuses == {"ready", "running", "suspend", "done"}

\* Coroutines whose function has begun and has not returned.
Active == {c \in All : status[c] \in {"running", "suspend"}}

\* Every variable has its type.
TypeInv ==
  /\ live \subseteq All
  /\ status \in [All -> Statuses]
  /\ g_co_list \in Seq(All)
  /\ g_co_cnt \in Nat
  /\ g_cur_co \in All
  /\ exec \in All
  /\ ctx \in [All -> All \cup {NULL}]
  /\ destroying \in [All -> Coros \cup {NULL}]
  /\ yields \in [All -> Nat]

\* The main coroutine and the running one are in the middle of their code; the
\* list holds no coroutine that was never resumed and, of those that are alive,
\* every one whose function has begun and has not returned.
ActiveInv ==
  /\ Main \in live /\ Main \in Active /\ exec \in Active
  /\ \A c \in ToSet(g_co_list) : status[c] # "ready"
  /\ \A c \in live \ {Main} : c \in Active => c \in ToSet(g_co_list)

\* Only active coroutines wait in coro_destroy, each for another one, and no two
\* for the same.
DestroyInv ==
  /\ \A c \in All : destroying[c] # NULL => c \in Active /\ destroying[c] # c
  /\ \A c, d \in All : destroying[c] # NULL /\ destroying[c] = destroying[d] => c = d

\* The three properties need one another, and the two parts above: a switch to n is
\* right because n is in the list and active, and what is freed is not active.
CoroInv ==
  TypeInv /\ CountsList /\ ContextsValid /\ NothingDangles /\ ActiveInv /\ DestroyInv

\* Only the main coroutine exists and runs.
LEMMA InitCoro == Init => CoroInv
  <1> SUFFICES ASSUME Init PROVE CoroInv
    OBVIOUS
  <1>1. Main \in All /\ ToSet(g_co_list) = {}
    BY DEF Init, All, ToSet
  <1>2. TypeInv
    BY <1>1 DEF Init, TypeInv, Statuses, All
  <1>3. CountsList
    BY DEF Init, CountsList, IsInjective
  <1>4. ContextsValid /\ NothingDangles /\ DestroyInv
    BY <1>1 DEF Init, ContextsValid, NothingDangles, DestroyInv
  <1>5. ActiveInv
    BY <1>1 DEF Init, ActiveInv, Active
  <1> QED
    BY <1>2, <1>3, <1>4, <1>5 DEF CoroInv

\* A new coroutine is in no list, and nobody waits for it.
LEMMA CreateKeeps ==
  ASSUME CoroInv, NEW c \in Coros, coro_create(c)
  PROVE  CoroInv'
  <1>1. /\ c \in All /\ c \notin live /\ c # Main /\ c \notin ToSet(g_co_list) /\ c # exec
        /\ destroying[c] = NULL /\ TypeInv
    BY MainAssumption DEF coro_create, CoroInv, NothingDangles, All
  <1>2. /\ live' = live \cup {c} /\ status' = [status EXCEPT ![c] = "ready"]
        /\ yields' = [yields EXCEPT ![c] = 0] /\ ctx' = [ctx EXCEPT ![c] = NULL]
        /\ UNCHANGED <<g_co_list, g_co_cnt, g_cur_co, exec, destroying>>
    BY DEF coro_create, listVars
  <1>3. TypeInv'
    BY <1>1, <1>2 DEF TypeInv, Statuses
  <1>4. CountsList'
    BY <1>2 DEF CoroInv, CountsList
  <1>5. /\ \A d \in All : d # c => status'[d] = status[d] /\ ctx'[d] = ctx[d]
        /\ status'[c] = "ready"
    BY <1>1, <1>2 DEF TypeInv
  <1>6. ToSet(g_co_list) \subseteq All
    BY <1>1 DEF TypeInv, ToSet
  <1>7. ContextsValid'
    BY <1>1, <1>2, <1>5, <1>6 DEF CoroInv, ContextsValid
  <1>8. NothingDangles'
    BY <1>1, <1>2 DEF CoroInv, NothingDangles
  <1>9. \A d \in All : d \in Active' <=> d \in Active /\ d # c
    <2>1. c \notin Active'
      BY <1>5 DEF Active
    <2> QED
      BY <1>5, <2>1 DEF Active
  <1>10. ActiveInv'
    BY <1>1, <1>2, <1>5, <1>6, <1>9 DEF CoroInv, ActiveInv, TypeInv, All
  <1>11. DestroyInv'
    BY <1>1, <1>2, <1>9 DEF CoroInv, DestroyInv
  <1> QED
    BY <1>3, <1>4, <1>7, <1>8, <1>10, <1>11 DEF CoroInv

\* coro_resume puts the main coroutine and c into the list.
LEMMA ResumeList ==
  ASSUME CoroInv, NEW c \in Coros, coro_resume(c)
  PROVE  /\ g_co_list' \in Seq(All) /\ CountsList' /\ g_co_cnt' \in Nat
         /\ ToSet(g_co_list') = ToSet(g_co_list) \cup {Main, c}
  <1> DEFINE first == IF g_co_cnt = 0 THEN Added(g_co_list, Main) ELSE g_co_list
  <1>1. /\ g_co_list \in Seq(All) /\ IsInjective(g_co_list) /\ g_co_cnt = Len(g_co_list)
        /\ c \in All /\ Main \in All
    BY DEF CoroInv, TypeInv, CountsList, All
  <1>2. /\ g_co_list' = Added(first, c)
        /\ g_co_cnt' = g_co_cnt + Len(g_co_list') - Len(g_co_list)
    BY DEF coro_resume
  <1>3. first \in Seq(All) /\ IsInjective(first) /\ ToSet(first) = ToSet(g_co_list) \cup {Main}
    <2>1. CASE g_co_cnt = 0
      BY <1>1, <2>1, AddedElements
    <2>2. CASE g_co_cnt # 0
      BY <1>1, <2>2 DEF CoroInv, CountsList
    <2> QED
      BY <2>1, <2>2
  <1> HIDE DEF first
  <1>4. /\ g_co_list' \in Seq(All) /\ IsInjective(g_co_list')
        /\ ToSet(g_co_list') = ToSet(first) \cup {c}
    BY <1>1, <1>2, <1>3, AddedElements
  <1>5. g_co_cnt' = Len(g_co_list') /\ g_co_cnt' \in Nat
    BY <1>1, <1>2, <1>4
  <1> QED
    BY <1>3, <1>4, <1>5 DEF CountsList

\* coro_resume starts c or goes on with c's own code, never with another's.
LEMMA ResumeKeeps ==
  ASSUME CoroInv, NEW c \in Coros, coro_resume(c)
  PROVE  CoroInv'
  <1>1. /\ c \in All /\ c \in live /\ c # Main /\ exec = Main /\ g_cur_co = Main
        /\ status[c] \in {"ready", "suspend"} /\ TypeInv /\ Main \in All
    BY MainAssumption DEF coro_resume, CoroInv, ContextsValid, All
  <1>2. /\ ctx' = [ctx EXCEPT ![Main] = Main] /\ g_cur_co' = c
        /\ exec' = IF status[c] = "suspend" THEN ctx[c] ELSE c
        /\ status' = [status EXCEPT ![c] = IF @ = "ready" THEN "running" ELSE @]
        /\ UNCHANGED <<live, destroying, yields>>
    BY <1>1 DEF coro_resume
  <1>3. exec' = c
    <2>1. CASE status[c] = "suspend"
      <3>1. c \in ToSet(g_co_list)
        BY <1>1, <2>1 DEF CoroInv, ActiveInv, Active
      <3>2. ctx[c] = c
        BY <1>1, <2>1, <3>1 DEF CoroInv, ContextsValid
      <3> QED
        BY <1>2, <2>1, <3>2
    <2>2. CASE status[c] # "suspend"
      BY <1>2, <2>2
    <2> QED
      BY <2>1, <2>2
  <1>4. /\ g_co_list' \in Seq(All) /\ CountsList' /\ g_co_cnt' \in Nat
        /\ ToSet(g_co_list') = ToSet(g_co_list) \cup {Main, c}
    BY ResumeList
  <1>5. /\ \A d \in All : d # c => status'[d] = status[d]
        /\ \A d \in All : d # Main => ctx'[d] = ctx[d]
        /\ ctx'[Main] = Main /\ status'[c] \in {"running", "suspend"}
    BY <1>1, <1>2 DEF TypeInv
  <1>6. TypeInv'
    BY <1>1, <1>2, <1>3, <1>4, <1>5 DEF TypeInv, Statuses
  <1>7. ToSet(g_co_list) \subseteq All
    BY <1>1 DEF TypeInv, ToSet
  <1>8. ContextsValid'
    BY <1>1, <1>2, <1>3, <1>4, <1>5, <1>7 DEF CoroInv, ContextsValid
  <1>9. NothingDangles'
    BY <1>1, <1>2, <1>3, <1>4 DEF CoroInv, NothingDangles, ActiveInv
  <1>10. Active' = Active \cup {c}
    BY <1>1, <1>5 DEF Active
  <1>11. ActiveInv'
    <2>1. \A d \in ToSet(g_co_list') : status'[d] # "ready"
      BY <1>1, <1>4, <1>5, <1>7 DEF CoroInv, ActiveInv, Active
    <2> QED
      BY <1>1, <1>2, <1>3, <1>4, <1>10, <2>1 DEF CoroInv, ActiveInv
  <1>12. DestroyInv'
    BY <1>2, <1>10 DEF CoroInv, DestroyInv
  <1> QED
    BY <1>4, <1>6, <1>8, <1>9, <1>11, <1>12 DEF CoroInv

-----------------------------------------------------------------------------
(* Switching *)

\* The statuses st a call of coro_yield starts with: those the coroutines have, or
\* those after the running coroutine, not the main one, has come to its end.
YieldStatus(st) ==
  /\ st \in [All -> Statuses]
  /\ \A c \in All : c # exec => st[c] = status[c]
  /\ st[exec] = status[exec] \/ (st[exec] = "done" /\ exec # Main /\ destroying[exec] = NULL)

\* coro_select finds an active coroutine of the list.
LEMMA SelectElements ==
  ASSUME CoroInv, NEW st, YieldStatus(st), NEW n, Select(n, st)
  PROVE  n \in All /\ n \in ToSet(g_co_list) /\ st[n] \in {"running", "suspend"}
  <1>1. /\ g_co_list \in Seq(All) /\ g_co_cnt = Len(g_co_list) /\ Main \in All /\ exec \in All
    BY DEF CoroInv, TypeInv, CountsList, All
  <1>2. /\ \A i \in 1 .. g_co_cnt : g_co_list[i] \in ToSet(g_co_list) /\ g_co_list[i] \in All
        /\ g_co_cnt # 0 => Main \in ToSet(g_co_list)
    <2>1. \A i \in 1 .. g_co_cnt : g_co_list[i] \in ToSet(g_co_list) /\ g_co_list[i] \in All
      BY <1>1 DEF ToSet
    <2>2. g_co_cnt # 0 => Main \in ToSet(g_co_list)
      BY <1>1 DEF CoroInv, CountsList
    <2> QED
      BY <2>1, <2>2
  <1>3. st[Main] # "done"
    BY <1>1 DEF CoroInv, ActiveInv, Active, YieldStatus
  <1>4. n \in All /\ n \in ToSet(g_co_list) /\ st[n] # "done"
    BY <1>1, <1>2, <1>3 DEF Select
  <1>5. st[n] # "ready"
    BY <1>1, <1>4 DEF CoroInv, ActiveInv, YieldStatus
  <1> QED
    BY <1>4, <1>5 DEF YieldStatus, Statuses

\* coro_yield goes on with n: with n's own code.
LEMMA YieldSwitches ==
  ASSUME CoroInv, NEW st, YieldStatus(st), NEW n, coro_yield(n, st)
  PROVE  /\ exec' = n /\ g_cur_co' = n /\ ctx' = [ctx EXCEPT ![exec] = exec]
         /\ status' \in [All -> Statuses]
         /\ \A c \in All : /\ status'[c] = "ready" <=> st[c] = "ready"
                           /\ status'[c] = "done" <=> st[c] = "done"
         /\ UNCHANGED <<live, g_co_list, g_co_cnt>>
  <1>1. n \in All /\ n \in ToSet(g_co_list) /\ st[n] \in {"running", "suspend"}
    BY SelectElements DEF coro_yield
  <1>2. /\ exec \in All /\ g_cur_co = exec /\ st \in [All -> Statuses]
        /\ ctx' = [ctx EXCEPT ![exec] = exec] /\ UNCHANGED <<live, g_co_list, g_co_cnt>>
    BY DEF CoroInv, TypeInv, ContextsValid, coro_yield, listVars, YieldStatus
  <1>3. CASE (n = g_cur_co \/ st[n] = "done") /\ status' = st /\ UNCHANGED <<g_cur_co, exec>>
    BY <1>1, <1>2, <1>3
  <1>4. CASE /\ n # g_cur_co
             /\ status' =
                  [st EXCEPT ![g_cur_co] = IF @ = "running" THEN "suspend" ELSE @,
                             ![n] = IF @ = "suspend" THEN "running" ELSE @]
             /\ g_cur_co' = n /\ exec' = ctx[n]
    <2>1. ctx[n] = n
      BY <1>1, <1>2, <1>4 DEF CoroInv, ContextsValid, YieldStatus
    <2>2. \A c \in All : status'[c] =
            IF c = exec THEN IF st[c] = "running" THEN "suspend" ELSE st[c]
            ELSE IF c = n THEN IF st[c] = "suspend" THEN "running" ELSE st[c]
            ELSE st[c]
      BY <1>1, <1>2, <1>4
    <2>3. status' \in [All -> Statuses]
      BY <1>2, <1>4 DEF Statuses
    <2> QED
      BY <1>2, <1>4, <2>1, <2>2, <2>3
  <1> QED
    BY <1>2, <1>3, <1>4 DEF coro_yield

\* Every call of coro_yield keeps the invariant.
LEMMA YieldKeeps ==
  ASSUME CoroInv, NEW st, YieldStatus(st), NEW n, coro_yield(n, st),
         UNCHANGED destroying, yields' \in [All -> Nat]
  PROVE  CoroInv'
  <1>1. n \in All /\ n \in ToSet(g_co_list) /\ st[n] \in {"running", "suspend"}
    BY SelectElements DEF coro_yield
  <1>2. /\ exec' = n /\ g_cur_co' = n /\ ctx' = [ctx EXCEPT ![exec] = exec]
        /\ status' \in [All -> Statuses]
        /\ \A c \in All : /\ status'[c] = "ready" <=> st[c] = "ready"
                          /\ status'[c] = "done" <=> st[c] = "done"
        /\ UNCHANGED <<live, g_co_list, g_co_cnt, destroying>>
    BY YieldSwitches
  <1>3. TypeInv /\ exec \in All /\ ToSet(g_co_list) \subseteq All /\ Main \in All
    BY DEF CoroInv, TypeInv, ToSet, All
  <1>4. TypeInv'
    BY <1>1, <1>2, <1>3 DEF TypeInv, Statuses
  <1>5. CountsList'
    BY <1>2 DEF CoroInv, CountsList
  <1>6. \A c \in All : c # exec => (status'[c] = "done" <=> status[c] = "done")
    BY <1>2 DEF YieldStatus
  <1>7. /\ \A c \in All : c # exec => ctx'[c] = ctx[c]
        /\ ctx'[exec] = exec
    BY <1>2, <1>3 DEF TypeInv
  <1>8. ContextsValid'
    BY <1>2, <1>3, <1>6, <1>7 DEF CoroInv, ContextsValid
  <1>9. NothingDangles'
    BY <1>1, <1>2 DEF CoroInv, NothingDangles
  <1>10. /\ Active' = {c \in All : st[c] \in {"running", "suspend"}}
         /\ Active \ {exec} \subseteq Active' /\ Active' \subseteq Active
    <2>1. \A c \in All : status'[c] \in {"running", "suspend"} <=> st[c] \in {"running", "suspend"}
      BY <1>2 DEF YieldStatus, Statuses
    <2>2. \A c \in All : /\ c # exec => st[c] = status[c]
                         /\ st[c] \in {"running", "suspend"} => st[c] = status[c]
      BY DEF YieldStatus
    <2> QED
      BY <2>1, <2>2 DEF Active
  <1>11. exec \in Active' \/ (exec # Main /\ destroying[exec] = NULL)
    BY <1>3, <1>10 DEF CoroInv, ActiveInv, Active, YieldStatus
  <1>12. ActiveInv'
    <2>1. \A c \in ToSet(g_co_list) : status'[c] # "ready"
      BY <1>2, <1>3 DEF CoroInv, ActiveInv, YieldStatus
    <2>2. Main \in Active' /\ n \in Active'
      BY <1>1, <1>10, <1>11 DEF CoroInv, ActiveInv
    <2> QED
      BY <1>2, <1>10, <2>1, <2>2 DEF CoroInv, ActiveInv
  <1>13. DestroyInv'
    BY <1>2, <1>10, <1>11 DEF CoroInv, DestroyInv
  <1> QED
    BY <1>4, <1>5, <1>8, <1>9, <1>12, <1>13 DEF CoroInv

\* The three callers of coro_yield: the function of a coroutine, the end of one
\* (coro_run) and the loop of coro_destroy.
LEMMA SwitchKeeps ==
  ASSUME CoroInv, NEW n, Yield(n) \/ Finish(n) \/ DestroyWaits(n)
  PROVE  CoroInv'
  <1>0. TypeInv /\ exec \in All
    BY DEF CoroInv, TypeInv
  <1>1. YieldStatus(status)
    BY <1>0 DEF TypeInv, YieldStatus, Statuses
  <1>2. CASE Yield(n)
    <2>1. yields' \in [All -> Nat]
      BY <1>0, <1>2 DEF Yield, TypeInv
    <2> QED
      BY <1>1, <1>2, <2>1, YieldKeeps DEF Yield
  <1>3. CASE Finish(n)
    <2>1. YieldStatus([status EXCEPT ![exec] = "done"])
      BY <1>0, <1>3 DEF Finish, Free, TypeInv, YieldStatus, Statuses
    <2> QED
      BY <1>0, <1>3, <2>1, YieldKeeps DEF Finish, TypeInv
  <1>4. CASE DestroyWaits(n)
    BY <1>0, <1>1, <1>4, YieldKeeps DEF DestroyWaits, TypeInv
  <1> QED
    BY <1>2, <1>3, <1>4

-----------------------------------------------------------------------------
(* Destroying *)

\* A call of coro_destroy begins.
LEMMA DestroyKeeps ==
  ASSUME CoroInv, NEW c \in Coros, coro_destroy(c)
  PROVE  CoroInv'
  <1>1. /\ TypeInv /\ exec \in All /\ c \in live /\ c # exec /\ destroying[exec] = NULL
        /\ \A d \in All : destroying[d] # c
    BY DEF CoroInv, TypeInv, coro_destroy, Free
  <1>2. /\ destroying' = [destroying EXCEPT ![exec] = c]
        /\ UNCHANGED <<live, status, g_co_list, g_co_cnt, g_cur_co, exec, ctx, yields>>
    BY DEF coro_destroy, listVars
  <1>3. /\ \A d \in All : d # exec => destroying'[d] = destroying[d]
        /\ destroying'[exec] = c
    BY <1>1, <1>2 DEF TypeInv
  <1>4. TypeInv'
    BY <1>1, <1>2 DEF TypeInv
  <1>5. CountsList' /\ ContextsValid' /\ ActiveInv' /\ Active' = Active
    BY <1>2 DEF CoroInv, CountsList, ContextsValid, ActiveInv, Active
  <1>6. NothingDangles'
    BY <1>1, <1>2, <1>3 DEF CoroInv, NothingDangles
  <1>7. DestroyInv'
    BY <1>1, <1>2, <1>3, <1>5 DEF CoroInv, DestroyInv, ActiveInv
  <1> QED
    BY <1>4, <1>5, <1>6, <1>7 DEF CoroInv

\* It ends: c is done or was never started, so it is not the running coroutine and
\* waits for nobody, and nobody else waits for it.
LEMMA DestroyEndsKeeps ==
  ASSUME CoroInv, NEW c \in Coros, DestroyEnds(c)
  PROVE  CoroInv'
  <1>1. /\ TypeInv /\ exec \in All /\ c \in All /\ c # NULL /\ c # Main
        /\ destroying[exec] = c /\ c \notin Active
    BY MainAssumption DEF CoroInv, TypeInv, DestroyEnds, Active, All
  <1>2. /\ destroying' = [destroying EXCEPT ![exec] = NULL] /\ live' = live \ {c}
        /\ g_co_cnt' = IF c \in ToSet(g_co_list) THEN g_co_cnt - 1 ELSE g_co_cnt
        /\ UNCHANGED <<status, g_cur_co, exec, ctx, yields>>
    BY DEF DestroyEnds
  <1>3. /\ g_co_list' \in Seq(All) /\ ToSet(g_co_list') = ToSet(g_co_list) \ {c}
        /\ IsInjective(g_co_list')
        /\ Len(g_co_list') =
             IF c \in ToSet(g_co_list) THEN Len(g_co_list) - 1 ELSE Len(g_co_list)
    BY <1>1, UnlinkElements DEF CoroInv, TypeInv, CountsList, DestroyEnds
  <1>4. /\ \A d \in All : d # exec => destroying'[d] = destroying[d]
        /\ destroying'[exec] = NULL
    BY <1>1, <1>2 DEF TypeInv
  <1>5. c # exec /\ Active' = Active
    BY <1>1, <1>2 DEF CoroInv, ActiveInv, Active
  <1>6. g_co_cnt' = Len(g_co_list') /\ g_co_cnt' \in Nat
    BY <1>2, <1>3 DEF CoroInv, CountsList
  <1>7. TypeInv'
    BY <1>1, <1>2, <1>3, <1>6 DEF TypeInv
  <1>8. CountsList'
    <2>1. g_co_list = <<>> => g_co_list' = <<>>
      <3>1. g_co_list = <<>> => c \notin ToSet(g_co_list) /\ Len(g_co_list) = 0
        BY DEF ToSet
      <3> QED
        BY <1>3, <3>1
    <2> QED
      BY <1>1, <1>3, <1>6, <2>1 DEF CoroInv, CountsList
  <1>9. ContextsValid'
    BY <1>2, <1>3 DEF CoroInv, ContextsValid
  <1>10. NothingDangles'
    <2>1. ASSUME NEW d \in All, destroying'[d] # NULL
          PROVE  d \in live' /\ destroying'[d] \in live'
      <3>1. d # exec /\ destroying[d] = destroying'[d]
        BY <1>4, <2>1
      <3>2. d \in Active /\ destroying[d] # c
        BY <1>1, <2>1, <3>1 DEF CoroInv, DestroyInv
      <3> QED
        BY <1>1, <1>2, <2>1, <3>1, <3>2 DEF CoroInv, NothingDangles
    <2> QED
      BY <1>2, <1>3, <1>5, <2>1 DEF CoroInv, NothingDangles
  <1>11. ActiveInv'
    BY <1>1, <1>2, <1>3, <1>5 DEF CoroInv, ActiveInv
  <1>12. DestroyInv'
    BY <1>1, <1>4, <1>5 DEF CoroInv, DestroyInv
  <1> QED
    BY <1>7, <1>8, <1>9, <1>10, <1>11, <1>12 DEF CoroInv

\* CoroInv is preserved by every step.
LEMMA StepKeepsCoro == CoroInv /\ [Next]_vars => CoroInv'
  <1> SUFFICES ASSUME CoroInv, [Next]_vars PROVE CoroInv'
    OBVIOUS
  <1>1. CASE UNCHANGED vars
    BY <1>1 DEF vars, listVars, CoroInv, TypeInv, CountsList, ContextsValid, NothingDangles,
       ActiveInv, DestroyInv, Active
  <1> QED
    BY <1>1, CreateKeeps, ResumeKeeps, SwitchKeeps, DestroyKeeps, DestroyEndsKeeps
       DEF Next, ResumeReturns

\* CoroInv always holds.
LEMMA CoroInvariant == Spec => []CoroInv
  BY InitCoro, StepKeepsCoro, PTL DEF Spec

\* rand() % g_co_cnt never walks off the list (CountsList).
THEOREM CounterIsLength == Spec => []CountsList
  BY CoroInvariant, PTL DEF CoroInv

\* A switch continues the coroutine it names (ContextsValid).
THEOREM SwitchesAreRight == Spec => []ContextsValid
  BY CoroInvariant, PTL DEF CoroInv

\* Nothing the library still reaches has been freed (NothingDangles).
THEOREM NoDanglingCoroutine == Spec => []NothingDangles
  BY CoroInvariant, PTL DEF CoroInv
=============================================================================
