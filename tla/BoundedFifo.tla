----------------------------- MODULE BoundedFifo -----------------------------
(***************************************************************************)
(* What the two queues of inc/os/CircularQueue.hpp promise their callers: a *)
(* first-in first-out queue of at most Capacity values.  A call takes       *)
(* effect in one step between its start and its return; a call that may not *)
(* block is refused only in a state in which it really could not be served. *)
(***************************************************************************)
EXTENDS Integers, Sequences

CONSTANTS
  Threads,    \* threads that call push and pop
  Values,     \* values of the template parameter T
  NoValue,    \* no value: not a member of Values
  NULL,       \* no call in progress
  Capacity

VARIABLES
  q,          \* the values in the queue, oldest first
  req,        \* per thread: the call it is in, or NULL
  res         \* per thread: what its last call returned

fifoVars == <<q, req, res>>

PushCalls == [op : {"push"}, v : Values, block : BOOLEAN]
PopCalls  == [op : {"pop"}, v : {NoValue}, block : BOOLEAN]
Requests  == PushCalls \cup PopCalls

\* A result: the bool returned and the value handed over by a pop.
Result(b, v) == [ok |-> b, v |-> v]
Results == [ok : BOOLEAN, v : Values \cup {NoValue}]

Init ==
  /\ q = <<>>
  /\ req = [t \in Threads |-> NULL]
  /\ res = [t \in Threads |-> Result(FALSE, NoValue)]

Call(t, r) ==
  /\ req[t] = NULL
  /\ req' = [req EXCEPT ![t] = r]
  /\ UNCHANGED <<q, res>>

Return(t, r) ==
  /\ req' = [req EXCEPT ![t] = NULL]
  /\ res' = [res EXCEPT ![t] = r]

Put(t) ==
  /\ req[t] \in PushCalls
  /\ Len(q) < Capacity
  /\ q' = Append(q, req[t].v)
  /\ Return(t, Result(TRUE, NoValue))

Take(t) ==
  /\ req[t] \in PopCalls
  /\ q # <<>>
  /\ q' = Tail(q)
  /\ Return(t, Result(TRUE, Head(q)))

RefusePut(t) ==
  /\ req[t] \in PushCalls /\ ~req[t].block
  /\ Len(q) = Capacity
  /\ Return(t, Result(FALSE, NoValue))
  /\ UNCHANGED q

RefuseTake(t) ==
  /\ req[t] \in PopCalls /\ ~req[t].block
  /\ q = <<>>
  /\ Return(t, Result(FALSE, NoValue))
  /\ UNCHANGED q

Next ==
  \E t \in Threads :
    \/ \E r \in Requests : Call(t, r)
    \/ Put(t) \/ Take(t) \/ RefusePut(t) \/ RefuseTake(t)

Spec == Init /\ [][Next]_fifoVars

=============================================================================
