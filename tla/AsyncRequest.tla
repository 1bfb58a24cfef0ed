---------------------------- MODULE AsyncRequest ----------------------------
(***************************************************************************)
(* What a GTask promises to the one who started it, here                   *)
(* bus_engine_proxy_new: every request is answered, once, and a request    *)
(* that was cancelled is answered with an error.  The daemon may crash     *)
(* over a request that was not cancelled; then nothing is owed any more.   *)
(***************************************************************************)
CONSTANTS Requests, Results

VARIABLES
  pending,    \* the requests that still owe an answer
  cancelled,  \* those of them that were cancelled
  result,     \* the answer of the last request made with this slot
  crashed     \* the daemon is gone

vars == <<pending, cancelled, result, crashed>>

Init ==
  /\ pending = {} /\ cancelled = {} /\ ~crashed
  /\ result = [r \in Requests |-> "none"]

Start(r) ==
  /\ r \notin pending
  /\ pending' = pending \cup {r}
  /\ result' = [result EXCEPT ![r] = "none"]
  /\ UNCHANGED <<cancelled, crashed>>

Cancel(r) ==
  /\ r \in pending \ cancelled
  /\ cancelled' = cancelled \cup {r}
  /\ UNCHANGED <<pending, result, crashed>>

Answer(r) ==
  /\ r \in pending
  /\ \E x \in Results : /\ r \in cancelled => x = "error"
                        /\ result' = [result EXCEPT ![r] = x]
  /\ pending' = pending \ {r}
  /\ cancelled' = cancelled \ {r}
  /\ UNCHANGED crashed

Crash ==
  /\ pending \ cancelled # {}
  /\ pending' = {} /\ cancelled' = {} /\ crashed' = TRUE
  /\ UNCHANGED result

Next ==
  /\ ~crashed
  /\ Crash \/ \E r \in Requests : Start(r) \/ Cancel(r) \/ Answer(r)

Owed(r) == r \in pending

Answered(r) == Owed(r) ~> ~Owed(r)

Spec == Init /\ [][Next]_vars /\ \A r \in Requests : Answered(r)
=============================================================================
