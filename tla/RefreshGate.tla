---------------------------- MODULE RefreshGate ----------------------------
(***************************************************************************)
(* What the HTTP clients of the app and of the admin site promise about an *)
(* expired token (isRefreshing and the queue next to it): the first answer *)
(* 401 starts one refresh, every later one joins it, and whatever comes of *)
(* it reaches all of them at once.  No request waits without a refresh, no *)
(* refresh starts while one runs, and no request joins one twice.          *)
(***************************************************************************)
EXTENDS Naturals

CONSTANT Requests        \* requests that pass the client's interceptor

VARIABLES stage,         \* [Requests -> {"new", "sent", "held", "settled"}]
          retried,       \* requests that joined a refresh
          refreshing,    \* a refresh is in flight
          rounds         \* refreshes begun since none was in flight

vars == <<stage, retried, refreshing, rounds>>

Held == {r \in Requests : stage[r] = "held"}

Init == /\ stage = [r \in Requests |-> "new"] /\ retried = {}
        /\ refreshing = FALSE /\ rounds = 0

\* A request is made, or made again after a pause.
Send(r) == /\ stage[r] \in {"new", "sent"}
           /\ stage' = [stage EXCEPT ![r] = "sent"]
           /\ UNCHANGED <<retried, refreshing, rounds>>

Settle(r) == /\ stage[r] \in {"new", "sent"}
             /\ stage' = [stage EXCEPT ![r] = "settled"]
             /\ UNCHANGED <<retried, refreshing, rounds>>

Hold(r) == /\ stage[r] = "sent" /\ r \notin retried
           /\ stage' = [stage EXCEPT ![r] = "held"]
           /\ retried' = retried \cup {r}
           /\ refreshing' = TRUE
           /\ rounds' = IF refreshing THEN rounds ELSE 1

\* The refresh ends: all that wait are sent again, or all of them fail.
Release(outcome) ==
    /\ refreshing /\ refreshing' = FALSE
    /\ stage' = [r \in Requests |-> IF r \in Held THEN outcome ELSE stage[r]]
    /\ rounds' = 0 /\ UNCHANGED retried

\* The page or the process is gone, and with it every request.
Abandon == /\ stage' \in [Requests -> {"new", "settled"}] /\ retried' = {}
           /\ refreshing' = FALSE /\ rounds' = 0

Next == \/ \E r \in Requests : Send(r) \/ Settle(r) \/ Hold(r)
        \/ \E outcome \in {"sent", "settled"} : Release(outcome)
        \/ Abandon

Spec == Init /\ [][Next]_vars
=============================================================================
