----------------------------- MODULE MCSession -----------------------------
(***************************************************************************)
(* An instance of PushRegistration and the session below it.  A behaviour  *)
(* is about one of two things: two requests, one of which may be repeated, *)
(* and the downloads and purchases a user acquires; or the registration,   *)
(* with a request that may find the session at its end.  So TLC explores   *)
(* the sum of the two and not their product.                               *)
(***************************************************************************)
EXTENDS PushRegistration

CONSTANTS r1, r2
TwoRequests == {r1, r2}
OneSafe     == {r1}

VARIABLE about
phoneVars == <<allVars, about>>

PhoneInit == /\ Init /\ PushInit
             /\ about \in {"requests", "pushes"}
             /\ (about = "requests" => ~token)

WithRequests(step) == about = "requests" /\ step /\ UNCHANGED pushVars
WithPushes(step)   == /\ about = "pushes" /\ step /\ at'[r1] = "new" /\ at'[r2] # "ok"
                      /\ scoped' \in {scoped, saved, Nobody}     \* nothing is acquired

PhoneNext == /\ WithRequests(Next) \/ WithPushes(PushNext)
             /\ UNCHANGED about

PhoneSpec == PhoneInit /\ [][PhoneNext]_phoneVars

\* The fairness of both specifications.
PhoneFairSpec ==
    /\ PhoneSpec
    /\ WF_phoneVars((WithRequests(Progress) \/ WithPushes(Registration)) /\ UNCHANGED about)
=============================================================================
