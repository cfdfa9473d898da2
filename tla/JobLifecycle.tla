---------------------------- MODULE JobLifecycle ----------------------------
(***************************************************************************)
(* What the inflation queue promises about one row of inflation_job,       *)
(* whoever runs it: a job is inserted once, every execution is a new       *)
(* attempt of a job that is pending or whose runner is presumed dead, only *)
(* a running job settles, and a settled job never changes again.           *)
(* (domain/inflation.go and the comments of inflation_repo.go.)            *)
(***************************************************************************)
EXTENDS Naturals

CONSTANT Jobs            \* rows of inflation_job, present or still to come

VARIABLES status,        \* [Jobs -> Statuses], the column; "absent" = no row
          attempts       \* [Jobs -> Nat], the column

vars == <<status, attempts>>

Settled  == {"completed", "failed", "dead"}
Statuses == {"absent", "pending", "running"} \cup Settled

Init == /\ status = [j \in Jobs |-> "absent"]
        /\ attempts = [j \in Jobs |-> 0]

Insert(j) == /\ status[j] = "absent"
             /\ status' = [status EXCEPT ![j] = "pending"]
             /\ UNCHANGED attempts

Begin(j) == /\ status[j] \in {"pending", "running"}
            /\ status' = [status EXCEPT ![j] = "running"]
            /\ attempts' = [attempts EXCEPT ![j] = @ + 1]

\* Reclaiming is one statement over all stale rows, so several running jobs
\* may leave that state in one step, each to "pending" or to "dead".
Release(S, D) == /\ \A j \in S \cup D : status[j] = "running"
                 /\ status' = [j \in Jobs |->
                                IF j \in D THEN "dead"
                                ELSE IF j \in S THEN "pending" ELSE status[j]]
                 /\ UNCHANGED attempts

Settle(j) == /\ status[j] = "running"
             /\ \E s \in {"completed", "failed"} : status' = [status EXCEPT ![j] = s]
             /\ UNCHANGED attempts

Next == \/ \E j \in Jobs : Insert(j) \/ Begin(j) \/ Settle(j)
        \/ \E S, D \in SUBSET Jobs : S \cap D = {} /\ Release(S, D)

Spec == Init /\ [][Next]_vars
=============================================================================
