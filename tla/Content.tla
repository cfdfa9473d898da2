------------------------------- MODULE Content -------------------------------
(***************************************************************************)
(* Stories, points of interest, reports and audio objects on the server:   *)
(* the admin handlers that change them, the service that schedules the     *)
(* removal of audio nobody uses, the worker that removes it, and the       *)
(* moderation transaction.  A request is a goroutine of the API server or  *)
(* of the inflation worker; each of its steps is one SQL statement or one  *)
(* call to the object store, and the rows a statement or a transaction     *)
(* locks stay locked until it ends.                                        *)
(***************************************************************************)
EXTENDS Integers, Sequences, FiniteSets, TLC

CONSTANTS POIs, Stories, Reports,
          ReportOn,      \* [Reports -> Stories], the story_id column
          Keys,          \* addresses of audio objects
          Home,          \* [Stories -> Keys], s3.AudioKey of a story
          NoKey,         \* audio_url = NULL
          Requests, Cleaners,
          Free,          \* no request: the lock of an unlocked row
          BatchSize, MaxAttempts,     \* of the cleanup worker
          MaxRequests, MaxFaults      \* model bounds

ASSUME ContentAssumption ==
    /\ POIs # {} /\ ReportOn \in [Reports -> Stories] /\ Home \in [Stories -> Keys]
    /\ \A s, t \in Stories : Home[s] = Home[t] => s = t
    /\ NoKey \notin Keys /\ Free \notin Requests
    /\ IsFiniteSet(Keys)
    /\ BatchSize \in Nat \ {0} /\ MaxAttempts \in Nat \ {0}
    /\ MaxRequests \in Nat /\ MaxFaults \in Nat

VARIABLES
    pois,      \* rows of poi
    row,       \* [Stories -> {"none", "live", "gone"}]
    place,     \* [Stories -> POIs], the poi_id column
    key,       \* [Stories -> Keys \cup {NoKey}], the audio_url column
    shown,     \* [Stories -> BOOLEAN], status is not 'disabled'
    report,    \* [Reports -> ReportStates]
    lock,      \* [Stories \cup Reports \cup POIs -> Requests \cup {Free}]
    objects,   \* keys that exist in the store
    jobs,      \* orphan_cleanup_job, in id order
    req,       \* [Requests -> records], what each request is doing
    cleaner,   \* [Cleaners -> records], what each cleanup worker is doing
    \* History, for the properties only:
    held,      \* [Keys -> SUBSET Stories]: the stories that had this audio
    reused,    \* keys given to a story that had not had them, but another one had,
               \* or is named after; or given back to one that had let go of them
    mixed,     \* stories on which two requests overlapped
    lost,      \* keys whose request failed, or died, half way
    started, faults

storyVars  == <<pois, row, place, key, shown, report>>
storeVars  == <<objects, jobs, cleaner>>
ghostVars  == <<held, reused, mixed, lost>>
boundVars  == <<started, faults>>
vars == <<storyVars, lock, storeVars, req, ghostVars, boundVars>>

Open         == {"new", "reviewed"}
ReportStates == {"none", "gone", "resolved", "dismissed"} \cup Open
Rows         == Stories \cup Reports \cup POIs

Idle == [op |-> "none", at |-> "idle"]
Rest == [at |-> "idle", batch |-> {}, job |-> 0, result |-> "completed"]
Working(batch) == [at |-> "erase", batch |-> batch, job |-> 0, result |-> "completed"]

Live(s)    == row[s] = "live"
At(p)      == {s \in Stories : Live(s) /\ place[s] = p}
About(S)   == {r \in Reports : ReportOn[r] \in S /\ report[r] \notin {"none", "gone"}}
KeysOf(S)  == {key[s] : s \in S} \ {NoKey}
Locked(S)  == \E x \in S : lock[x] # Free
Busy(q)    == req[q].at # "idle"

Init ==
    /\ pois = POIs
    /\ \E S \in SUBSET Stories, p \in POIs :
         /\ row = [s \in Stories |-> IF s \in S THEN "live" ELSE "none"]
         /\ place = [s \in Stories |-> p]
         /\ key = [s \in Stories |-> IF s \in S THEN Home[s] ELSE NoKey]
         /\ held = [k \in Keys |-> {s \in S : Home[s] = k}]
         \* Audio no story has: uploaded by hand, for an admin to refer to.
         /\ objects = {Home[s] : s \in S} \cup (Keys \ {Home[s] : s \in Stories})
         /\ report \in [Reports -> {"none", "new"}]
         /\ \A r \in Reports : report[r] = "new" => ReportOn[r] \in S
    /\ shown = [s \in Stories |-> TRUE]
    /\ lock = [x \in Rows |-> Free]
    /\ jobs = <<>>
    /\ req = [q \in Requests |-> Idle]
    /\ cleaner = [w \in Cleaners |-> Rest]
    /\ reused = {} /\ mixed = {} /\ lost = {} /\ started = 0 /\ faults = 0

-----------------------------------------------------------------------------
Fault == faults < MaxFaults /\ faults' = faults + 1

Goto(q, l) == req' = [req EXCEPT ![q].at = l]
End(q)     == req' = [req EXCEPT ![q] = Idle]

\* Locks a statement or a SELECT ... FOR UPDATE takes, until Release.
Take(q, S) == lock' = [x \in Rows |-> IF x \in S THEN q ELSE lock[x]]

\* Commit or rollback: every lock of the request goes.
Release(q) == lock' = [x \in Rows |-> IF lock[x] = q THEN Free ELSE lock[x]]

\* Rows and points a request may change.
Touches(x) == CASE x.op \in {"update", "publish"} -> {x.story, x.poi}
                [] x.op = "deleteStory"           -> {x.story}
                [] x.op = "deletePOI"             -> {x.poi} \cup At(x.poi)
                [] OTHER                          -> {}

\* Stories on which x meets a request in flight.
Meets(x) == UNION {Touches(x) \cup Touches(req[q]) :
                     q \in {p \in Requests : Touches(x) \cap Touches(req[p]) # {}}}

Begin(q, x) ==
    /\ ~Busy(q) /\ started < MaxRequests /\ started' = started + 1
    /\ req' = [req EXCEPT ![q] = x]
    /\ mixed' = mixed \cup (Meets(x) \cap Stories)
    /\ UNCHANGED <<storyVars, lock, storeVars, held, reused, lost, faults>>

\* Address k is named after another story than s.
Others(s, k) == \E t \in Stories \ {s} : Home[t] = k

\* Story s has audio k from now on.
Hold(s, k) ==
    /\ held'   = [h \in Keys |-> held[h] \cup (IF h = k THEN {s} ELSE {})]
    /\ reused' = reused \cup (IF k # NoKey /\ key[s] # k /\ (held[k] # {} \/ Others(s, k))
                             THEN {k} ELSE {})

SetStory(s, p, k, active) ==
    /\ row' = [row EXCEPT ![s] = "live"] /\ place' = [place EXCEPT ![s] = p]
    /\ key' = [key EXCEPT ![s] = k]      /\ shown' = [shown EXCEPT ![s] = active]
    /\ Hold(s, k)
    /\ UNCHANGED <<pois, report>>

\* The addresses an admin can type in, or leave out.
Typed == objects \cup {NoKey}

-----------------------------------------------------------------------------
(***************************************************************************)
(* PUT /admin/stories/:id: UpdateStory of the cleanup service.             *)
(***************************************************************************)
StartUpdate(q) ==
    \E s \in Stories, p \in POIs, active \in BOOLEAN :
      \E k \in Typed \cup KeysOf({s}) :
        /\ row[s] # "none"
        /\ Begin(q, [op |-> "update", at |-> "read", story |-> s, poi |-> p,
                     key |-> k, active |-> active, got |-> {}])

\* GetByID outside of any transaction; its error is swallowed.
ReadOld(q) ==
    /\ req[q].op = "update" /\ req[q].at = "read"
    /\ LET s == req[q].story IN
         \/ /\ req' = [req EXCEPT ![q].at = "write",
                                  ![q].got = IF Live(s) THEN KeysOf({s}) ELSE {}]
            /\ UNCHANGED <<lost, faults>>
         \/ /\ Fault /\ Goto(q, "write") /\ lost' = lost \cup KeysOf({s})
    /\ UNCHANGED <<storyVars, lock, storeVars, held, reused, mixed, started>>

\* Mutants: the old key is scheduled when it stayed, or not when it was cleared.
DroppedAny(x)     == x.got
DroppedNotNull(x) == IF x.key = NoKey THEN {} ELSE x.got \ {x.key}

\* The old address, if the update took it away.
Dropped(x) == x.got \ {x.key}

\* One UPDATE of the whole row.  Its foreign key waits for a deletion of the point.
WriteStory(q) ==
    LET x == req[q] IN
    /\ x.op = "update" /\ x.at = "write"
    /\ ~Locked({x.story} \cup ({x.poi} \ {place[x.story]}))
    /\ \/ /\ Live(x.story) /\ x.poi \in pois
          /\ SetStory(x.story, x.poi, x.key, x.active)
          /\ IF Dropped(x) = {} THEN End(q)
             ELSE req' = [req EXCEPT ![q].at = "enqueue", ![q].got = Dropped(x)]
       \/ /\ ~Live(x.story) \/ x.poi \notin pois
          /\ End(q) /\ UNCHANGED <<storyVars, held, reused>>
    /\ UNCHANGED <<lock, storeVars, mixed, lost, boundVars>>

-----------------------------------------------------------------------------
(***************************************************************************)
(* DELETE /admin/stories/:id and /admin/pois/:id: collect the addresses,   *)
(* delete with all that cascades, schedule the cleanup.                    *)
(***************************************************************************)
StartDeleteStory(q) ==
    \E s \in Stories :
      /\ Live(s)
      /\ Begin(q, [op |-> "deleteStory", at |-> "collect", story |-> s, got |-> {}])

StartDeletePOI(q) ==
    \E p \in pois :
      Begin(q, [op |-> "deletePOI", at |-> "collect", poi |-> p, got |-> {}])

\* The stories a deletion is about.
Doomed(x) == IF x.op = "deletePOI" THEN At(x.poi)
             ELSE {x.story} \cap {s \in Stories : Live(s)}

\* The collector's SELECT; its error is logged and the deletion goes on.
Collect(q) ==
    /\ req[q].at = "collect"
    /\ \/ /\ req' = [req EXCEPT ![q].at = "delete", ![q].got = KeysOf(Doomed(req[q]))]
          /\ UNCHANGED <<lost, faults>>
       \/ /\ Fault /\ Goto(q, "delete") /\ lost' = lost \cup KeysOf(Doomed(req[q]))
    /\ UNCHANGED <<storyVars, lock, storeVars, held, reused, mixed, started>>

\* DELETE locks the row itself first, with the stories below a point.
LockDoomed(q) ==
    LET x == req[q]
        target == IF x.op = "deletePOI" THEN {x.poi} ELSE {}
        S == target \cup Doomed(x)
    IN
    /\ x.at = "delete" /\ ~Locked(S)
    /\ \/ /\ S # {} /\ target \subseteq pois /\ Take(q, S) /\ Goto(q, "cascade")
       \/ /\ S = {} \/ ~(target \subseteq pois)      \* no row affected: ErrNotFound
          /\ End(q) /\ UNCHANGED lock
    /\ UNCHANGED <<storyVars, storeVars, ghostVars, boundVars>>

\* Then it cascades to the reports, and commits.
Cascade(q) ==
    LET x == req[q]
        S == Doomed(x)
    IN
    /\ x.at = "cascade" /\ ~Locked(About(S))
    /\ pois' = IF x.op = "deletePOI" THEN pois \ {x.poi} ELSE pois
    /\ row' = [s \in Stories |-> IF s \in S THEN "gone" ELSE row[s]]
    /\ report' = [r \in Reports |-> IF r \in About(S) THEN "gone" ELSE report[r]]
    /\ Release(q)
    /\ IF x.got = {} THEN End(q) ELSE Goto(q, "enqueue")
    /\ UNCHANGED <<place, key, shown, storeVars, ghostVars, boundVars>>

\* Enqueue: one batch, all rows or none; its error is logged only.
Enqueue(q) ==
    /\ req[q].at = "enqueue"
    /\ \/ /\ \E order \in [1..Cardinality(req[q].got) -> req[q].got] :
               /\ \A i, j \in DOMAIN order : i # j => order[i] # order[j]
               /\ jobs' = jobs \o [i \in DOMAIN order |->
                                     [key |-> order[i], status |-> "pending", attempts |-> 0]]
          /\ UNCHANGED <<lost, faults>>
       \/ /\ Fault /\ lost' = lost \cup req[q].got /\ UNCHANGED jobs
    /\ End(q)
    /\ UNCHANGED <<storyVars, lock, objects, cleaner, held, reused, mixed, started>>

-----------------------------------------------------------------------------
(***************************************************************************)
(* The inflation worker publishes a story: insert it, upload, and write    *)
(* back the row as it was inserted, with the address.                      *)
(***************************************************************************)
StartPublish(q) ==
    \E s \in Stories, p \in POIs :
      /\ row[s] = "none" /\ \A o \in Requests : req[o].op = "publish" => req[o].story # s
      /\ Begin(q, [op |-> "publish", at |-> "insert", story |-> s, poi |-> p, got |-> {}])

Insert(q) ==
    LET x == req[q] IN
    /\ x.at = "insert" /\ ~Locked({x.poi})
    /\ \/ /\ x.poi \in pois /\ SetStory(x.story, x.poi, NoKey, TRUE) /\ Goto(q, "upload")
       \/ /\ x.poi \notin pois /\ End(q) /\ UNCHANGED <<storyVars, held, reused>>
    /\ UNCHANGED <<lock, storeVars, mixed, lost, boundVars>>

Uploaded(q) == objects \cup {Home[req[q].story]}

\* An upload whose answer is an error may have arrived; only the row is removed.
Upload(q) ==
    /\ req[q].at = "upload"
    /\ \/ objects' = Uploaded(q) /\ Goto(q, "link") /\ UNCHANGED <<lost, faults>>
       \/ /\ Fault /\ objects' \in {objects, Uploaded(q)}
          /\ Goto(q, "delete") /\ lost' = lost \cup {Home[req[q].story]}
    /\ UNCHANGED <<storyVars, lock, jobs, cleaner, held, reused, mixed, started>>

Link(q) ==
    LET x == req[q] IN
    /\ x.at = "link"
    /\ ~Locked({x.story} \cup ({x.poi} \ {place[x.story]}))
    /\ \/ /\ Live(x.story) /\ x.poi \in pois
          /\ SetStory(x.story, x.poi, Home[x.story], TRUE) /\ End(q)
          /\ UNCHANGED faults
       \/ /\ \/ (~Live(x.story) \/ x.poi \notin pois) /\ UNCHANGED faults
             \/ Fault
          /\ Goto(q, "rmobject") /\ UNCHANGED <<storyVars, held, reused>>
    /\ UNCHANGED <<lock, storeVars, mixed, lost, started>>

\* compensateFailedStory: first the object, then the row, whatever became of
\* the object.
RemoveObject(q) ==
    LET k == Home[req[q].story] IN
    /\ req[q].at = "rmobject" /\ Goto(q, "delete")
    /\ \/ objects' = objects \ {k} /\ UNCHANGED <<lost, faults>>
       \/ Fault /\ lost' = lost \cup {k} /\ UNCHANGED objects
    /\ UNCHANGED <<storyVars, lock, jobs, cleaner, held, reused, mixed, started>>

-----------------------------------------------------------------------------
(***************************************************************************)
(* POST /admin/reports/:id/disable-story: ModerateDisableStory.            *)
(***************************************************************************)
StartDisable(q) ==
    \E r \in Reports :
      /\ report[r] # "none"
      /\ Begin(q, [op |-> "disable", at |-> "report", report |-> r,
                   seen |-> report[r], again |-> TRUE])

\* Mutant: SELECT without FOR UPDATE.
JustRead(q, x) == UNCHANGED lock

\* SELECT ... FOR UPDATE
ForUpdate(q, x) == Take(q, {x})

ReadReport(q) ==
    LET r == req[q].report IN
    /\ req[q].at = "report" /\ ~Locked({r})
    /\ \/ /\ report[r] # "gone" /\ ForUpdate(q, r)
          /\ req' = [req EXCEPT ![q].at = "story", ![q].seen = report[r]]
       \/ /\ report[r] = "gone" /\ Release(q) /\ End(q)
    /\ UNCHANGED <<storyVars, storeVars, ghostVars, boundVars>>

ReadStory(q) ==
    LET s == ReportOn[req[q].report] IN
    /\ req[q].at = "story" /\ ~Locked({s})
    /\ \/ Live(s) /\ ForUpdate(q, s) /\ Goto(q, "apply")
       \/ ~Live(s) /\ Release(q) /\ End(q)
    /\ UNCHANGED <<storyVars, storeVars, ghostVars, boundVars>>

\* Disable, resolve, commit; a report that was closed is left alone.
Apply(q) ==
    LET r == req[q].report IN
    /\ req[q].at = "apply"
    /\ IF req[q].seen \in Open
       THEN /\ shown' = [shown EXCEPT ![ReportOn[r]] = FALSE]
            /\ report' = [report EXCEPT ![r] = "resolved"]
       ELSE UNCHANGED <<shown, report>>
    /\ Release(q) /\ End(q)
    /\ UNCHANGED <<pois, row, place, key, storeVars, ghostVars, boundVars>>

\* The deadlock detector aborts one of a moderation and a deletion that wait
\* for each other; RetryableTx runs the moderation once more, nobody retries
\* the deletion.
Deadlock(q) ==
    /\ \E m, d \in Requests :
         /\ req[m].op = "disable" /\ req[m].at = "story" /\ lock[ReportOn[req[m].report]] = d
         /\ req[d].at = "cascade" /\ lock[req[m].report] = m
         /\ q \in {m, d}
    /\ Release(q)
    /\ IF req[q].op = "disable" /\ req[q].again
       THEN req' = [req EXCEPT ![q].at = "report", ![q].again = FALSE]
       ELSE End(q)
    /\ UNCHANGED <<storyVars, storeVars, ghostVars, boundVars>>

-----------------------------------------------------------------------------
(***************************************************************************)
(* Handlers of a single statement.                                         *)
(***************************************************************************)
Handler == /\ started < MaxRequests /\ started' = started + 1
           /\ UNCHANGED <<lock, storeVars, req, lost, faults>>

\* POST /admin/stories
CreateStory(s) ==
    /\ row[s] = "none" /\ \A q \in Requests : req[q].op = "publish" => req[q].story # s
    /\ \E p \in pois, k \in Typed, active \in BOOLEAN :
         /\ ~Locked({p})
         /\ SetStory(s, p, k, active)
         /\ mixed' = mixed \cup (Meets([op |-> "update", story |-> s, poi |-> p]) \cap Stories)
    /\ Handler

\* POST /reports; the foreign key waits for a locked story.
CreateReport(r) ==
    /\ report[r] = "none" /\ Live(ReportOn[r]) /\ ~Locked({ReportOn[r]})
    /\ report' = [report EXCEPT ![r] = "new"]
    /\ Handler
    /\ UNCHANGED <<pois, row, place, key, shown, held, reused, mixed>>

\* PUT /admin/reports/:id: any status after any other.
UpdateReport(r) ==
    /\ report[r] \notin {"none", "gone"} /\ ~Locked({r})
    /\ \E new \in Open \cup {"resolved", "dismissed"} :
         report' = [report EXCEPT ![r] = new]
    /\ Handler
    /\ UNCHANGED <<pois, row, place, key, shown, held, reused, mixed>>

\* A statement or a call to the store fails, or the process dies: what is open
\* rolls back, and nobody takes the request up again.
Fail(q) ==
    /\ Busy(q) /\ Fault
    /\ Release(q) /\ End(q)
    /\ lost' = lost \cup (IF req[q].at = "enqueue" THEN req[q].got ELSE {})
                    \cup (IF req[q].op = "publish" THEN {Home[req[q].story]} ELSE {})
    /\ UNCHANGED <<storyVars, storeVars, held, reused, mixed, started>>

-----------------------------------------------------------------------------
(***************************************************************************)
(* The cleanup worker.                                                     *)
(***************************************************************************)
Pending(i) == jobs[i].status = "pending"

\* The pending jobs with the smallest ids.
NextBatch ==
    {i \in DOMAIN jobs :
       Pending(i) /\ Cardinality({j \in 1..i : Pending(j)}) <= BatchSize}

Claimed(i) == [jobs[i] EXCEPT !.attempts = @ + 1]

\* ClaimBatch: the jobs stay pending while they are processed, in the order
\* RETURNING happens to give.
Claim(w) ==
    /\ cleaner[w].at = "idle" /\ NextBatch # {}
    /\ jobs' = [i \in DOMAIN jobs |-> IF i \in NextBatch THEN Claimed(i) ELSE jobs[i]]
    /\ cleaner' = [cleaner EXCEPT ![w] = Working(NextBatch)]
    /\ UNCHANGED <<storyVars, lock, objects, req, ghostVars, boundVars>>

\* Mutant: every failed Delete counts as done.
AfterErrorDone(k) == {"completed"}

\* Delete failed: completed if Exists answers that the object is gone.
AfterError(k) == {"failed"} \cup (IF k \in objects' THEN {} ELSE {"completed"})

Erase(w) ==
    \E i \in cleaner[w].batch :
      LET k == jobs[i].key
          Then(result) == cleaner' = [cleaner EXCEPT ![w] =
                            [at |-> "mark", batch |-> @.batch \ {i}, job |-> i, result |-> result]]
      IN
      /\ cleaner[w].at = "erase"
      /\ \/ objects' = objects \ {k} /\ Then("completed") /\ UNCHANGED faults
         \/ /\ Fault /\ objects' \in {objects, objects \ {k}}
            /\ \E result \in AfterError(k) : Then(result)
      /\ UNCHANGED <<storyVars, lock, jobs, req, ghostVars, started>>

\* MarkCompleted or MarkFailed, by id alone; an error leaves the row as it is.
Mark(w) ==
    LET c == cleaner[w] IN
    /\ c.at = "mark"
    /\ \/ jobs' = [jobs EXCEPT ![c.job].status = c.result] /\ UNCHANGED faults
       \/ Fault /\ UNCHANGED jobs
    /\ cleaner' = [cleaner EXCEPT ![w] = IF c.batch = {} THEN Rest
                                         ELSE Working(c.batch)]
    /\ UNCHANGED <<storyVars, lock, objects, req, ghostVars, started>>

\* Mutant: one attempt fewer.
LastSpared(job) == job.status = "failed" /\ job.attempts + 1 < MaxAttempts

Reclaimable(job) == job.status = "failed" /\ job.attempts < MaxAttempts

\* ReclaimFailed, at start and every few minutes.
Reclaim(w) ==
    /\ cleaner[w].at = "idle"
    /\ \E i \in DOMAIN jobs : Reclaimable(jobs[i])
    /\ jobs' = [i \in DOMAIN jobs |-> IF Reclaimable(jobs[i])
                                      THEN [jobs[i] EXCEPT !.status = "pending"] ELSE jobs[i]]
    /\ UNCHANGED <<storyVars, lock, objects, cleaner, req, ghostVars, boundVars>>

Die(w) ==
    /\ cleaner[w].at # "idle" /\ Fault
    /\ cleaner' = [cleaner EXCEPT ![w] = Rest]
    /\ UNCHANGED <<storyVars, lock, objects, jobs, req, ghostVars, started>>

-----------------------------------------------------------------------------
Start(q) == \/ StartUpdate(q) \/ StartDeleteStory(q) \/ StartDeletePOI(q)
            \/ StartPublish(q) \/ StartDisable(q)

Step(q) == \/ ReadOld(q) \/ WriteStory(q) \/ Collect(q) \/ LockDoomed(q) \/ Cascade(q)
           \/ Enqueue(q) \/ Insert(q) \/ Upload(q) \/ Link(q) \/ RemoveObject(q)
           \/ ReadReport(q) \/ ReadStory(q) \/ Apply(q) \/ Deadlock(q)

Clean(w) == Claim(w) \/ Erase(w) \/ Mark(w) \/ Reclaim(w)

Next == \/ \E q \in Requests : Start(q) \/ Step(q) \/ Fail(q)
        \/ \E s \in Stories : CreateStory(s)
        \/ \E r \in Reports : CreateReport(r) \/ UpdateReport(r)
        \/ \E w \in Cleaners : Clean(w) \/ Die(w)

Spec == Init /\ [][Next]_vars

\* Goroutines are scheduled, statements and calls return, and the worker's
\* tickers fire.
FairSpec == /\ Spec
            /\ \A q \in Requests : WF_vars(Step(q))
            /\ \A w \in Cleaners : WF_vars(Clean(w))

-----------------------------------------------------------------------------
StoryType ==
    /\ pois \subseteq POIs /\ row \in [Stories -> {"none", "live", "gone"}]
    /\ place \in [Stories -> POIs] /\ key \in [Stories -> Keys \cup {NoKey}]
    /\ shown \in [Stories -> BOOLEAN] /\ report \in [Reports -> ReportStates]

\* A record for each kind of request.
Update      == [op : {"update"}, at : {"read", "write", "enqueue"}, story : Stories,
                poi : POIs, key : Keys \cup {NoKey}, active : BOOLEAN, got : SUBSET Keys]
DeleteStory == [op : {"deleteStory"}, at : {"collect", "delete", "cascade", "enqueue"},
                story : Stories, got : SUBSET Keys]
DeletePOI   == [op : {"deletePOI"}, at : {"collect", "delete", "cascade", "enqueue"},
                poi : POIs, got : SUBSET Keys]
Publish     == [op : {"publish"}, story : Stories, poi : POIs, got : {{}},
                at : {"insert", "upload", "link", "rmobject", "delete", "cascade"}]
Disable     == [op : {"disable"}, at : {"report", "story", "apply"}, report : Reports,
                seen : ReportStates, again : BOOLEAN]

RequestType ==
    req \in [Requests -> {Idle} \cup Update \cup DeleteStory \cup DeletePOI
                           \cup Publish \cup Disable]

\* Only a request in a transaction holds a lock.
LockType ==
    /\ lock \in [Rows -> Requests \cup {Free}]
    /\ \A x \in Rows : lock[x] # Free => req[lock[x]].at \in {"story", "apply", "cascade"}

Job == [key : Keys, status : {"pending", "completed", "failed"}, attempts : Nat]

\* The jobs have no status that the table's CHECK constraint refuses.
StoreType ==
    /\ objects \subseteq Keys /\ jobs \in Seq(Job)
    /\ cleaner \in [Cleaners -> [at : {"idle", "erase", "mark"}, batch : SUBSET DOMAIN jobs,
                                 job : {0} \cup DOMAIN jobs, result : {"completed", "failed"}]]

\* Every variable has its type, every request the fields of its kind, and every
\* cleanup worker jobs that exist.
TypeOK == StoryType /\ RequestType /\ LockType /\ StoreType

\* The audio of a live story exists, whatever was deleted, replaced or cleaned
\* up, as long as no address is given to a second story (one that is only being
\* published counts), or given back to a story that had lost it, and no two
\* requests work on one story.
LiveAudioKept ==
    \A s \in Stories : Live(s) /\ key[s] # NoKey =>
      key[s] \in objects \cup reused \cup lost \/ s \in mixed

\* Audio that a story had and no story has any more is removed, or there is a
\* job, or a request about to write one, that will see to it, unless a request
\* that knew of it failed half way or met another one.
OrphansQueued ==
    \A k \in objects :
      \/ held[k] = {} \/ held[k] \cap mixed # {} \/ k \in reused \cup lost
      \/ \E s \in Stories : Live(s) /\ key[s] = k
      \/ \E q \in Requests : Busy(q) /\ req[q].op # "disable" /\ k \in req[q].got
      \/ \E i \in DOMAIN jobs : jobs[i].key = k /\ jobs[i].status # "completed"

\* A job is marked completed only when its object is gone from the store,
\* though several workers may hold one job and their calls may fail.
CompletedMeansGone ==
    \A i \in DOMAIN jobs : jobs[i].status = "completed" => jobs[i].key \notin objects

\* A moderation changes anything only when the report is still open and its
\* story still there at that moment, and it always does both of its changes.
ModerationSound ==
    [][\A q \in Requests :
         LET r == req[q].report IN
         req[q].at = "apply" /\ ~Busy(q)' /\ <<shown, report>>' # <<shown, report>> =>
           /\ report[r] \in Open /\ Live(ReportOn[r])
           /\ report'[r] = "resolved" /\ ~shown'[ReportOn[r]]]_vars

JobSettled(i) == \/ jobs[i].status = "completed"
                 \/ jobs[i].status = "failed" /\ jobs[i].attempts >= MaxAttempts

\* No job stays in the table unsettled: it is completed, or has used up its
\* attempts.  And no request waits for ever: not for the rows another one has
\* locked, and not in the deadlock of a moderation with a deletion of what it
\* moderates.  Neither the locks nor the workers leave anything undone.
AllComesToEnd == []<>(/\ \A i \in DOMAIN jobs : JobSettled(i)
                      /\ \A q \in Requests : ~Busy(q))
=============================================================================
