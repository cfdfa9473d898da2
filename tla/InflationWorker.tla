--------------------------- MODULE InflationWorker ---------------------------
(***************************************************************************)
(* The inflation queue: admin requests that insert jobs, worker processes  *)
(* that claim them under a lease, run them step by step against the        *)
(* database, the generators and the object store, and the reclaim pass     *)
(* that returns the jobs of crashed workers.                               *)
(*                                                                         *)
(* Time is relative: `age' is the time since a job's heartbeat_at, and     *)
(* `elapsed' the time since a worker's job context was created.  Both stop *)
(* counting where no guard can tell a larger value, so no clock is capped. *)
(***************************************************************************)
EXTENDS Integers, Sequences, FiniteSets

CONSTANTS Jobs,           \* rows of inflation_job, one per inflate request
          POIs,           \* points of interest
          POIOf,          \* [Jobs -> POIs], the poi_id column
          Workers,        \* worker processes
          NoWorker,       \* worker_id = NULL
          JobTimeout,     \* deadline of a job's context
          LeaseWindow,    \* a heartbeat older than this is stale
          MaxAttempts,    \* attempts after which a stale job is dead
          BatchSize,      \* jobs claimed per poll
          MaxSegments,    \* maxSegmentsPerPOI
          MaxSkew,        \* largest difference between two workers' clocks
          MaxFaults       \* model bound: crashes, missed deadlines, failed calls

ASSUME IntervalAssumption ==
    /\ JobTimeout \in Nat \ {0} /\ MaxSkew \in Nat
    /\ LeaseWindow \in Nat /\ LeaseWindow >= 3     \* a heartbeat interval of at least 1
ASSUME CounterAssumption ==
    /\ MaxAttempts \in Nat \ {0} /\ BatchSize \in Nat \ {0}
    /\ MaxSegments \in Nat \ {0} /\ MaxFaults \in Nat
ASSUME ActorAssumption ==
    Jobs # {} /\ POIOf \in [Jobs -> POIs] /\ NoWorker \notin Workers
\* With the defaults the deadline (60s) is well inside the lease (5min); the
\* difference has to absorb the skew between the clocks of two worker hosts.
ASSUME LeaseAssumption == JobTimeout + MaxSkew <= LeaseWindow

VARIABLES
    request,   \* [Jobs -> {"new", "checked", "answered"}]: the inflate request
    created,   \* sequence of jobs in created_at order
    status,    \* [Jobs -> Statuses]
    attempts,  \* [Jobs -> Nat]
    owner,     \* [Jobs -> Workers \cup {NoWorker}], the worker_id column
    age,       \* [Jobs -> Int], time since heartbeat_at (0 while it is NULL)
    skew,      \* [Workers -> 0..MaxSkew], how far each clock is ahead
    pc,        \* [Workers -> Labels], where each worker is
    current,   \* [Workers -> Jobs], the job of a busy worker
    try,       \* [Workers -> Nat], the attempt it is making
    elapsed,   \* [Workers -> 0..JobTimeout], time since its job context began
    claims,    \* [Workers -> 0..BatchSize], claims left in this poll
    rows,      \* story rows: the story that attempt a of job j creates is <<j, a>>
    linked,    \* story rows whose audio_url is set
    objects,   \* audio objects in the store
    disturbed, \* stories whose attempt crashed, missed its deadline, lost an
               \* answer or failed again while compensating
    faults     \* faults so far

jobVars    == <<status, attempts, owner, age>>
workerVars == <<pc, current, try, elapsed, claims>>
storyVars  == <<rows, linked, objects>>
vars == <<request, created, jobVars, skew, workerVars, storyVars, disturbed, faults>>

Settled  == {"completed", "failed", "dead"}
Statuses == {"absent", "pending", "running"} \cup Settled

\* Positions inside processJob; each is the call that is made next.
Processing == {"count", "generate", "create", "upload", "update", "complete",
               "rmobject", "rmstory", "fail"}
Labels == {"down", "start", "idle", "poll"} \cup Processing

Busy(w)     == pc[w] \in Processing
Story(w)    == <<current[w], try[w]>>
HeartbeatInterval == LeaseWindow \div 3

\* The job's context: every call made with it fails once the deadline passed.
Expired(w) == elapsed[w] >= JobTimeout

\* Mutant: stale after one heartbeat interval.
StaleEarly(j, w) == status[j] = "running" /\ age[j] + skew[w] > HeartbeatInterval

\* heartbeat_at < now - lease, with `now' read from worker w's clock.
Stale(j, w) == status[j] = "running" /\ age[j] + skew[w] > LeaseWindow

JobsAt(p)   == {j \in Jobs : POIOf[j] = p}
\* Mutant: only completed jobs count.
ActiveCompleted(p) == {j \in JobsAt(p) : status[j] = "completed"}
ActiveAt(p) == {j \in JobsAt(p) : status[j] \in {"pending", "running", "completed"}}

NoJob == CHOOSE j \in Jobs : TRUE       \* what an idle worker's `current' holds

Init ==
    /\ request = [j \in Jobs |-> "new"] /\ created = <<>>
    /\ status = [j \in Jobs |-> "absent"] /\ attempts = [j \in Jobs |-> 0]
    /\ owner = [j \in Jobs |-> NoWorker]  /\ age = [j \in Jobs |-> 0]
    /\ skew \in [Workers -> 0..MaxSkew]
    /\ pc = [w \in Workers |-> "down"] /\ current = [w \in Workers |-> NoJob]
    /\ try = [w \in Workers |-> 0]     /\ elapsed = [w \in Workers |-> 0]
    /\ claims = [w \in Workers |-> 0]
    /\ rows = {} /\ linked = {} /\ objects = {}
    /\ disturbed = {} /\ faults = 0

-----------------------------------------------------------------------------
(***************************************************************************)
(* Admin requests: count, then insert, in two statements.                  *)
(***************************************************************************)
CheckRequest(j) ==
    /\ request[j] = "new"
    /\ request' = [request EXCEPT ![j] =
                     IF Cardinality(ActiveAt(POIOf[j])) >= MaxSegments
                     THEN "answered" ELSE "checked"]
    /\ UNCHANGED <<created, jobVars, skew, workerVars, storyVars, disturbed, faults>>

CreateJob(j) ==
    /\ request[j] = "checked"
    /\ request' = [request EXCEPT ![j] = "answered"]
    /\ created' = Append(created, j)
    /\ status' = [status EXCEPT ![j] = "pending"]
    /\ UNCHANGED <<attempts, owner, age, skew, workerVars, storyVars, disturbed, faults>>

-----------------------------------------------------------------------------
(***************************************************************************)
(* Worker process: start, poll, claim, reclaim.                            *)
(***************************************************************************)
Fault == faults < MaxFaults /\ faults' = faults + 1

Goto(w, l) == pc' = [pc EXCEPT ![w] = l]

\* processJob returned: back in the loop of pollAndProcess.
Forget(w) == /\ current' = [current EXCEPT ![w] = NoJob]
             /\ try' = [try EXCEPT ![w] = 0]
             /\ elapsed' = [elapsed EXCEPT ![w] = 0]

StartWorker(w) ==
    /\ pc[w] = "down"
    /\ Goto(w, "start")
    /\ UNCHANGED <<request, created, jobVars, skew, current, try,
                   elapsed, claims, storyVars, faults, disturbed>>

\* The process dies, or is stopped before its job ended.
Crash(w) ==
    /\ pc[w] # "down"
    /\ Fault
    /\ Goto(w, "down") /\ Forget(w)
    /\ claims' = [claims EXCEPT ![w] = 0]
    /\ disturbed' = disturbed \cup (IF Busy(w) THEN {Story(w)} ELSE {})
    /\ UNCHANGED <<request, created, jobVars, skew, storyVars>>

\* Poll ticker, or the first poll right after the reclaim pass at start.
Poll(w) ==
    /\ pc[w] = "idle"
    /\ Goto(w, "poll")
    /\ claims' = [claims EXCEPT ![w] = BatchSize]
    /\ UNCHANGED <<request, created, jobVars, skew, current, try,
                   elapsed, storyVars, faults, disturbed>>

EndPoll(w) ==
    /\ Goto(w, "idle")
    /\ claims' = [claims EXCEPT ![w] = 0]
    /\ UNCHANGED <<request, created, jobVars, skew, current, try,
                   elapsed, storyVars, disturbed>>

\* Mutants: failed jobs are retried; the last attempt is never made.
ClaimableFailed(w) == {j \in Jobs : status[j] \in {"pending", "failed"} \/ Stale(j, w)}
ClaimableButLast(w) == {j \in Jobs : \/ status[j] = "pending" /\ attempts[j] + 1 < MaxAttempts
                                     \/ Stale(j, w)}

Claimable(w) == {j \in Jobs : status[j] = "pending" \/ Stale(j, w)}

\* Pending rows before stale ones, then by created_at.
ClaimedFirst(j, w) ==
    LET place(x) == CHOOSE i \in DOMAIN created : created[i] = x
        before(x, y) == \/ status[x] = "pending" /\ status[y] # "pending"
                        \/ (status[x] = "pending") = (status[y] = "pending")
                           /\ place(x) <= place(y)
    IN  j \in Claimable(w) /\ \A x \in Claimable(w) : before(j, x)

\* The UPDATE of ClaimNextJob; the answer may be lost after the commit.
ClaimNextJob(w, j) ==
    /\ pc[w] = "poll" /\ claims[w] > 0
    /\ ClaimedFirst(j, w)
    /\ status' = [status EXCEPT ![j] = "running"]
    /\ attempts' = [attempts EXCEPT ![j] = @ + 1]
    /\ owner' = [owner EXCEPT ![j] = w]
    /\ age' = [age EXCEPT ![j] = -skew[w]]
    /\ \/ /\ Goto(w, "count")
          /\ current' = [current EXCEPT ![w] = j]
          /\ try' = [try EXCEPT ![w] = attempts[j] + 1]
          /\ elapsed' = [elapsed EXCEPT ![w] = 0]
          /\ claims' = [claims EXCEPT ![w] = @ - 1]
          /\ UNCHANGED faults
       \/ /\ Fault
          /\ Goto(w, "idle") /\ claims' = [claims EXCEPT ![w] = 0]
          /\ UNCHANGED <<current, try, elapsed>>
    /\ UNCHANGED <<request, created, skew, storyVars, disturbed>>

\* The batch is used up, nothing is claimable, or the claim failed.
LeavePoll(w) ==
    /\ pc[w] = "poll"
    /\ \/ (claims[w] = 0 \/ Claimable(w) = {}) /\ UNCHANGED faults
       \/ claims[w] > 0 /\ Fault
    /\ EndPoll(w)

StaleFor(w) == {j \in Jobs : Stale(j, w)}
SpentFor(w) == {j \in StaleFor(w) : attempts[j] >= MaxAttempts}

Reset(dead, pending) ==
    /\ status' = [j \in Jobs |-> IF j \in dead THEN "dead"
                                ELSE IF j \in pending THEN "pending" ELSE status[j]]
    /\ age' = [j \in Jobs |-> IF j \in dead \cup pending THEN 0 ELSE age[j]]
    /\ owner' = [j \in Jobs |-> IF j \in pending THEN NoWorker ELSE owner[j]]

\* ReclaimStaleJobs: one statement for the dead, one for the rest; the second
\* may fail after the first took effect, or both may fail.
ReclaimStaleJobs(w) ==
    /\ pc[w] \in {"start", "idle"}
    /\ \/ Reset(SpentFor(w), StaleFor(w) \ SpentFor(w)) /\ UNCHANGED faults
       \/ Reset(SpentFor(w), {}) /\ StaleFor(w) # {} /\ Fault
       \/ Reset({}, {}) /\ StaleFor(w) # {} /\ Fault
    /\ IF pc[w] = "start"
       THEN Goto(w, "poll") /\ claims' = [claims EXCEPT ![w] = BatchSize]
       ELSE UNCHANGED <<pc, claims>>
    /\ UNCHANGED <<request, created, attempts, skew, current, try,
                   elapsed, storyVars, disturbed>>

-----------------------------------------------------------------------------
(***************************************************************************)
(* processJob, one call at a time.  A call succeeds, or it takes effect    *)
(* and its answer is lost, or it fails without effect.                     *)
(***************************************************************************)
\* Mutant: a failed update is ignored.
OnErrorIgnoresUpdate == [l \in Processing |->
              CASE l \in {"count", "generate", "create", "rmstory"} -> "fail"
                [] l \in {"upload", "rmobject"} -> "rmstory"
                [] l = "update"                 -> "complete"
                [] OTHER                        -> "poll"]

OnError == [l \in Processing |->
              CASE l \in {"count", "generate", "create"} -> "fail"
                [] l = "upload"                          -> "rmstory"
                [] l = "update"                          -> "rmobject"
                [] l = "rmobject"                        -> "rmstory"
                [] l = "rmstory"                         -> "fail"
                [] OTHER                                 -> "poll"]

Continue(w, l) == Goto(w, l) /\ IF l = "poll" THEN Forget(w)
                                 ELSE UNCHANGED <<current, try, elapsed>>

At(w, l) == pc[w] = l /\ ~Expired(w)

\* After the effect: the next call on success, the error path if the answer
\* is lost.
Answer(w, next) == \/ Continue(w, next) /\ UNCHANGED <<faults, disturbed>>
                   \/ /\ Continue(w, OnError[pc[w]]) /\ Fault
                      /\ disturbed' = disturbed \cup {Story(w)}

\* Fails without effect: at no cost once the context has expired.
CallFails(w) ==
    /\ Busy(w)
    /\ IF Expired(w) THEN UNCHANGED faults ELSE Fault
    /\ Continue(w, OnError[pc[w]])
    /\ disturbed' = IF Expired(w) \/ pc[w] \in {"rmobject", "rmstory"}
                    THEN disturbed \cup {Story(w)} ELSE disturbed
    /\ UNCHANGED <<request, created, jobVars, skew, claims, storyVars>>

CheckLimit(w) ==
    /\ At(w, "count")
    /\ IF Cardinality(ActiveAt(POIOf[current[w]])) >= MaxSegments
       THEN Goto(w, "fail") ELSE Goto(w, "generate")
    /\ UNCHANGED <<request, created, jobVars, skew, current, try, elapsed,
                   claims, storyVars, faults, disturbed>>

\* GetByID, GenerateStory, GenerateAudio, CountByPOI: they only read.
Generate(w) ==
    /\ At(w, "generate")
    /\ Goto(w, "create")
    /\ UNCHANGED <<request, created, jobVars, skew, current, try,
                   elapsed, claims, storyVars, faults, disturbed>>

CreateStory(w) ==
    /\ At(w, "create")
    /\ rows' = rows \cup {Story(w)}
    /\ Answer(w, "upload")
    /\ UNCHANGED <<request, created, jobVars, skew, claims, linked, objects>>

UploadAudio(w) ==
    /\ At(w, "upload")
    /\ objects' = objects \cup {Story(w)}
    /\ Answer(w, "update")
    /\ UNCHANGED <<request, created, jobVars, skew, claims, rows, linked>>

UpdateStory(w) ==
    /\ At(w, "update")
    /\ linked' = linked \cup {Story(w)}
    /\ Answer(w, "complete")
    /\ UNCHANGED <<request, created, jobVars, skew, claims, rows, objects>>

\* SetCompleted has no guard on status or worker_id; the same for SetFailed.
SetCompleted(w) ==
    /\ At(w, "complete")
    /\ status' = [status EXCEPT ![current[w]] = "completed"]
    /\ age' = [age EXCEPT ![current[w]] = 0]
    /\ Continue(w, "poll")
    /\ UNCHANGED <<request, created, attempts, owner, skew, claims,
                   storyVars, faults, disturbed>>

RemoveObject(w) ==
    /\ At(w, "rmobject")
    /\ objects' = objects \ {Story(w)}
    /\ Continue(w, "rmstory")
    /\ UNCHANGED <<request, created, jobVars, skew, claims, rows, linked, faults, disturbed>>

RemoveStory(w) ==
    /\ At(w, "rmstory")
    /\ rows' = rows \ {Story(w)} /\ linked' = linked \ {Story(w)}
    /\ Continue(w, "fail")
    /\ UNCHANGED <<request, created, jobVars, skew, claims, objects, faults, disturbed>>

SetFailed(w) ==
    /\ At(w, "fail")
    /\ status' = [status EXCEPT ![current[w]] = "failed"]
    /\ age' = [age EXCEPT ![current[w]] = 0]
    /\ Continue(w, "poll")
    /\ UNCHANGED <<request, created, attempts, owner, skew, claims,
                   storyVars, faults, disturbed>>

-----------------------------------------------------------------------------
\* heartbeatLoop: a ticker that lives as long as the job's context; the update
\* only touches a running row.  A tick may be late or its update may fail.
Heartbeat(w) ==
    /\ Busy(w) /\ ~Expired(w)
    /\ elapsed[w] > 0 /\ elapsed[w] % HeartbeatInterval = 0
    /\ status[current[w]] = "running"
    /\ age' = [age EXCEPT ![current[w]] = -skew[w]]
    /\ UNCHANGED <<request, created, status, attempts, owner, skew,
                   workerVars, storyVars, faults, disturbed>>

\* One unit of time.  Missing a deadline uses up a fault.
Tick ==
    /\ LET late == \E w \in Workers : Busy(w) /\ elapsed[w] = JobTimeout - 1
       IN  IF late THEN Fault ELSE UNCHANGED faults
    /\ elapsed' = [w \in Workers |->
                     IF Busy(w) /\ ~Expired(w) THEN elapsed[w] + 1 ELSE elapsed[w]]
    /\ age' = [j \in Jobs |->
                 IF status[j] = "running" /\ age[j] <= LeaseWindow
                 THEN age[j] + 1 ELSE age[j]]
    /\ UNCHANGED <<request, created, status, attempts, owner, skew,
                   pc, current, try, claims, storyVars, disturbed>>

Work(w) == \/ StartWorker(w) \/ Poll(w) \/ LeavePoll(w)
           \/ \E j \in Jobs : ClaimNextJob(w, j)
           \/ ReclaimStaleJobs(w)
           \/ CallFails(w) \/ CheckLimit(w) \/ Generate(w) \/ CreateStory(w)
           \/ UploadAudio(w) \/ UpdateStory(w) \/ SetCompleted(w)
           \/ RemoveObject(w) \/ RemoveStory(w) \/ SetFailed(w)

Next == \/ \E j \in Jobs : CheckRequest(j) \/ CreateJob(j)
        \/ \E w \in Workers : Work(w) \/ Crash(w) \/ Heartbeat(w)
        \/ Tick

Spec == Init /\ [][Next]_vars

\* A process supervisor restarts a worker, the goroutine of a live worker is
\* scheduled, its tickers fire, and time passes.
FairSpec == /\ Spec /\ WF_vars(Tick)
            /\ \A w \in Workers : WF_vars(Work(w))

-----------------------------------------------------------------------------
JobType    == /\ status \in [Jobs -> Statuses] /\ attempts \in [Jobs -> Nat]
              /\ owner \in [Jobs -> Workers \cup {NoWorker}]
              /\ age \in [Jobs -> (-MaxSkew)..(LeaseWindow + 1)]
WorkerType == /\ pc \in [Workers -> Labels] /\ current \in [Workers -> Jobs]
              /\ try \in [Workers -> Nat] /\ elapsed \in [Workers -> 0..JobTimeout]
StoryType  == /\ rows \subseteq Jobs \X Nat /\ linked \subseteq Jobs \X Nat
              /\ objects \subseteq Jobs \X Nat /\ disturbed \subseteq Jobs \X Nat

TypeOK ==
    /\ request \in [Jobs -> {"new", "checked", "answered"}]
    /\ created \in Seq(Jobs)
    /\ skew \in [Workers -> 0..MaxSkew] /\ claims \in [Workers -> 0..BatchSize]
    /\ faults \in 0..MaxFaults
    /\ JobType /\ WorkerType /\ StoryType

InTime(w) == Busy(w) /\ ~Expired(w)

\* While a worker's job context lives, the row it works on is running, still
\* carries its worker_id and its attempt, and is stale to nobody.
LeaseHeld ==
    \A w \in Workers : InTime(w) =>
        /\ status[current[w]] = "running" /\ owner[current[w]] = w
        /\ try[w] = attempts[current[w]]
        /\ age[current[w]] <= elapsed[w] - skew[w]

\* A request that was not answered has no row yet.
RequestFirst == \A j \in Jobs : request[j] # "answered" => status[j] = "absent"

\* No two workers whose job contexts are alive process the same job, though
\* nothing in SetCompleted, SetFailed or UpdateHeartbeat checks the owner.
LeaseExclusive ==
    \A v, w \in Workers : v # w /\ InTime(v) /\ InTime(w) => current[v] # current[w]

\* The deadline, the heartbeat and the claim keep every job with one worker: the two
\* properties above, over well-typed states.
LeaseSafe == TypeOK /\ LeaseHeld /\ LeaseExclusive

\* A completed job left a story whose audio_url points to an uploaded object,
\* whatever failed, crashed or was retried on the way.
CompletedHasAudio ==
    \A j \in Jobs : status[j] = "completed" =>
        \E a \in 1..attempts[j] : <<j, a>> \in rows \cap linked \cap objects

\* An attempt whose only failure was one clean call error leaves neither a
\* story without audio nor an object without a story.
CompensationComplete ==
    \A s \in (rows \ linked) \cup (objects \ rows) :
        s \in disturbed \/ \E w \in Workers : Busy(w) /\ Story(w) = s

\* Whatever way a job ends, its story is whole or gone: both of the above.
StoriesWhole == CompletedHasAudio /\ CompensationComplete

\* A point never gets MaxSegments completed jobs, let alone more, although
\* requests check and insert in two steps and workers check concurrently: a
\* job that passed the check counted itself among the active ones.
SegmentCap ==
    \A p \in POIs :
        Cardinality({j \in JobsAt(p) : status[j] = "completed"}) < MaxSegments

\* The queue implements the life cycle its repository documents: only a
\* running job settles, settled jobs never change, attempts only count claims.
Lifecycle == INSTANCE JobLifecycle
               WITH Jobs <- Jobs, status <- status, attempts <- attempts
LifecycleSpec == Lifecycle!Spec

\* Once faults stop, every job that was inserted settles: a crashed worker's
\* job is claimed again or reclaimed.
EveryJobSettles ==
    []<>(\A j \in Jobs : status[j] \notin {"pending", "running"})

\* ReclaimStaleJobs: a job that was attempted MaxAttempts times is not
\* attempted again but moved to "dead".
AttemptsBounded == \A j \in Jobs : attempts[j] <= MaxAttempts
=============================================================================
