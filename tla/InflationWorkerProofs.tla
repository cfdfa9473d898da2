------------------------ MODULE InflationWorkerProofs ------------------------
(***************************************************************************)
(* Theorems about InflationWorker for any jobs, points, workers, deadlines *)
(* and leases that satisfy the module's assumptions.                       *)
(*                                                                         *)
(* The argument is the lease: as long as the context of a job is alive,    *)
(* less than JobTimeout has passed since the claim wrote heartbeat_at, so  *)
(* with JobTimeout + MaxSkew <= LeaseWindow no clock finds the row stale,  *)
(* nobody claims or reclaims it, and the unguarded updates of SetCompleted *)
(* and SetFailed meet the row they were written for.                       *)
(***************************************************************************)
EXTENDS InflationWorker, FiniteSetTheorems, TLAPS

\* A worker's positions, and the errors of processJob, stay inside their sets.
LEMMA OnErrorType == \A l \in Processing : OnError[l] \in Labels
BY DEF OnError, Processing, Labels

\* The job an idle worker's `current' holds is a job.
LEMMA NoJobType == NoJob \in Jobs
BY ActorAssumption DEF NoJob

\* The state a returning worker is left in is well typed.
LEMMA ContinueType ==
  ASSUME WorkerType, NEW w \in Workers, NEW l \in Labels, Continue(w, l)
  PROVE  WorkerType'
<1>1. CASE l = "poll"
  BY <1>1, NoJobType, IntervalAssumption DEF WorkerType, Continue, Goto, Forget
<1>2. CASE l # "poll"
  BY <1>2 DEF WorkerType, Continue, Goto
<1>3. QED
  BY <1>1, <1>2

\* Likewise for the two outcomes of a call whose answer may be lost.
LEMMA AnswerType ==
  ASSUME TypeOK, NEW w \in Workers, NEW l \in Labels, Busy(w), Answer(w, l)
  PROVE  /\ WorkerType' /\ faults' \in 0..MaxFaults /\ disturbed' \subseteq Jobs \X Nat
<1>1. CASE Continue(w, l) /\ UNCHANGED <<faults, disturbed>>
  BY <1>1, ContinueType DEF TypeOK, StoryType
<1>2. CASE Continue(w, OnError[pc[w]]) /\ Fault /\ disturbed' = disturbed \cup {Story(w)}
  <2>1. OnError[pc[w]] \in Labels
    BY OnErrorType DEF Busy
  <2>2. Story(w) \in Jobs \X Nat
    BY DEF TypeOK, WorkerType, Story
  <2>3. faults' \in 0..MaxFaults
    BY <1>2, CounterAssumption DEF TypeOK, Fault
  <2>4. QED
    BY <1>2, <2>1, <2>2, <2>3, ContinueType DEF TypeOK, StoryType
<1>3. QED
  BY <1>1, <1>2 DEF Answer

-----------------------------------------------------------------------------
(***************************************************************************)
(* Type correctness, by group of variables.                                *)
(***************************************************************************)
\* Initially every variable has its type.
LEMMA TypeInit == Init => TypeOK
<1> SUFFICES ASSUME Init PROVE TypeOK
  OBVIOUS
<1>1. JobType
  BY IntervalAssumption DEF Init, JobType, Statuses
<1>2. WorkerType
  BY NoJobType, IntervalAssumption DEF Init, WorkerType, Labels
<1>3. StoryType
  BY DEF Init, StoryType
<1>4. QED
  BY <1>1, <1>2, <1>3, CounterAssumption DEF Init, TypeOK

\* Steps of the admin requests.
LEMMA TypeRequest ==
  ASSUME TypeOK, NEW j \in Jobs, CheckRequest(j) \/ CreateJob(j)
  PROVE  TypeOK'
<1>1. JobType'
  <2>1. CASE CheckRequest(j)
    BY <2>1 DEF TypeOK, JobType, CheckRequest, jobVars
  <2>2. CASE CreateJob(j)
    BY <2>2 DEF TypeOK, JobType, CreateJob, Statuses
  <2>3. QED
    BY <2>1, <2>2
<1>2. WorkerType' /\ StoryType'
  BY DEF TypeOK, WorkerType, StoryType, CheckRequest, CreateJob, workerVars, storyVars
<1>3. request' \in [Jobs -> {"new", "checked", "answered"}] /\ created' \in Seq(Jobs)
  <2>1. CASE CheckRequest(j)
    BY <2>1 DEF TypeOK, CheckRequest
  <2>2. CASE CreateJob(j)
    <3>1. created' \in Seq(Jobs)
      BY <2>2 DEF TypeOK, CreateJob
    <3>2. request' \in [Jobs -> {"new", "checked", "answered"}]
      BY <2>2 DEF TypeOK, CreateJob
    <3>3. QED
      BY <3>1, <3>2
  <2>3. QED
    BY <2>1, <2>2
<1>4. QED
  BY <1>1, <1>2, <1>3 DEF TypeOK, CheckRequest, CreateJob, workerVars

\* Steps of the process and of its loop that leave the queue alone.
LEMMA TypeLoop ==
  ASSUME TypeOK, NEW w \in Workers,
         StartWorker(w) \/ Crash(w) \/ Poll(w) \/ LeavePoll(w)
  PROVE  TypeOK'
<1>1. JobType'
  BY DEF TypeOK, JobType, StartWorker, Crash, Poll, LeavePoll, EndPoll, jobVars
<1>2. WorkerType'
  <2>1. CASE Crash(w)
    BY <2>1, NoJobType, IntervalAssumption
       DEF TypeOK, WorkerType, Crash, Goto, Forget, Labels
  <2>2. CASE StartWorker(w) \/ Poll(w) \/ LeavePoll(w)
    BY <2>2 DEF TypeOK, WorkerType, StartWorker, Poll, LeavePoll, EndPoll, Goto, Labels
  <2>3. QED
    BY <2>1, <2>2
<1>3. StoryType'
  <2>1. Story(w) \in Jobs \X Nat
    BY DEF TypeOK, WorkerType, Story
  <2>2. QED
    BY <2>1 DEF TypeOK, StoryType, StartWorker, Crash, Poll, LeavePoll, EndPoll, storyVars
<1>4. faults' \in 0..MaxFaults
  BY CounterAssumption DEF TypeOK, StartWorker, Crash, Poll, LeavePoll, EndPoll, Fault
<1>5. claims' \in [Workers -> 0..BatchSize]
  BY CounterAssumption DEF TypeOK, StartWorker, Crash, Poll, LeavePoll, EndPoll
<1>6. QED
  BY <1>1, <1>2, <1>3, <1>4, <1>5
     DEF TypeOK, StartWorker, Crash, Poll, LeavePoll, EndPoll

\* ClaimNextJob keeps the types: one more attempt, a fresh heartbeat.
LEMMA TypeClaim ==
  ASSUME TypeOK, NEW w \in Workers, NEW j \in Jobs, ClaimNextJob(w, j)
  PROVE  TypeOK'
<1>1. skew[w] \in 0..MaxSkew
  BY DEF TypeOK
<1>2. -skew[w] \in (-MaxSkew)..(LeaseWindow + 1)
  BY <1>1, IntervalAssumption
<1>3. JobType'
  BY <1>2 DEF TypeOK, JobType, ClaimNextJob, Statuses
<1>4. WorkerType'
  <2>1. attempts[j] + 1 \in Nat /\ 0 \in 0..JobTimeout
    BY IntervalAssumption DEF TypeOK, JobType
  <2>2. \A l \in {"count", "idle"} : Goto(w, l) => pc' \in [Workers -> Labels]
    BY DEF TypeOK, WorkerType, Goto, Labels, Processing
  <2>3. pc' \in [Workers -> Labels]
    BY <2>2 DEF ClaimNextJob
  <2>4. current' \in [Workers -> Jobs] /\ elapsed' \in [Workers -> 0..JobTimeout]
    <3>1. current' \in [Workers -> Jobs]
      BY DEF TypeOK, WorkerType, ClaimNextJob
    <3>2. elapsed' \in [Workers -> 0..JobTimeout]
      BY <2>1 DEF TypeOK, WorkerType, ClaimNextJob
    <3> QED
      BY <3>1, <3>2
  <2>5. try' \in [Workers -> Nat]
    BY <2>1 DEF TypeOK, WorkerType, ClaimNextJob
  <2>6. QED
    BY <2>3, <2>4, <2>5 DEF WorkerType
<1>5. claims' \in [Workers -> 0..BatchSize]
  BY CounterAssumption DEF TypeOK, ClaimNextJob
<1>6. faults' \in 0..MaxFaults
  BY CounterAssumption DEF TypeOK, ClaimNextJob, Fault
<1>7. StoryType'
  BY DEF TypeOK, StoryType, ClaimNextJob, storyVars
<1>8. QED
  BY <1>3, <1>4, <1>5, <1>6, <1>7 DEF TypeOK, ClaimNextJob

\* Reset leaves the columns it writes well typed.
LEMMA ResetType ==
  ASSUME JobType, NEW dead, NEW pending, Reset(dead, pending), UNCHANGED attempts
  PROVE  JobType'
<1>1. status' \in [Jobs -> Statuses]
  BY DEF JobType, Reset, Statuses, Settled
<1>2. age' \in [Jobs -> (-MaxSkew)..(LeaseWindow + 1)]
  BY IntervalAssumption DEF JobType, Reset
<1>3. owner' \in [Jobs -> Workers \cup {NoWorker}]
  BY DEF JobType, Reset
<1>4. QED
  BY <1>1, <1>2, <1>3 DEF JobType

\* ReclaimStaleJobs keeps the types.
LEMMA TypeReclaim ==
  ASSUME TypeOK, NEW w \in Workers, ReclaimStaleJobs(w)
  PROVE  TypeOK'
<1>1. JobType'
  BY ResetType DEF TypeOK, ReclaimStaleJobs
<1>2. WorkerType' /\ claims' \in [Workers -> 0..BatchSize]
  <2>1. CASE pc[w] = "start"
    <3>1. pc' = [pc EXCEPT ![w] = "poll"] /\ UNCHANGED <<current, try, elapsed>>
      BY <2>1 DEF ReclaimStaleJobs, Goto
    <3>2. WorkerType'
      BY <3>1 DEF TypeOK, WorkerType, Labels
    <3>3. claims' = [claims EXCEPT ![w] = BatchSize]
      BY <2>1 DEF ReclaimStaleJobs
    <3>4. claims' \in [Workers -> 0..BatchSize]
      BY <3>3, CounterAssumption DEF TypeOK
    <3>5. QED
      BY <3>2, <3>4
  <2>2. CASE pc[w] # "start"
    BY <2>2 DEF TypeOK, WorkerType, ReclaimStaleJobs
  <2>3. QED
    BY <2>1, <2>2
<1>3. faults' \in 0..MaxFaults
  BY CounterAssumption DEF TypeOK, ReclaimStaleJobs, Fault
<1>4. StoryType'
  BY DEF TypeOK, StoryType, ReclaimStaleJobs, storyVars
<1>5. QED
  BY <1>1, <1>2, <1>3, <1>4 DEF TypeOK, ReclaimStaleJobs

\* Calls of processJob that do not write to the queue.
LEMMA TypeCall ==
  ASSUME TypeOK, NEW w \in Workers,
         \/ CallFails(w) \/ CheckLimit(w) \/ Generate(w) \/ CreateStory(w)
         \/ UploadAudio(w) \/ UpdateStory(w) \/ RemoveObject(w) \/ RemoveStory(w)
  PROVE  TypeOK'
<1>0. Story(w) \in Jobs \X Nat
  BY DEF TypeOK, WorkerType, Story
<1>1. ASSUME CallFails(w)
      PROVE  TypeOK'
  <2>1. OnError[pc[w]] \in Labels
    BY <1>1, OnErrorType DEF CallFails, Busy
  <2>2. WorkerType'
    BY <1>1, <2>1, ContinueType DEF TypeOK, CallFails
  <2>3. faults' \in 0..MaxFaults
    BY <1>1, CounterAssumption DEF TypeOK, CallFails, Fault
  <2>4. JobType'
    BY <1>1 DEF TypeOK, JobType, CallFails, jobVars
  <2>5. StoryType'
    BY <1>0, <1>1 DEF TypeOK, StoryType, CallFails, storyVars
  <2>6. QED
    BY <1>1, <2>2, <2>3, <2>4, <2>5 DEF TypeOK, CallFails
<1>2. ASSUME CheckLimit(w) \/ Generate(w)
      PROVE  TypeOK'
  <2>1. JobType' /\ StoryType'
    BY <1>2 DEF TypeOK, JobType, StoryType, CheckLimit, Generate, jobVars, storyVars
  <2>2. WorkerType'
    BY <1>2 DEF TypeOK, WorkerType, CheckLimit, Generate, Goto, Labels, Processing
  <2>3. current[w] \in Jobs
    BY DEF TypeOK, WorkerType
  <2>4. QED
    BY <1>2, <2>1, <2>2, <2>3 DEF TypeOK, CheckLimit, Generate
<1>3. ASSUME CreateStory(w) \/ UploadAudio(w) \/ UpdateStory(w)
      PROVE  TypeOK'
  <2>1. Busy(w) /\ \E l \in Labels : Answer(w, l)
    BY <1>3 DEF CreateStory, UploadAudio, UpdateStory, At, Busy, Labels, Processing
  <2>2. WorkerType' /\ faults' \in 0..MaxFaults /\ disturbed' \subseteq Jobs \X Nat
    BY <2>1, AnswerType
  <2>3. JobType'
    BY <1>3 DEF TypeOK, JobType, CreateStory, UploadAudio, UpdateStory, jobVars
  <2>4. StoryType'
    BY <1>0, <1>3, <2>2 DEF TypeOK, StoryType, CreateStory, UploadAudio, UpdateStory
  <2>5. QED
    BY <1>3, <2>2, <2>3, <2>4 DEF TypeOK, CreateStory, UploadAudio, UpdateStory
<1>4. ASSUME RemoveObject(w) \/ RemoveStory(w)
      PROVE  TypeOK'
  <2>1. WorkerType'
    BY <1>4, ContinueType DEF TypeOK, RemoveObject, RemoveStory, Labels, Processing
  <2>2. JobType'
    BY <1>4 DEF TypeOK, JobType, RemoveObject, RemoveStory, jobVars
  <2>3. StoryType'
    BY <1>4 DEF TypeOK, StoryType, RemoveObject, RemoveStory
  <2>4. QED
    BY <1>4, <2>1, <2>2, <2>3 DEF TypeOK, RemoveObject, RemoveStory
<1>5. QED
  BY <1>1, <1>2, <1>3, <1>4

\* SetCompleted and SetFailed keep the types.
LEMMA TypeSettle ==
  ASSUME TypeOK, NEW w \in Workers, SetCompleted(w) \/ SetFailed(w)
  PROVE  TypeOK'
<1>1. WorkerType'
  BY ContinueType DEF TypeOK, SetCompleted, SetFailed, Labels
<1>2. JobType'
  <2>1. \E s \in {"completed", "failed"} : status' = [status EXCEPT ![current[w]] = s]
    BY DEF SetCompleted, SetFailed
  <2>2. status' \in [Jobs -> Statuses]
    BY <2>1 DEF TypeOK, JobType, Statuses, Settled
  <2>3. age' \in [Jobs -> (-MaxSkew)..(LeaseWindow + 1)]
    <3>1. 0 \in (-MaxSkew)..(LeaseWindow + 1)
      BY IntervalAssumption
    <3>2. age' = [age EXCEPT ![current[w]] = 0]
      BY DEF SetCompleted, SetFailed
    <3>3. QED
      BY <3>1, <3>2 DEF TypeOK, JobType
  <2>4. QED
    BY <2>2, <2>3 DEF TypeOK, JobType, SetCompleted, SetFailed
<1>3. StoryType'
  BY DEF TypeOK, StoryType, SetCompleted, SetFailed, storyVars
<1>4. QED
  BY <1>1, <1>2, <1>3 DEF TypeOK, SetCompleted, SetFailed

\* Heartbeats and time keep ages and deadlines inside their ranges.
LEMMA TypeTime ==
  ASSUME TypeOK, Tick \/ \E w \in Workers : Heartbeat(w)
  PROVE  TypeOK'
<1>1. CASE Tick
  <2>1. WorkerType'
    BY <1>1, IntervalAssumption DEF TypeOK, WorkerType, Tick, Expired
  <2>2. JobType'
    BY <1>1, IntervalAssumption DEF TypeOK, JobType, Tick
  <2>3. faults' \in 0..MaxFaults
    BY <1>1, CounterAssumption DEF TypeOK, Tick, Fault
  <2>4. StoryType'
    BY <1>1 DEF TypeOK, StoryType, Tick, storyVars
  <2>5. QED
    BY <1>1, <2>1, <2>2, <2>3, <2>4 DEF TypeOK, Tick
<1>2. ASSUME NEW w \in Workers, Heartbeat(w)
      PROVE  TypeOK'
  <2>1. skew[w] \in 0..MaxSkew
    BY DEF TypeOK
  <2>2. -skew[w] \in (-MaxSkew)..(LeaseWindow + 1)
    BY <2>1, IntervalAssumption
  <2>3. JobType'
    BY <1>2, <2>2 DEF TypeOK, JobType, Heartbeat
  <2>4. WorkerType' /\ StoryType'
    BY <1>2 DEF TypeOK, WorkerType, StoryType, Heartbeat, workerVars, storyVars
  <2>5. QED
    BY <1>2, <2>3, <2>4 DEF TypeOK, Heartbeat, workerVars
<1>3. QED
  BY <1>1, <1>2

\* Every step keeps the types.
LEMMA TypeStep == TypeOK /\ [Next]_vars => TypeOK'
<1> SUFFICES ASSUME TypeOK, [Next]_vars PROVE TypeOK'
  OBVIOUS
<1>1. CASE UNCHANGED vars
  BY <1>1 DEF vars, jobVars, workerVars, storyVars, TypeOK, JobType, WorkerType, StoryType
<1>2. CASE Next
  BY <1>2, TypeRequest, TypeLoop, TypeClaim, TypeReclaim, TypeCall, TypeSettle, TypeTime
     DEF Next, Work
<1>3. QED
  BY <1>1, <1>2

\* Every variable keeps its type: no status outside the enum, no heartbeat age
\* or deadline beyond the value at which it stops counting.
THEOREM TypeCorrect == Spec => []TypeOK
BY TypeInit, TypeStep, PTL DEF Spec

-----------------------------------------------------------------------------
(***************************************************************************)
(* The lease.                                                              *)
(***************************************************************************)
LeaseInv == TypeOK /\ RequestFirst /\ LeaseHeld

\* A row whose worker is in time is not stale by anybody's clock.
LEMMA NotStale ==
  ASSUME TypeOK, LeaseHeld, NEW v \in Workers, NEW w \in Workers, InTime(w)
  PROVE  ~Stale(current[w], v)
<1>1. age[current[w]] <= elapsed[w] - skew[w]
  BY DEF LeaseHeld
<1>2. elapsed[w] < JobTimeout
  BY IntervalAssumption DEF InTime, Expired, TypeOK, WorkerType
<1>3. skew[v] \in 0..MaxSkew /\ skew[w] \in 0..MaxSkew
  BY DEF TypeOK
<1>4. age[current[w]] \in Int /\ elapsed[w] \in Int
  BY IntervalAssumption DEF TypeOK, JobType, WorkerType
<1>5. age[current[w]] + skew[v] < LeaseWindow
  BY <1>1, <1>2, <1>3, <1>4, IntervalAssumption, LeaseAssumption
<1>6. QED
  BY <1>3, <1>4, <1>5, IntervalAssumption DEF Stale

\* Two workers that are in time do not share a job.
LEMMA Exclusive == LeaseHeld => LeaseExclusive
BY DEF LeaseHeld, LeaseExclusive

\* A step that leaves alone the rows of the workers that are in time, and
\* those workers' own variables, keeps the lease.
LEMMA LeaseFrame ==
  ASSUME LeaseHeld, UNCHANGED skew,
         \A w \in Workers : InTime(w)' =>
            /\ InTime(w)
            /\ current'[w] = current[w] /\ try'[w] = try[w] /\ elapsed'[w] = elapsed[w]
            /\ status'[current[w]] = status[current[w]]
            /\ owner'[current[w]] = owner[current[w]]
            /\ attempts'[current[w]] = attempts[current[w]]
            /\ age'[current[w]] = age[current[w]]
  PROVE  LeaseHeld'
BY DEF LeaseHeld

\* An admin request touches no running row.
LEMMA LeaseRequest ==
  ASSUME LeaseInv, NEW j \in Jobs, CheckRequest(j) \/ CreateJob(j)
  PROVE  LeaseHeld' /\ RequestFirst'
<1>1. CASE CheckRequest(j)
  BY <1>1, LeaseFrame
     DEF LeaseInv, TypeOK, RequestFirst, CheckRequest, jobVars, workerVars, InTime, Busy, Expired
<1>2. CASE CreateJob(j)
  <2>1. status[j] = "absent"
    BY <1>2 DEF LeaseInv, RequestFirst, CreateJob
  <2>2. \A w \in Workers : InTime(w) => current[w] # j
    BY <2>1 DEF LeaseInv, LeaseHeld
  <2>3. status' = [status EXCEPT ![j] = "pending"]
        /\ UNCHANGED <<attempts, owner, age, skew, workerVars>>
    BY <1>2 DEF CreateJob
  <2>4. LeaseHeld'
    BY <2>2, <2>3, LeaseFrame
       DEF LeaseInv, TypeOK, JobType, WorkerType, workerVars, InTime, Busy, Expired
  <2>5. RequestFirst'
    BY <1>2 DEF LeaseInv, TypeOK, JobType, RequestFirst, CreateJob
  <2>6. QED
    BY <2>4, <2>5
<1>3. QED
  BY <1>1, <1>2

\* Starting, crashing and polling change no row.
LEMMA LeaseLoop ==
  ASSUME LeaseInv, NEW w \in Workers,
         StartWorker(w) \/ Crash(w) \/ Poll(w) \/ LeavePoll(w)
  PROVE  LeaseHeld' /\ RequestFirst'
<1>1. UNCHANGED <<request, jobVars, skew>>
  BY DEF StartWorker, Crash, Poll, LeavePoll, EndPoll
<1>2. ~Busy(w)'
  BY DEF LeaseInv, TypeOK, WorkerType, StartWorker, Crash, Poll, LeavePoll, EndPoll,
         Goto, Busy, Processing
<1>3. \A v \in Workers \ {w} : /\ pc'[v] = pc[v] /\ current'[v] = current[v]
                               /\ try'[v] = try[v] /\ elapsed'[v] = elapsed[v]
  BY DEF LeaseInv, TypeOK, WorkerType, StartWorker, Crash, Poll, LeavePoll, EndPoll,
         Goto, Forget
<1>4. LeaseHeld'
  BY <1>1, <1>2, <1>3, LeaseFrame DEF LeaseInv, jobVars, InTime, Busy, Expired
<1>5. QED
  BY <1>1, <1>4 DEF LeaseInv, RequestFirst, jobVars

\* A claim takes a row that no worker in time works on.
LEMMA LeaseClaim ==
  ASSUME LeaseInv, NEW w \in Workers, NEW j \in Jobs, ClaimNextJob(w, j)
  PROVE  LeaseHeld' /\ RequestFirst'
<1>1. status[j] = "pending" \/ Stale(j, w)
  BY DEF ClaimNextJob, ClaimedFirst, Claimable
<1>2. \A v \in Workers : InTime(v) => current[v] # j
  BY <1>1, NotStale DEF LeaseInv, LeaseHeld
<1>3. /\ status'[j] = "running" /\ owner'[j] = w
      /\ attempts'[j] = attempts[j] + 1 /\ age'[j] = -skew[w]
  BY DEF ClaimNextJob, LeaseInv, TypeOK, JobType
<1>4. \A i \in Jobs \ {j} : /\ status'[i] = status[i] /\ owner'[i] = owner[i]
                            /\ attempts'[i] = attempts[i] /\ age'[i] = age[i]
  BY DEF ClaimNextJob, LeaseInv, TypeOK, JobType
<1>5. UNCHANGED <<skew, request>>
  BY DEF ClaimNextJob
<1>6. ASSUME NEW v \in Workers, v # w, InTime(v)'
      PROVE  /\ InTime(v) /\ current'[v] = current[v]
             /\ try'[v] = try[v] /\ elapsed'[v] = elapsed[v]
  BY <1>6 DEF ClaimNextJob, Goto, LeaseInv, TypeOK, WorkerType, InTime, Busy, Expired
<1>7. \/ ~Busy(w)'
      \/ current'[w] = j /\ try'[w] = attempts[j] + 1 /\ elapsed'[w] = 0
  BY DEF ClaimNextJob, Goto, LeaseInv, TypeOK, WorkerType, Busy, Processing
<1>8. LeaseHeld'
  <2> SUFFICES ASSUME NEW v \in Workers, InTime(v)'
               PROVE  /\ status'[current'[v]] = "running" /\ owner'[current'[v]] = v
                      /\ try'[v] = attempts'[current'[v]]
                      /\ age'[current'[v]] <= elapsed'[v] - skew'[v]
    BY DEF LeaseHeld
  <2>1. CASE v = w
    <3>1. skew[w] \in Int
      BY IntervalAssumption DEF LeaseInv, TypeOK
    <3>2. QED
      BY <2>1, <3>1, <1>3, <1>5, <1>7 DEF InTime
  <2>2. CASE v # w
    <3>1. current[v] \in Jobs \ {j}
      BY <2>2, <1>2, <1>6 DEF LeaseInv, TypeOK, WorkerType
    <3>2. QED
      BY <2>2, <3>1, <1>4, <1>5, <1>6 DEF LeaseInv, LeaseHeld
  <2>3. QED
    BY <2>1, <2>2
<1>9. RequestFirst'
  <2>1. status[j] # "absent"
    BY <1>1 DEF Stale
  <2>2. QED
    BY <2>1, <1>4, <1>5 DEF LeaseInv, RequestFirst
<1>10. QED
  BY <1>8, <1>9

\* The reclaim pass releases only stale rows.
LEMMA LeaseReclaim ==
  ASSUME LeaseInv, NEW w \in Workers, ReclaimStaleJobs(w)
  PROVE  LeaseHeld' /\ RequestFirst'
<1>1. PICK dead \in SUBSET StaleFor(w), pending \in SUBSET StaleFor(w) : Reset(dead, pending)
  BY DEF ReclaimStaleJobs, SpentFor
<1>2. \A i \in Jobs \ StaleFor(w) :
         status'[i] = status[i] /\ owner'[i] = owner[i] /\ age'[i] = age[i]
  BY <1>1 DEF Reset
<1>3. \A v \in Workers : InTime(v) => current[v] \in Jobs \ StaleFor(w)
  BY NotStale DEF StaleFor, LeaseInv, TypeOK, WorkerType
<1>4. UNCHANGED <<skew, request, attempts, current, try, elapsed>>
  BY DEF ReclaimStaleJobs
<1>5. \A v \in Workers : Busy(v)' => Busy(v)
  BY DEF ReclaimStaleJobs, Goto, LeaseInv, TypeOK, WorkerType, Busy, Processing
<1>6. LeaseHeld'
  BY <1>2, <1>3, <1>4, <1>5, LeaseFrame DEF LeaseInv, InTime, Expired
<1>7. \A i \in StaleFor(w) : status[i] # "absent"
  BY DEF StaleFor, Stale
<1>8. QED
  BY <1>2, <1>4, <1>6, <1>7 DEF LeaseInv, RequestFirst

\* A busy worker that goes on to another label either returns or keeps its
\* job, attempt and deadline; the other workers are not concerned.
LEMMA ContinueFrame ==
  ASSUME TypeOK, NEW w \in Workers, Busy(w), NEW l \in Labels, Continue(w, l)
  PROVE  \A v \in Workers : InTime(v)' =>
            /\ InTime(v) /\ current'[v] = current[v]
            /\ try'[v] = try[v] /\ elapsed'[v] = elapsed[v]
            /\ (v = w => l # "poll" /\ pc'[v] = l) /\ (v # w => pc'[v] = pc[v])
<1>1. CASE l = "poll"
  BY <1>1 DEF Continue, Goto, Forget, TypeOK, WorkerType, InTime, Busy, Expired, Processing
<1>2. CASE l # "poll"
  BY <1>2 DEF Continue, Goto, TypeOK, WorkerType, InTime, Busy, Expired
<1>3. QED
  BY <1>1, <1>2

\* Every call of processJob ends in Continue.
LEMMA CallContinues ==
  ASSUME TypeOK, NEW w \in Workers,
         \/ CallFails(w) \/ CheckLimit(w) \/ Generate(w) \/ CreateStory(w)
         \/ UploadAudio(w) \/ UpdateStory(w) \/ RemoveObject(w) \/ RemoveStory(w)
  PROVE  Busy(w) /\ \E l \in Labels : Continue(w, l)
<1>1. Busy(w)
  BY DEF CallFails, CheckLimit, Generate, CreateStory, UploadAudio, UpdateStory,
         RemoveObject, RemoveStory, At, Busy, Processing
<1>2. OnError[pc[w]] \in Labels
  BY <1>1, OnErrorType DEF Busy
<1>3. \A l \in Labels : Answer(w, l) => \E k \in Labels : Continue(w, k)
  BY <1>2 DEF Answer
<1>4. CASE CheckLimit(w) \/ Generate(w)
  <2>1. \E l \in {"fail", "generate", "create"} : Goto(w, l) /\ UNCHANGED <<current, try, elapsed>>
    BY <1>4 DEF CheckLimit, Generate
  <2>2. QED
    BY <1>1, <2>1 DEF Continue, Labels, Processing
<1>5. CASE CallFails(w)
  BY <1>1, <1>2, <1>5 DEF CallFails
<1>6. CASE CreateStory(w) \/ UploadAudio(w) \/ UpdateStory(w)
  <2>1. \E l \in {"upload", "update", "complete"} : Answer(w, l)
    BY <1>6 DEF CreateStory, UploadAudio, UpdateStory
  <2>2. QED
    BY <1>1, <1>3, <2>1 DEF Labels, Processing
<1>7. CASE RemoveObject(w) \/ RemoveStory(w)
  BY <1>1, <1>7 DEF RemoveObject, RemoveStory, Labels, Processing
<1>8. QED
  BY <1>4, <1>5, <1>6, <1>7

\* Calls of processJob that do not settle the job leave its row alone.
LEMMA LeaseCall ==
  ASSUME LeaseInv, NEW w \in Workers,
         \/ CallFails(w) \/ CheckLimit(w) \/ Generate(w) \/ CreateStory(w)
         \/ UploadAudio(w) \/ UpdateStory(w) \/ RemoveObject(w) \/ RemoveStory(w)
  PROVE  LeaseHeld' /\ RequestFirst'
<1>1. PICK l \in Labels : Busy(w) /\ Continue(w, l)
  BY CallContinues DEF LeaseInv
<1>2. UNCHANGED <<request, jobVars, skew>>
  BY DEF CallFails, CheckLimit, Generate, CreateStory, UploadAudio, UpdateStory,
         RemoveObject, RemoveStory
<1>3. LeaseHeld'
  BY <1>1, <1>2, ContinueFrame, LeaseFrame DEF LeaseInv, jobVars
<1>4. QED
  BY <1>2, <1>3 DEF LeaseInv, RequestFirst, jobVars

\* The unguarded updates: they meet a running row of their own.
LEMMA LeaseSettle ==
  ASSUME LeaseInv, NEW w \in Workers, SetCompleted(w) \/ SetFailed(w)
  PROVE  LeaseHeld' /\ RequestFirst'
<1>1. InTime(w) /\ Busy(w) /\ Continue(w, "poll")
  BY DEF SetCompleted, SetFailed, At, InTime, Busy, Processing
<1>2. \A v \in Workers : InTime(v)' => InTime(v) /\ v # w /\ current'[v] = current[v]
                                       /\ try'[v] = try[v] /\ elapsed'[v] = elapsed[v]
  BY <1>1, ContinueFrame DEF LeaseInv, Labels
<1>3. \A v \in Workers : InTime(v)' => current[v] # current[w]
  BY <1>1, <1>2, Exclusive DEF LeaseInv, LeaseExclusive
<1>4. PICK s \in {"completed", "failed"} :
         /\ status' = [status EXCEPT ![current[w]] = s]
         /\ age' = [age EXCEPT ![current[w]] = 0]
         /\ UNCHANGED <<request, attempts, owner, skew>>
  BY DEF SetCompleted, SetFailed
<1>5. LeaseHeld'
  BY <1>2, <1>3, <1>4, LeaseFrame DEF LeaseInv, TypeOK, JobType, WorkerType, InTime
<1>6. status[current[w]] = "running"
  BY <1>1 DEF LeaseInv, LeaseHeld
<1>7. QED
  BY <1>4, <1>5, <1>6 DEF LeaseInv, RequestFirst, TypeOK, JobType

\* A heartbeat makes its row younger.
LEMMA LeaseHeartbeat ==
  ASSUME LeaseInv, NEW w \in Workers, Heartbeat(w)
  PROVE  LeaseHeld' /\ RequestFirst'
<1>1. InTime(w) /\ age' = [age EXCEPT ![current[w]] = -skew[w]]
      /\ UNCHANGED <<request, status, attempts, owner, skew, workerVars>>
  BY DEF Heartbeat, InTime
<1>2. \A v \in Workers : InTime(v)' => InTime(v) /\ (v # w => current[v] # current[w])
  BY <1>1, Exclusive DEF LeaseInv, LeaseExclusive, InTime, Busy, Expired, workerVars
<1>3. elapsed[w] \in Nat /\ skew[w] \in Int
  BY IntervalAssumption DEF LeaseInv, TypeOK, WorkerType
<1>4. age'[current[w]] <= elapsed[w] - skew[w]
  BY <1>1, <1>3 DEF LeaseInv, TypeOK, JobType, WorkerType
<1>5. LeaseHeld'
  BY <1>1, <1>2, <1>4 DEF LeaseInv, LeaseHeld, TypeOK, JobType, WorkerType, workerVars
<1>6. QED
  BY <1>1, <1>5 DEF LeaseInv, RequestFirst

\* Time ages a row and its worker's deadline by the same amount.
LEMMA LeaseTick ==
  ASSUME LeaseInv, Tick
  PROVE  LeaseHeld' /\ RequestFirst'
<1>1. UNCHANGED <<request, status, attempts, owner, skew, pc, current, try>>
  BY DEF Tick
<1>2. ASSUME NEW w \in Workers, InTime(w)'
      PROVE  InTime(w) /\ elapsed'[w] = elapsed[w] + 1
  BY <1>1, <1>2, IntervalAssumption DEF Tick, InTime, Busy, Expired, LeaseInv, TypeOK, WorkerType
<1>3. \A j \in Jobs : age'[j] \in Int /\ age'[j] <= age[j] + 1
  BY IntervalAssumption DEF Tick, LeaseInv, TypeOK, JobType
<1>4. ASSUME NEW w \in Workers, InTime(w)'
      PROVE  age'[current[w]] <= elapsed'[w] - skew[w]
  <2>1. age[current[w]] <= elapsed[w] - skew[w] /\ current[w] \in Jobs
    BY <1>2, <1>4 DEF LeaseInv, LeaseHeld, TypeOK, WorkerType
  <2>2. elapsed[w] \in Int /\ skew[w] \in Int /\ age[current[w]] \in Int
    BY <2>1, IntervalAssumption DEF LeaseInv, TypeOK, JobType, WorkerType
  <2>3. QED
    BY <1>2, <1>3, <1>4, <2>1, <2>2
<1>5. LeaseHeld'
  BY <1>1, <1>2, <1>4 DEF LeaseInv, LeaseHeld
<1>6. QED
  BY <1>1, <1>5 DEF LeaseInv, RequestFirst

\* LeaseInv is inductive.
LEMMA LeaseStep == LeaseInv /\ [Next]_vars => LeaseInv'
<1> SUFFICES ASSUME LeaseInv, [Next]_vars PROVE LeaseHeld' /\ RequestFirst'
  BY TypeStep DEF LeaseInv
<1>1. CASE UNCHANGED vars
  BY <1>1 DEF vars, jobVars, workerVars, LeaseInv, LeaseHeld, RequestFirst, InTime, Busy, Expired
<1>2. CASE Next
  BY <1>2, LeaseRequest, LeaseLoop, LeaseClaim, LeaseReclaim, LeaseCall, LeaseSettle,
     LeaseHeartbeat, LeaseTick DEF Next, Work
<1>3. QED
  BY <1>1, <1>2

\* LeaseInv holds initially: no worker is busy.
LEMMA LeaseInit == Init => LeaseInv
<1> SUFFICES ASSUME Init PROVE LeaseInv
  OBVIOUS
<1>1. LeaseHeld /\ RequestFirst
  BY DEF Init, LeaseHeld, RequestFirst, InTime, Busy, Processing
<1>2. QED
  BY <1>1, TypeInit DEF LeaseInv

\* The inductive invariant behind the lease theorems.
LEMMA LeaseInvariant == Spec => []LeaseInv
BY LeaseInit, LeaseStep, PTL DEF Spec

\* While a worker is in time its row is running, owned by it, in its attempt
\* and stale to no clock.
THEOREM LeaseIsHeld == Spec => []LeaseHeld
<1>1. LeaseInv => LeaseHeld
  BY DEF LeaseInv
<1>2. QED
  BY <1>1, LeaseInvariant, PTL

\* Two workers that are in time never process the same job.
THEOREM LeaseIsExclusive == Spec => []LeaseExclusive
<1>1. LeaseInv => LeaseExclusive
  BY Exclusive DEF LeaseInv
<1>2. QED
  BY <1>1, LeaseInvariant, PTL

\* The rows keep their types, a worker inside its deadline holds its job's row, and
\* it is the only one: for all workers, jobs, skews and attempts.
THEOREM LeaseSafety == Spec => []LeaseSafe
<1>1. TypeOK /\ LeaseHeld /\ LeaseExclusive => LeaseSafe
  BY DEF LeaseSafe
<1>2. QED
  BY <1>1, TypeCorrect, LeaseIsHeld, LeaseIsExclusive, PTL

-----------------------------------------------------------------------------
(***************************************************************************)
(* The queue implements JobLifecycle.                                      *)
(***************************************************************************)
\* Every step of the queue is a step of the life cycle, or leaves it alone.
LEMMA LifecycleStep == LeaseInv /\ [Next]_vars => [Lifecycle!Next]_(Lifecycle!vars)
<1> SUFFICES ASSUME LeaseInv, [Next]_vars PROVE [Lifecycle!Next]_(Lifecycle!vars)
  OBVIOUS
<1>1. ASSUME NEW j \in Jobs, CreateJob(j)
      PROVE  Lifecycle!Insert(j)
  BY <1>1 DEF CreateJob, LeaseInv, RequestFirst, Lifecycle!Insert
<1>2. ASSUME NEW w \in Workers, NEW j \in Jobs, ClaimNextJob(w, j)
      PROVE  Lifecycle!Begin(j)
  BY <1>2 DEF ClaimNextJob, ClaimedFirst, Claimable, Stale, Lifecycle!Begin
<1>3. ASSUME NEW w \in Workers, ReclaimStaleJobs(w)
      PROVE  \E S, D \in SUBSET Jobs : S \cap D = {} /\ Lifecycle!Release(S, D)
  <2>1. /\ SpentFor(w) \subseteq StaleFor(w) /\ StaleFor(w) \subseteq Jobs
        /\ \A j \in StaleFor(w) : status[j] = "running"
    BY DEF SpentFor, StaleFor, Stale
  <2>2. UNCHANGED attempts
    BY <1>3 DEF ReclaimStaleJobs
  <2>3. PICK D \in {SpentFor(w), {}}, S \in {StaleFor(w) \ SpentFor(w), {}} :
           Reset(D, S) /\ S \cap D = {}
    <3>1. CASE Reset(SpentFor(w), StaleFor(w) \ SpentFor(w))
      BY <3>1
    <3>2. CASE Reset(SpentFor(w), {})
      BY <3>2
    <3>3. CASE Reset({}, {})
      BY <3>3
    <3>4. QED
      BY <1>3, <3>1, <3>2, <3>3 DEF ReclaimStaleJobs
  <2>4. S \in SUBSET Jobs /\ D \in SUBSET Jobs /\ \A j \in S \cup D : status[j] = "running"
    BY <2>1
  <2>5. Lifecycle!Release(S, D)
    BY <2>2, <2>3, <2>4 DEF Reset, Lifecycle!Release
  <2>6. QED
    BY <2>3, <2>4, <2>5
<1>4. ASSUME NEW w \in Workers, SetCompleted(w) \/ SetFailed(w)
      PROVE  \E j \in Jobs : Lifecycle!Settle(j)
  <2>1. InTime(w) /\ current[w] \in Jobs
    BY <1>4 DEF SetCompleted, SetFailed, At, InTime, Busy, Processing, LeaseInv, TypeOK, WorkerType
  <2>2. status[current[w]] = "running"
    BY <2>1 DEF LeaseInv, LeaseHeld
  <2>3. Lifecycle!Settle(current[w])
    BY <1>4, <2>2 DEF SetCompleted, SetFailed, Lifecycle!Settle
  <2>4. QED
    BY <2>1, <2>3
<1>5. ASSUME NEW j \in Jobs, CheckRequest(j)
      PROVE  UNCHANGED <<status, attempts>>
  BY <1>5 DEF CheckRequest, jobVars
<1>6. ASSUME NEW w \in Workers,
             \/ StartWorker(w) \/ Crash(w) \/ Poll(w) \/ LeavePoll(w) \/ Heartbeat(w)
             \/ CallFails(w) \/ CheckLimit(w) \/ Generate(w) \/ CreateStory(w)
             \/ UploadAudio(w) \/ UpdateStory(w) \/ RemoveObject(w) \/ RemoveStory(w)
      PROVE  UNCHANGED <<status, attempts>>
  BY <1>6 DEF StartWorker, Crash, Poll, LeavePoll, EndPoll, Heartbeat, CallFails, CheckLimit,
              Generate, CreateStory, UploadAudio, UpdateStory, RemoveObject, RemoveStory, jobVars
<1>7. CASE Tick \/ UNCHANGED vars
  BY <1>7 DEF Tick, vars, jobVars, Lifecycle!vars
<1>8. CASE Next
  BY <1>1, <1>2, <1>3, <1>4, <1>5, <1>6, <1>7, <1>8
     DEF Next, Work, Lifecycle!Next, Lifecycle!vars
<1>9. QED
  BY <1>7, <1>8

\* Whatever crashes, times out or is claimed twice, status and attempts follow
\* the documented life cycle: only running jobs settle, settled jobs are final.
THEOREM ImplementsLifecycle == Spec => LifecycleSpec
<1>1. Init => Lifecycle!Init
  BY DEF Init, Lifecycle!Init
<1>2. QED
  BY <1>1, LifecycleStep, LeaseInvariant, PTL DEF Spec, LifecycleSpec, Lifecycle!Spec

-----------------------------------------------------------------------------
(***************************************************************************)
(* A completed job has its story, and the story its audio.                 *)
(***************************************************************************)
Complete(s) == s \in rows /\ s \in linked /\ s \in objects

\* What a worker in time has built so far, by the call it makes next.
StoryHeld ==
    \A w \in Workers : InTime(w) =>
        /\ try[w] >= 1
        /\ pc[w] = "upload" => Story(w) \in rows
        /\ pc[w] = "update" => Story(w) \in rows /\ Story(w) \in objects
        /\ pc[w] = "complete" => Complete(Story(w))

AudioInv == CompletedHasAudio /\ StoryHeld

\* Only a worker in time writes, and only the story of its own attempt.
LEMMA StoryWrites ==
  ASSUME LeaseInv, Next
  PROVE  \/ UNCHANGED storyVars
         \/ \E w \in Workers :
              /\ CreateStory(w) \/ UploadAudio(w) \/ UpdateStory(w)
                 \/ RemoveObject(w) \/ RemoveStory(w)
              /\ InTime(w) /\ status[current[w]] = "running"
              /\ rows' \in {rows, rows \cup {Story(w)}, rows \ {Story(w)}}
              /\ linked' \in {linked, linked \cup {Story(w)}, linked \ {Story(w)}}
              /\ objects' \in {objects, objects \cup {Story(w)}, objects \ {Story(w)}}
<1>1. ASSUME NEW w \in Workers,
             CreateStory(w) \/ UploadAudio(w) \/ UpdateStory(w)
             \/ RemoveObject(w) \/ RemoveStory(w)
      PROVE  /\ InTime(w) /\ status[current[w]] = "running"
             /\ rows' \in {rows, rows \cup {Story(w)}, rows \ {Story(w)}}
             /\ linked' \in {linked, linked \cup {Story(w)}, linked \ {Story(w)}}
             /\ objects' \in {objects, objects \cup {Story(w)}, objects \ {Story(w)}}
  <2>1. InTime(w)
    BY <1>1 DEF CreateStory, UploadAudio, UpdateStory, RemoveObject, RemoveStory,
                At, InTime, Busy, Processing
  <2>2. status[current[w]] = "running"
    BY <2>1 DEF LeaseInv, LeaseHeld
  <2>3. QED
    BY <1>1, <2>1, <2>2
       DEF CreateStory, UploadAudio, UpdateStory, RemoveObject, RemoveStory
<1>2. ASSUME NEW w \in Workers,
             \/ StartWorker(w) \/ Crash(w) \/ Poll(w) \/ LeavePoll(w) \/ Heartbeat(w)
             \/ \E j \in Jobs : ClaimNextJob(w, j)
             \/ ReclaimStaleJobs(w) \/ CallFails(w) \/ CheckLimit(w) \/ Generate(w)
             \/ SetCompleted(w) \/ SetFailed(w)
      PROVE  UNCHANGED storyVars
  BY <1>2 DEF StartWorker, Crash, Poll, LeavePoll, EndPoll, Heartbeat, ClaimNextJob,
              ReclaimStaleJobs, CallFails, CheckLimit, Generate, SetCompleted, SetFailed, storyVars
<1>3. ASSUME Tick \/ \E j \in Jobs : CheckRequest(j) \/ CreateJob(j)
      PROVE  UNCHANGED storyVars
  BY <1>3 DEF Tick, CheckRequest, CreateJob, storyVars
<1>4. QED
  BY <1>1, <1>2, <1>3 DEF Next, Work

\* The calls that write stories keep what a worker in time relies on.
LEMMA StoryHeldWriting ==
  ASSUME LeaseInv, StoryHeld, NEW w \in Workers,
         CreateStory(w) \/ UploadAudio(w) \/ UpdateStory(w) \/ RemoveObject(w) \/ RemoveStory(w)
  PROVE  StoryHeld'
<1> DEFINE s == Story(w)
<1>1. InTime(w) /\ Busy(w)
  BY DEF CreateStory, UploadAudio, UpdateStory, RemoveObject, RemoveStory,
         At, InTime, Busy, Processing
<1>2. PICK l \in Labels : Continue(w, l)
  BY CallContinues DEF LeaseInv
<1>3. \A v \in Workers : InTime(v)' =>
         /\ InTime(v) /\ current'[v] = current[v] /\ try'[v] = try[v]
         /\ (v # w => pc'[v] = pc[v])
  BY <1>1, <1>2, ContinueFrame DEF LeaseInv
<1>4. \A v \in Workers : InTime(v)' => Story(v)' = Story(v) /\ (v # w => Story(v) # s)
  BY <1>1, <1>3, Exclusive DEF LeaseInv, LeaseExclusive, Story
<1>5. \A x : x # s => /\ (x \in rows' <=> x \in rows) /\ (x \in linked' <=> x \in linked)
                      /\ (x \in objects' <=> x \in objects)
  BY DEF CreateStory, UploadAudio, UpdateStory, RemoveObject, RemoveStory
<1>6. ASSUME InTime(w)'
      PROVE  /\ pc'[w] = "upload" => s \in rows'
             /\ pc'[w] = "update" => s \in rows' /\ s \in objects'
             /\ pc'[w] = "complete" => s \in rows' /\ s \in linked' /\ s \in objects'
  <2>1. \A k : Continue(w, k) => pc'[w] = k
    BY DEF Continue, Goto, LeaseInv, TypeOK, WorkerType
  <2>2. \A k : Answer(w, k) => pc'[w] \in {k, OnError[pc[w]]}
    BY <2>1 DEF Answer
  <2>3. CASE CreateStory(w)
    <3>1. OnError["create"] = "fail"
      BY DEF OnError, Processing
    <3>2. QED
      BY <2>2, <2>3, <3>1 DEF CreateStory, At
  <2>4. CASE UploadAudio(w)
    <3>1. OnError["upload"] = "rmstory"
      BY DEF OnError, Processing
    <3>2. s \in rows /\ s \in rows'
      BY <1>1, <2>4 DEF UploadAudio, At, StoryHeld
    <3>3. QED
      BY <2>2, <2>4, <3>1, <3>2 DEF UploadAudio, At
  <2>5. CASE UpdateStory(w)
    <3>1. OnError["update"] = "rmobject"
      BY DEF OnError, Processing
    <3>2. s \in rows /\ s \in objects
      BY <1>1, <2>5 DEF UpdateStory, At, StoryHeld
    <3>3. QED
      BY <2>2, <2>5, <3>1, <3>2 DEF UpdateStory, At
  <2>6. CASE RemoveObject(w) \/ RemoveStory(w)
    BY <2>1, <2>6 DEF RemoveObject, RemoveStory
  <2>7. QED
    BY <2>3, <2>4, <2>5, <2>6
<1>7. QED
  BY <1>3, <1>4, <1>5, <1>6 DEF StoryHeld, Complete

\* Steps that write no story keep it too.
LEMMA StoryHeldOther ==
  ASSUME LeaseInv, StoryHeld, [Next]_vars, UNCHANGED storyVars
  PROVE  StoryHeld'
<1> DEFINE Same(v) == /\ InTime(v) /\ current'[v] = current[v] /\ try'[v] = try[v]
                      /\ pc'[v] \in {pc[v], "fail", "generate", "create", "rmobject", "rmstory"}
           Keeps   == \A v \in Workers : InTime(v)' => Same(v)
<1>1. ASSUME NEW w \in Workers, CallFails(w) \/ CheckLimit(w) \/ Generate(w)
      PROVE  Keeps
  <2>1. PICK l \in {"fail", "generate", "create", "rmobject", "rmstory", "poll"} :
           Continue(w, l) /\ Busy(w)
    BY <1>1, CallContinues
       DEF CallFails, CheckLimit, Generate, Continue, Busy, OnError, At, Processing
  <2>2. l \in Labels
    BY <2>1 DEF Labels, Processing
  <2>3. QED
    BY <2>1, <2>2, ContinueFrame DEF LeaseInv
<1>2. ASSUME NEW w \in Workers, SetCompleted(w) \/ SetFailed(w)
      PROVE  Keeps
  <2>1. Busy(w) /\ Continue(w, "poll")
    BY <1>2 DEF SetCompleted, SetFailed, At, Busy, Processing
  <2>2. QED
    BY <2>1, ContinueFrame DEF LeaseInv, Labels
<1>3. ASSUME NEW w \in Workers,
             \/ StartWorker(w) \/ Crash(w) \/ Poll(w) \/ LeavePoll(w) \/ ReclaimStaleJobs(w)
      PROVE  Keeps
  <2>1. ~InTime(w)'
    BY <1>3 DEF LeaseInv, TypeOK, WorkerType, StartWorker, Crash, Poll, LeavePoll, EndPoll,
                ReclaimStaleJobs, Goto, InTime, Busy, Processing
  <2>2. \A v \in Workers \ {w} : /\ pc'[v] = pc[v] /\ current'[v] = current[v]
                                 /\ try'[v] = try[v] /\ elapsed'[v] = elapsed[v]
    BY <1>3 DEF LeaseInv, TypeOK, WorkerType, StartWorker, Crash, Poll, LeavePoll, EndPoll,
                ReclaimStaleJobs, Goto, Forget
  <2>3. QED
    BY <2>1, <2>2 DEF InTime, Busy, Expired
<1>4. ASSUME Tick
      PROVE  Keeps
  BY <1>4, IntervalAssumption DEF LeaseInv, TypeOK, WorkerType, Tick, InTime, Busy, Expired
<1>5. ASSUME \/ UNCHANGED workerVars
             \/ \E w \in Workers : Heartbeat(w)
             \/ \E j \in Jobs : CheckRequest(j) \/ CreateJob(j)
      PROVE  Keeps
  BY <1>5 DEF workerVars, Heartbeat, CheckRequest, CreateJob, InTime, Busy, Expired
<1>6. CASE Keeps
  BY <1>6 DEF StoryHeld, Complete, Story, storyVars
<1>7. ASSUME NEW w \in Workers, NEW j \in Jobs, ClaimNextJob(w, j)
      PROVE  StoryHeld'
  <2>1. InTime(w)' => pc'[w] = "count" /\ try'[w] = attempts[j] + 1
    BY <1>7 DEF ClaimNextJob, Goto, LeaseInv, TypeOK, WorkerType, InTime, Busy, Processing
  <2>2. attempts[j] \in Nat
    BY DEF LeaseInv, TypeOK, JobType
  <2>3. \A v \in Workers \ {w} : InTime(v)' => Same(v)
    BY <1>7 DEF ClaimNextJob, Goto, LeaseInv, TypeOK, WorkerType, InTime, Busy, Expired
  <2>4. QED
    BY <2>1, <2>2, <2>3 DEF StoryHeld, Complete, Story, storyVars
<1>8. ASSUME NEW w \in Workers,
             CreateStory(w) \/ UploadAudio(w) \/ UpdateStory(w) \/ RemoveObject(w) \/ RemoveStory(w)
      PROVE  StoryHeld'
  BY <1>8, StoryHeldWriting
<1>9. CASE UNCHANGED vars
  BY <1>5, <1>6, <1>9 DEF vars
<1>10. CASE Next
  BY <1>1, <1>2, <1>3, <1>4, <1>5, <1>6, <1>7, <1>8, <1>10 DEF Next, Work
<1>11. QED
  BY <1>9, <1>10

\* A job becomes completed only through SetCompleted, and attempts never drop.
LEMMA CompletionCases ==
  ASSUME LeaseInv, [Next]_vars, NEW j \in Jobs, status'[j] = "completed"
  PROVE  /\ attempts'[j] \in Nat /\ attempts'[j] >= attempts[j]
         /\ \/ status[j] = "completed"
            \/ \E w \in Workers : SetCompleted(w) /\ current[w] = j
<1>1. attempts[j] \in Nat
  BY DEF LeaseInv, TypeOK, JobType
<1>2. ASSUME NEW w \in Workers, SetCompleted(w)
      PROVE  attempts' = attempts /\ (status[j] = "completed" \/ current[w] = j)
  BY <1>2 DEF SetCompleted, LeaseInv, TypeOK, JobType
<1>3. ASSUME NEW w \in Workers, SetFailed(w)
      PROVE  attempts' = attempts /\ status[j] = "completed"
  BY <1>3 DEF SetFailed, LeaseInv, TypeOK, JobType, WorkerType
<1>4. ASSUME NEW w \in Workers, ReclaimStaleJobs(w)
      PROVE  attempts' = attempts /\ status[j] = "completed"
  BY <1>4 DEF ReclaimStaleJobs, Reset
<1>5. ASSUME NEW w \in Workers, NEW i \in Jobs, ClaimNextJob(w, i)
      PROVE  attempts'[j] \in {attempts[j], attempts[j] + 1} /\ status[j] = "completed"
  BY <1>5 DEF ClaimNextJob, LeaseInv, TypeOK, JobType
<1>6. ASSUME NEW i \in Jobs, CheckRequest(i) \/ CreateJob(i)
      PROVE  attempts' = attempts /\ status[j] = "completed"
  BY <1>6 DEF CheckRequest, CreateJob, jobVars, LeaseInv, TypeOK, JobType
<1>7. ASSUME NEW w \in Workers,
             \/ StartWorker(w) \/ Crash(w) \/ Poll(w) \/ LeavePoll(w) \/ Heartbeat(w)
             \/ CallFails(w) \/ CheckLimit(w) \/ Generate(w) \/ CreateStory(w)
             \/ UploadAudio(w) \/ UpdateStory(w) \/ RemoveObject(w) \/ RemoveStory(w)
      PROVE  attempts' = attempts /\ status[j] = "completed"
  BY <1>7 DEF StartWorker, Crash, Poll, LeavePoll, EndPoll, Heartbeat, CallFails, CheckLimit,
              Generate, CreateStory, UploadAudio, UpdateStory, RemoveObject, RemoveStory, jobVars
<1>8. CASE Tick \/ UNCHANGED vars
  BY <1>1, <1>8 DEF Tick, vars, jobVars
<1>9. CASE Next
  BY <1>1, <1>2, <1>3, <1>4, <1>5, <1>6, <1>7, <1>8, <1>9 DEF Next, Work
<1>10. QED
  BY <1>8, <1>9

\* Every step keeps the invariant behind CompletedAudio.
LEMMA CompletedStep ==
  ASSUME LeaseInv, AudioInv, [Next]_vars
  PROVE  CompletedHasAudio'
<1> SUFFICES ASSUME NEW j \in Jobs, status'[j] = "completed"
             PROVE  \E a \in 1..attempts'[j] : Complete(<<j, a>>)'
  BY DEF CompletedHasAudio, Complete
<1>1. attempts'[j] \in Nat /\ attempts'[j] >= attempts[j] /\ attempts[j] \in Nat
  BY CompletionCases DEF LeaseInv, TypeOK, JobType
<1>2. ASSUME NEW w \in Workers, SetCompleted(w), current[w] = j
      PROVE  \E a \in 1..attempts'[j] : Complete(<<j, a>>)'
  <2>1. InTime(w) /\ pc[w] = "complete" /\ UNCHANGED storyVars
    BY <1>2 DEF SetCompleted, At, InTime, Busy, Processing, storyVars
  <2>2. Complete(<<j, try[w]>>) /\ try[w] >= 1
    BY <1>2, <2>1 DEF AudioInv, StoryHeld, Story
  <2>3. try[w] = attempts[j]
    BY <1>2, <2>1 DEF LeaseInv, LeaseHeld
  <2>4. try[w] \in 1..attempts'[j]
    BY <1>1, <2>2, <2>3
  <2>5. QED
    BY <2>1, <2>2, <2>4 DEF Complete, storyVars
<1>3. CASE status[j] = "completed"
  <2>1. PICK a \in 1..attempts[j] : Complete(<<j, a>>)
    BY <1>3 DEF AudioInv, CompletedHasAudio, Complete
  <2>2. a \in 1..attempts'[j]
    BY <1>1
  <2>3. CASE UNCHANGED storyVars
    BY <2>1, <2>2, <2>3 DEF Complete, storyVars
  <2>4. ASSUME NEW w \in Workers, status[current[w]] = "running",
               rows' \in {rows, rows \cup {Story(w)}, rows \ {Story(w)}},
               linked' \in {linked, linked \cup {Story(w)}, linked \ {Story(w)}},
               objects' \in {objects, objects \cup {Story(w)}, objects \ {Story(w)}}
        PROVE  Complete(<<j, a>>)'
    <3>1. <<j, a>> # Story(w)
      BY <1>3, <2>4 DEF Story
    <3>2. QED
      BY <2>1, <2>4, <3>1 DEF Complete
  <2>5. CASE Next
    BY <2>2, <2>3, <2>4, <2>5, StoryWrites
  <2>6. CASE UNCHANGED vars
    BY <2>3, <2>6 DEF vars, storyVars
  <2>7. QED
    BY <2>5, <2>6
<1>4. QED
  BY <1>2, <1>3, CompletionCases

\* Every step keeps what workers in time have built and jobs were completed with.
LEMMA AudioInvariant == Spec => []AudioInv
<1>1. Init => AudioInv
  BY DEF Init, AudioInv, CompletedHasAudio, StoryHeld, InTime, Busy, Processing
<1>2. LeaseInv /\ AudioInv /\ [Next]_vars => StoryHeld'
  <2> SUFFICES ASSUME LeaseInv, AudioInv, [Next]_vars PROVE StoryHeld'
    OBVIOUS
  <2>1. CASE UNCHANGED storyVars
    BY <2>1, StoryHeldOther DEF AudioInv
  <2>2. ASSUME NEW w \in Workers,
               CreateStory(w) \/ UploadAudio(w) \/ UpdateStory(w)
               \/ RemoveObject(w) \/ RemoveStory(w)
        PROVE  StoryHeld'
    BY <2>2, StoryHeldWriting DEF AudioInv
  <2>3. CASE UNCHANGED vars
    BY <2>1, <2>3 DEF vars, storyVars
  <2>4. CASE Next
    BY <2>1, <2>2, <2>4, StoryWrites
  <2>5. QED
    BY <2>3, <2>4
<1>3. LeaseInv /\ AudioInv /\ [Next]_vars => AudioInv'
  BY <1>2, CompletedStep DEF AudioInv
<1>4. QED
  BY <1>1, <1>3, LeaseInvariant, PTL DEF Spec

\* A job is only ever completed with a story row whose audio_url is set and
\* whose object is in the store, and no compensation takes them away again.
THEOREM CompletedAudio == Spec => []CompletedHasAudio
<1>1. AudioInv => CompletedHasAudio
  BY DEF AudioInv
<1>2. QED
  BY <1>1, AudioInvariant, PTL

-----------------------------------------------------------------------------
(***************************************************************************)
(* The limit of a point.                                                   *)
(***************************************************************************)
\* A job holds a place once it is completed, or once a worker that is still in time has
\* passed the check for it.
PastCheck == {"generate", "create", "upload", "update", "complete"}
HoldsPlace(j) == \/ status[j] = "completed"
                 \/ \E w \in Workers : InTime(w) /\ pc[w] \in PastCheck /\ current[w] = j
Places(p) == {j \in JobsAt(p) : HoldsPlace(j)}

\* Only finitely many jobs were ever inserted, and their places keep the limit.  The
\* completed jobs alone are no inductive invariant: two workers may be past the check.
Inserted == {j \in Jobs : status[j] # "absent"}
CapInv == IsFiniteSet(Inserted) /\ \A p \in POIs : Cardinality(Places(p)) < MaxSegments

\* Of a set of inserted jobs the cardinality is a number, and that of a smaller set is
\* no larger.
LEMMA FewJobs ==
  ASSUME IsFiniteSet(Inserted), NEW S \in SUBSET Inserted
  PROVE  IsFiniteSet(S) /\ Cardinality(S) \in Nat
  BY FS_Subset, FS_CardinalityType

\* A job that holds a place has been inserted and is an active one.
LEMMA PlacesActive == LeaseInv => \A p \in POIs : Places(p) \subseteq ActiveAt(p)
  BY DEF LeaseInv, LeaseHeld, Places, HoldsPlace, ActiveAt

\* Rows are only ever added by an inflate request.
LEMMA InsertedStep ==
  ASSUME LeaseInv, [Next]_vars
  PROVE  Inserted' = Inserted \/ \E j \in Jobs : Inserted' = Inserted \cup {j}
<1>0. status \in [Jobs -> Statuses]
  BY DEF LeaseInv, TypeOK, JobType
<1>1. ASSUME NEW j \in Jobs, CreateJob(j) PROVE Inserted' = Inserted \cup {j}
  BY <1>0, <1>1 DEF CreateJob, Inserted
<1>2. ASSUME NEW w \in Workers, NEW j \in Jobs, ClaimNextJob(w, j) PROVE Inserted' = Inserted
  BY <1>0, <1>2 DEF ClaimNextJob, ClaimedFirst, Claimable, Stale, Inserted
<1>3. ASSUME NEW w \in Workers, ReclaimStaleJobs(w) PROVE Inserted' = Inserted
  BY <1>0, <1>3 DEF ReclaimStaleJobs, Reset, StaleFor, SpentFor, Stale, Inserted
<1>4. ASSUME NEW w \in Workers, SetCompleted(w) \/ SetFailed(w) PROVE Inserted' = Inserted
  <2>1. InTime(w) /\ status[current[w]] = "running"
    BY <1>4 DEF SetCompleted, SetFailed, At, InTime, Busy, Processing, LeaseInv, LeaseHeld
  <2>2. PICK s \in {"completed", "failed"} : status' = [status EXCEPT ![current[w]] = s]
    BY <1>4 DEF SetCompleted, SetFailed
  <2> QED BY <1>0, <2>1, <2>2 DEF Inserted
<1>5. CASE UNCHANGED status
  BY <1>5 DEF Inserted
<1>6. ASSUME NEW w \in Workers,
             \/ StartWorker(w) \/ Crash(w) \/ Poll(w) \/ LeavePoll(w) \/ Heartbeat(w)
             \/ CallFails(w) \/ CheckLimit(w) \/ Generate(w) \/ CreateStory(w)
             \/ UploadAudio(w) \/ UpdateStory(w) \/ RemoveObject(w) \/ RemoveStory(w)
      PROVE  UNCHANGED status
  BY <1>6 DEF StartWorker, Crash, Poll, LeavePoll, EndPoll, Heartbeat, CallFails, CheckLimit,
              Generate, CreateStory, UploadAudio, UpdateStory, RemoveObject, RemoveStory, jobVars
<1>7. ASSUME \/ Tick \/ UNCHANGED vars \/ \E j \in Jobs : CheckRequest(j) PROVE UNCHANGED status
  BY <1>7 DEF Tick, vars, jobVars, CheckRequest
<1> QED BY <1>1, <1>2, <1>3, <1>4, <1>5, <1>6, <1>7 DEF Next, Work

\* A place is taken by passing the check and by nothing else.
LEMMA PlaceTaken ==
  ASSUME LeaseInv, [Next]_vars, NEW j \in Jobs, HoldsPlace(j)'
  PROVE  \/ HoldsPlace(j)
         \/ \E w \in Workers : CheckLimit(w) /\ current[w] = j /\ pc'[w] = "generate"
<1> DEFINE Stays(v) == InTime(v) /\ pc[v] \in PastCheck /\ current'[v] = current[v]
<1>0. status \in [Jobs -> Statuses] /\ TypeOK
  BY DEF LeaseInv, TypeOK, JobType
<1>1. CASE status'[j] = "completed"
  <2>1. status[j] = "completed" \/ \E w \in Workers : SetCompleted(w) /\ current[w] = j
    BY <1>1, CompletionCases
  <2> QED BY <2>1 DEF HoldsPlace, SetCompleted, At, InTime, Busy, Processing, PastCheck
<1>2. ASSUME NEW v \in Workers, InTime(v)', pc'[v] \in PastCheck, current'[v] = j
      PROVE  Stays(v) \/ (CheckLimit(v) /\ current[v] = j /\ pc'[v] = "generate")
  <2>1. ASSUME NEW w \in Workers,
               \/ CallFails(w) \/ CheckLimit(w) \/ Generate(w) \/ CreateStory(w)
               \/ UploadAudio(w) \/ UpdateStory(w) \/ RemoveObject(w) \/ RemoveStory(w)
        PROVE  Stays(v) \/ (CheckLimit(v) /\ current[v] = j /\ pc'[v] = "generate")
    <3>1. PICK l \in Labels : Busy(w) /\ Continue(w, l)
      BY <1>0, <2>1, CallContinues
    <3>2. InTime(v) /\ current'[v] = current[v] /\ (v = w => pc'[v] = l) /\ (v # w => pc'[v] = pc[v])
      BY <1>0, <1>2, <3>1, ContinueFrame
    <3>3. CASE v = w
      <4>1. pc[w] \in PastCheck \/ CheckLimit(w)
        <5>1. \A k \in Processing : OnError[k] \notin PastCheck
          BY DEF OnError, Processing, PastCheck
        <5>2. CASE CallFails(w)
          <6>1. pc'[w] = OnError[pc[w]]
            BY <1>0, <5>2 DEF CallFails, Continue, Goto, TypeOK, WorkerType
          <6> QED BY <1>2, <3>1, <3>3, <5>1, <6>1 DEF Busy
        <5>3. CASE RemoveObject(w) \/ RemoveStory(w)
          <6>1. pc'[w] \in {"rmstory", "fail"}
            BY <1>0, <5>3 DEF RemoveObject, RemoveStory, Continue, Goto, TypeOK, WorkerType
          <6> QED BY <1>2, <3>3, <6>1 DEF PastCheck
        <5>4. CASE Generate(w) \/ CreateStory(w) \/ UploadAudio(w) \/ UpdateStory(w)
          BY <5>4 DEF Generate, CreateStory, UploadAudio, UpdateStory, At, PastCheck
        <5> QED BY <2>1, <5>2, <5>3, <5>4
      <4>2. CASE CheckLimit(w)
        <5>1. pc'[w] \in {"fail", "generate"}
          BY <1>0, <4>2 DEF CheckLimit, Goto, TypeOK, WorkerType
        <5> QED BY <1>2, <3>2, <3>3, <4>2, <5>1 DEF PastCheck
      <4> QED BY <3>2, <3>3, <4>1, <4>2
    <3>4. CASE v # w
      BY <1>2, <3>2, <3>4
    <3> QED BY <3>3, <3>4
  <2>2. ASSUME NEW w \in Workers, SetCompleted(w) \/ SetFailed(w) PROVE Stays(v)
    <3>1. Busy(w) /\ Continue(w, "poll")
      BY <2>2 DEF SetCompleted, SetFailed, At, Busy, Processing
    <3> QED BY <1>0, <1>2, <3>1, ContinueFrame DEF Labels
  <2>3. ASSUME NEW w \in Workers,
               \/ StartWorker(w) \/ Crash(w) \/ Poll(w) \/ LeavePoll(w) \/ ReclaimStaleJobs(w)
               \/ \E i \in Jobs : ClaimNextJob(w, i)
        PROVE  Stays(v)
    <3>1. pc'[w] \notin PastCheck
      BY <1>0, <2>3 DEF TypeOK, WorkerType, StartWorker, Crash, Poll, LeavePoll, EndPoll,
                        ReclaimStaleJobs, ClaimNextJob, Goto, PastCheck
    <3>2. v # w => pc'[v] = pc[v] /\ current'[v] = current[v] /\ elapsed'[v] = elapsed[v]
      BY <1>0, <2>3 DEF TypeOK, WorkerType, StartWorker, Crash, Poll, LeavePoll, EndPoll,
                        ReclaimStaleJobs, ClaimNextJob, Goto, Forget
    <3> QED BY <1>2, <3>1, <3>2 DEF InTime, Busy, Expired
  <2>4. CASE Tick
    BY <1>0, <1>2, <2>4, IntervalAssumption DEF TypeOK, WorkerType, Tick, InTime, Busy, Expired
  <2>5. ASSUME \/ UNCHANGED vars
               \/ \E w \in Workers : Heartbeat(w)
               \/ \E i \in Jobs : CheckRequest(i) \/ CreateJob(i)
        PROVE  Stays(v)
    BY <1>2, <2>5 DEF vars, workerVars, Heartbeat, CheckRequest, CreateJob, InTime, Busy, Expired
  <2> QED BY <2>1, <2>2, <2>3, <2>4, <2>5 DEF Next, Work
<1> QED BY <1>1, <1>2 DEF HoldsPlace

\* Every step keeps the places within the limit: the check counted them all.
LEMMA CapStep == LeaseInv /\ CapInv /\ [Next]_vars => CapInv'
<1> SUFFICES ASSUME LeaseInv, CapInv, [Next]_vars PROVE CapInv' OBVIOUS
<1>1. IsFiniteSet(Inserted) /\ IsFiniteSet(Inserted')
  BY InsertedStep, FS_AddElement DEF CapInv
<1>2. ASSUME NEW p \in POIs PROVE Cardinality(Places(p)') < MaxSegments
  <2>0. ActiveAt(p) \subseteq Inserted /\ Places(p) \subseteq Inserted
    BY PlacesActive DEF ActiveAt, JobsAt, Inserted
  <2>1. /\ IsFiniteSet(ActiveAt(p)) /\ Cardinality(ActiveAt(p)) \in Nat
        /\ IsFiniteSet(Places(p)) /\ Cardinality(Places(p)) \in Nat
    BY <1>1, <2>0, FewJobs
  <2>2. CASE Places(p)' \subseteq Places(p)
    <3>1. Cardinality(Places(p)') <= Cardinality(Places(p)) /\ IsFiniteSet(Places(p)')
      BY <2>1, <2>2, FS_Subset
    <3>2. Cardinality(Places(p)') \in Nat
      BY <3>1, FS_CardinalityType
    <3> QED BY <2>1, <3>1, <3>2, CounterAssumption DEF CapInv
  <2>3. CASE ~(Places(p)' \subseteq Places(p))
    <3>1. PICK j \in JobsAt(p) : HoldsPlace(j)' /\ ~HoldsPlace(j)
      BY <2>3 DEF Places, JobsAt
    <3>2. PICK w \in Workers : CheckLimit(w) /\ current[w] = j /\ pc'[w] = "generate"
      BY <3>1, PlaceTaken DEF JobsAt
    <3>3. POIOf[j] = p /\ InTime(w)
      BY <3>1, <3>2 DEF JobsAt, CheckLimit, At, InTime, Busy, Processing
    <3>4. Cardinality(ActiveAt(p)) < MaxSegments
      <4>1. ~(Cardinality(ActiveAt(p)) >= MaxSegments)
        BY <3>2, <3>3 DEF CheckLimit, Goto, LeaseInv, TypeOK, WorkerType
      <4> QED BY <2>1, <4>1, CounterAssumption
    <3>5. Places(p)' \subseteq ActiveAt(p)
      <4>1. Places(p)' \subseteq ActiveAt(p)'
        <5>1. LeaseInv'
          BY LeaseStep
        <5> QED BY <5>1 DEF LeaseInv, LeaseHeld, Places, HoldsPlace, ActiveAt
      <4>2. ActiveAt(p)' = ActiveAt(p)
        BY <3>2 DEF CheckLimit, jobVars, ActiveAt
      <4> QED BY <4>1, <4>2
    <3>6. Cardinality(Places(p)') <= Cardinality(ActiveAt(p)) /\ IsFiniteSet(Places(p)')
      BY <2>1, <3>5, FS_Subset
    <3>7. Cardinality(Places(p)') \in Nat
      BY <3>6, FS_CardinalityType
    <3> QED BY <2>1, <3>4, <3>6, <3>7, CounterAssumption
  <2> QED BY <2>2, <2>3
<1> QED BY <1>1, <1>2 DEF CapInv

\* However many requests and workers check at the same time, a point gets fewer than
\* MaxSegments completed jobs.
THEOREM PointsKeepTheirLimit == Spec => []SegmentCap
<1>1. Init => CapInv
  <2> SUFFICES ASSUME Init PROVE CapInv OBVIOUS
  <2>1. Inserted = {} /\ \A p \in POIs : Places(p) = {}
    BY DEF Init, Inserted, Places, HoldsPlace, InTime, Busy, Processing, JobsAt
  <2> QED BY <2>1, FS_EmptySet, CounterAssumption DEF CapInv
<1>2. LeaseInv /\ CapInv => SegmentCap
  <2> SUFFICES ASSUME LeaseInv, CapInv, NEW p \in POIs
               PROVE  Cardinality({j \in JobsAt(p) : status[j] = "completed"}) < MaxSegments
    BY DEF SegmentCap
  <2>1. Places(p) \subseteq Inserted
    BY PlacesActive DEF ActiveAt, JobsAt, Inserted
  <2>2. IsFiniteSet(Places(p)) /\ Cardinality(Places(p)) \in Nat
    BY <2>1, FewJobs DEF CapInv
  <2>3. {j \in JobsAt(p) : status[j] = "completed"} \subseteq Places(p)
    BY DEF Places, HoldsPlace
  <2>4. /\ Cardinality({j \in JobsAt(p) : status[j] = "completed"}) <= Cardinality(Places(p))
        /\ IsFiniteSet({j \in JobsAt(p) : status[j] = "completed"})
    BY <2>2, <2>3, FS_Subset
  <2>5. Cardinality({j \in JobsAt(p) : status[j] = "completed"}) \in Nat
    BY <2>4, FS_CardinalityType
  <2> QED BY <2>2, <2>4, <2>5, CounterAssumption DEF CapInv
<1> QED BY <1>1, <1>2, CapStep, LeaseInvariant, PTL DEF Spec

-----------------------------------------------------------------------------
(***************************************************************************)
(* Compensation.                                                           *)
(***************************************************************************)
\* A story that is not kept: a row without its audio, or an object without its row.
Torn(s) == (s \in rows /\ s \notin linked) \/ (s \in objects /\ s \notin rows)

\* An attempt builds a story nobody has built before.
Numbered ==
    /\ \A j \in Jobs, a \in Nat : <<j, a>> \in rows \cup objects => a <= attempts[j]
    /\ \A w \in Workers : Busy(w) => try[w] <= attempts[current[w]]
    /\ \A v, w \in Workers : v # w /\ Busy(v) /\ Busy(w) => Story(v) # Story(w)

\* What the attempt has left behind so far, by the call it makes next, unless it was
\* disturbed; when it fails there is nothing left.
LeftAt(l, s) ==
    /\ l \in {"count", "generate", "create", "fail"} => s \notin rows /\ s \notin objects
    /\ l \in {"upload", "rmstory"} => s \notin objects
    /\ l = "complete" => s \in rows /\ s \in linked
    /\ l = "poll" => ~Torn(s)
Staged == \A w \in Workers : Busy(w) /\ Story(w) \notin disturbed => LeftAt(pc[w], Story(w))

Abandoned == \A s : Torn(s) => s \in disturbed \/ \E w \in Workers : Busy(w) /\ Story(w) = s

TraceInv == Numbered /\ Staged /\ Abandoned

\* A call of processJob: it is of one worker, it goes on to one label or returns, and it
\* changes that worker's story alone.
LEMMA CallEffects ==
  ASSUME LeaseInv, NEW w \in Workers,
         \/ CallFails(w) \/ CheckLimit(w) \/ Generate(w) \/ CreateStory(w)
         \/ UploadAudio(w) \/ UpdateStory(w) \/ RemoveObject(w) \/ RemoveStory(w)
         \/ SetCompleted(w) \/ SetFailed(w)
  PROVE  /\ Busy(w) /\ \E l \in Labels : Continue(w, l)
         /\ UNCHANGED attempts
         /\ disturbed' \in {disturbed, disturbed \cup {Story(w)}}
         /\ \A x : x # Story(w) => /\ x \in rows' <=> x \in rows
                                   /\ x \in linked' <=> x \in linked
                                   /\ x \in objects' <=> x \in objects
         /\ rows' \cup objects' \subseteq rows \cup objects \cup {Story(w)}
<1>1. CASE SetCompleted(w) \/ SetFailed(w)
  BY <1>1 DEF SetCompleted, SetFailed, At, Busy, Processing, Labels, storyVars
<1>2. CASE \/ CallFails(w) \/ CheckLimit(w) \/ Generate(w) \/ CreateStory(w)
           \/ UploadAudio(w) \/ UpdateStory(w) \/ RemoveObject(w) \/ RemoveStory(w)
  <2>1. Busy(w) /\ \E l \in Labels : Continue(w, l)
    BY <1>2, CallContinues DEF LeaseInv
  <2>2. UNCHANGED attempts
    BY <1>2 DEF CallFails, CheckLimit, Generate, CreateStory, UploadAudio, UpdateStory,
                RemoveObject, RemoveStory, jobVars
  <2>3. disturbed' \in {disturbed, disturbed \cup {Story(w)}}
    BY <1>2 DEF CallFails, CheckLimit, Generate, CreateStory, UploadAudio, UpdateStory,
                RemoveObject, RemoveStory, Answer
  <2>4. /\ \A x : x # Story(w) => /\ x \in rows' <=> x \in rows
                                  /\ x \in linked' <=> x \in linked
                                  /\ x \in objects' <=> x \in objects
        /\ rows' \cup objects' \subseteq rows \cup objects \cup {Story(w)}
    BY <1>2 DEF CallFails, CheckLimit, Generate, CreateStory, UploadAudio, UpdateStory,
                RemoveObject, RemoveStory, storyVars
  <2> QED BY <2>1, <2>2, <2>3, <2>4
<1> QED BY <1>1, <1>2

\* It goes on to another call or returns to the loop.
LEMMA CallLabel ==
  ASSUME TypeOK, NEW w \in Workers, NEW l \in Labels, Continue(w, l), Busy(w),
         \/ CallFails(w) \/ CheckLimit(w) \/ Generate(w) \/ CreateStory(w)
         \/ UploadAudio(w) \/ UpdateStory(w) \/ RemoveObject(w) \/ RemoveStory(w)
         \/ SetCompleted(w) \/ SetFailed(w)
  PROVE  l \in Processing \cup {"poll"}
<1>1. pc'[w] = l /\ \A k : Continue(w, k) => pc'[w] = k
  BY DEF Continue, Goto, TypeOK, WorkerType
<1>2. OnError[pc[w]] \in Processing \cup {"poll"}
  BY DEF OnError, Busy, Processing
<1>3. CASE CallFails(w)
  BY <1>1, <1>2, <1>3 DEF CallFails
<1>4. CASE CheckLimit(w) \/ Generate(w)
  BY <1>1, <1>4 DEF CheckLimit, Generate, Goto, TypeOK, WorkerType, Processing
<1>5. CASE CreateStory(w) \/ UploadAudio(w) \/ UpdateStory(w)
  BY <1>1, <1>2, <1>5 DEF CreateStory, UploadAudio, UpdateStory, Answer, Processing
<1>6. CASE RemoveObject(w) \/ RemoveStory(w) \/ SetCompleted(w) \/ SetFailed(w)
  BY <1>1, <1>6 DEF RemoveObject, RemoveStory, SetCompleted, SetFailed, Processing
<1> QED BY <1>3, <1>4, <1>5, <1>6

\* What it leaves behind fits the label it goes on to, or the attempt is disturbed.
LEMMA CallLeaves ==
  ASSUME LeaseInv, StoryHeld, Staged, NEW w \in Workers, NEW l \in Labels, Continue(w, l),
         NEW s, s = Story(w),
         \/ CallFails(w) \/ CheckLimit(w) \/ Generate(w) \/ CreateStory(w)
         \/ UploadAudio(w) \/ UpdateStory(w) \/ RemoveObject(w) \/ RemoveStory(w)
         \/ SetCompleted(w) \/ SetFailed(w)
  PROVE  s \in disturbed' \/ LeftAt(l, s)'
<1>0. pc' = [pc EXCEPT ![w] = l] /\ pc \in [Workers -> Labels] /\ pc'[w] = l
  BY DEF Continue, Goto, LeaseInv, TypeOK, WorkerType
<1>1. Busy(w) /\ disturbed' \in {disturbed, disturbed \cup {s}}
  BY CallEffects
<1> SUFFICES ASSUME s \notin disturbed'
             PROVE  /\ l \in {"count", "generate", "create", "fail"} => s \notin rows' /\ s \notin objects'
                    /\ l \in {"upload", "rmstory"} => s \notin objects'
                    /\ l = "complete" => s \in rows' /\ s \in linked'
                    /\ l = "poll" => ~((s \in rows' /\ s \notin linked') \/ (s \in objects' /\ s \notin rows'))
  BY DEF LeftAt, Torn
<1>2. s \notin disturbed /\ LeftAt(pc[w], s)
  BY <1>1 DEF Staged
<1>3. \A k : Continue(w, k) => k = l
  BY <1>0 DEF Continue, Goto, LeaseInv, TypeOK, WorkerType
<1>4. CASE CallFails(w)
  <2>1. l = OnError[pc[w]] /\ pc[w] \notin {"rmobject", "rmstory"} /\ UNCHANGED storyVars
    BY <1>3, <1>4 DEF CallFails
  <2>2. pc[w] \in {"count", "generate", "create"} => l = "fail"
    BY <1>1, <2>1 DEF OnError, Busy
  <2>3. pc[w] = "upload" => l = "rmstory"
    BY <1>1, <2>1 DEF OnError, Busy
  <2>4. pc[w] = "update" => l = "rmobject"
    BY <1>1, <2>1 DEF OnError, Busy
  <2>5. pc[w] \in {"complete", "fail"} => l = "poll"
    BY <1>1, <2>1 DEF OnError, Busy
  <2> QED BY <1>1, <1>2, <2>1, <2>2, <2>3, <2>4, <2>5 DEF LeftAt, Busy, Processing, storyVars
<1>5. CASE CheckLimit(w) \/ Generate(w)
  <2>1. l \in {"fail", "generate", "create"} /\ pc[w] \in {"count", "generate"} /\ UNCHANGED storyVars
    BY <1>0, <1>5 DEF CheckLimit, Generate, At, Goto
  <2> QED BY <1>2, <2>1 DEF LeftAt, storyVars
<1>6. CASE CreateStory(w)
  <2>1. l = "upload" /\ pc[w] = "create" /\ UNCHANGED objects
    BY <1>3, <1>6 DEF CreateStory, At, Answer
  <2> QED BY <1>2, <2>1 DEF LeftAt
<1>7. CASE UploadAudio(w)
  BY <1>3, <1>7 DEF UploadAudio, At, Answer
<1>8. CASE UpdateStory(w)
  <2>1. l = "complete" /\ linked' = linked \cup {s} /\ UNCHANGED rows /\ At(w, "update")
    BY <1>3, <1>8 DEF UpdateStory, Answer
  <2>2. s \in rows
    BY <2>1 DEF StoryHeld, At, InTime, Busy, Processing
  <2> QED BY <2>1, <2>2
<1>9. CASE SetCompleted(w)
  <2>1. l = "poll" /\ pc[w] = "complete" /\ UNCHANGED storyVars
    BY <1>3, <1>9 DEF SetCompleted, At, storyVars
  <2> QED BY <1>2, <2>1 DEF LeftAt, storyVars
<1>10. CASE RemoveObject(w)
  BY <1>3, <1>10 DEF RemoveObject
<1>11. CASE RemoveStory(w)
  <2>1. l = "fail" /\ pc[w] = "rmstory" /\ rows' = rows \ {s} /\ UNCHANGED objects
    BY <1>3, <1>11 DEF RemoveStory, At
  <2> QED BY <1>2, <2>1 DEF LeftAt
<1>12. CASE SetFailed(w)
  <2>1. l = "poll" /\ pc[w] = "fail" /\ UNCHANGED storyVars
    BY <1>3, <1>12 DEF SetFailed, At, storyVars
  <2> QED BY <1>2, <2>1 DEF LeftAt, storyVars
<1> QED BY <1>4, <1>5, <1>6, <1>7, <1>8, <1>9, <1>10, <1>11, <1>12

\* So every call keeps the trace of the attempts.
LEMMA TraceCall ==
  ASSUME LeaseInv, StoryHeld, TraceInv, NEW w \in Workers,
         \/ CallFails(w) \/ CheckLimit(w) \/ Generate(w) \/ CreateStory(w)
         \/ UploadAudio(w) \/ UpdateStory(w) \/ RemoveObject(w) \/ RemoveStory(w)
         \/ SetCompleted(w) \/ SetFailed(w)
  PROVE  TraceInv'
<1> PICK s : s = Story(w)
  OBVIOUS
<1>0. TypeOK /\ Numbered /\ Staged /\ Abandoned
  BY DEF LeaseInv, TraceInv
<1>1. PICK l \in Labels : Busy(w) /\ Continue(w, l)
  BY CallEffects
<1>2. /\ UNCHANGED attempts /\ disturbed' \in {disturbed, disturbed \cup {s}}
      /\ \A x : x # s => /\ x \in rows' <=> x \in rows
                         /\ x \in linked' <=> x \in linked
                         /\ x \in objects' <=> x \in objects
      /\ rows' \cup objects' \subseteq rows \cup objects \cup {s}
  BY CallEffects
<1>3. s \in disturbed' \/ LeftAt(l, s)'
  BY <1>0, <1>1, CallLeaves
<1>4. /\ pc'[w] = l
      /\ l # "poll" => Story(w)' = s /\ current'[w] = current[w] /\ try'[w] = try[w]
      /\ \A v \in Workers \ {w} : /\ pc'[v] = pc[v] /\ current'[v] = current[v] /\ try'[v] = try[v]
  BY <1>0, <1>1 DEF Continue, Goto, Forget, TypeOK, WorkerType, Story
<1>5. /\ Busy(w)' => l # "poll"
      /\ \A v \in Workers : Busy(v)' => Busy(v) /\ Story(v)' = Story(v) /\ current'[v] = current[v]
                                        /\ try'[v] = try[v]
  BY <1>1, <1>4 DEF Busy, Processing, Story
<1>6. Numbered'
  <2>1. s = <<current[w], try[w]>> /\ try[w] <= attempts[current[w]]
    BY <1>0, <1>1 DEF Numbered, Story
  <2>2. \A j \in Jobs, a \in Nat : <<j, a>> \in rows' \cup objects' => a <= attempts'[j]
    <3> SUFFICES ASSUME NEW j \in Jobs, NEW a \in Nat, <<j, a>> \in rows' \cup objects'
                 PROVE  a <= attempts[j]
      BY <1>2
    <3>1. CASE <<j, a>> = s
      BY <2>1, <3>1
    <3>2. CASE <<j, a>> # s
      BY <1>0, <1>2, <3>2 DEF Numbered
    <3> QED BY <3>1, <3>2
  <2> QED BY <1>0, <1>2, <1>5, <2>2 DEF Numbered
<1>7. Staged'
  <2> SUFFICES ASSUME NEW v \in Workers, Busy(v)', Story(v)' \notin disturbed'
               PROVE  LeftAt(pc[v], Story(v))'
    BY DEF Staged
  <2>1. CASE v = w
    BY <1>3, <1>4, <1>5, <2>1 DEF LeftAt, Torn
  <2>2. CASE v # w
    <3>1. Story(v) # s /\ Story(v) \notin disturbed /\ Busy(v)
      BY <1>0, <1>1, <1>2, <1>5, <2>2 DEF Numbered
    <3>2. LeftAt(pc[v], Story(v)) /\ pc'[v] = pc[v] /\ Story(v)' = Story(v)
      BY <1>0, <1>4, <1>5, <2>2, <3>1 DEF Staged
    <3> QED BY <1>2, <3>1, <3>2 DEF LeftAt, Torn
  <2> QED BY <2>1, <2>2
<1>8. Abandoned'
  <2> SUFFICES ASSUME NEW x, Torn(x)', x \notin disturbed'
               PROVE  \E v \in Workers : Busy(v)' /\ Story(v)' = x
    BY DEF Abandoned
  <2>1. CASE x = s
    <3>1. l # "poll"
      BY <1>3, <2>1 DEF LeftAt
    <3>2. Busy(w)'
      <4>1. l \in Processing
        BY <1>0, <1>1, <3>1, CallLabel
      <4> QED BY <1>4, <4>1 DEF Busy
    <3> QED BY <1>5, <2>1, <3>2
  <2>2. CASE x # s
    <3>1. Torn(x) /\ x \notin disturbed
      BY <1>2, <2>2 DEF Torn
    <3>2. PICK v \in Workers : Busy(v) /\ Story(v) = x
      BY <1>0, <3>1 DEF Abandoned
    <3>3. v # w /\ Busy(v)' /\ Story(v)' = Story(v)
      BY <1>4, <2>2, <3>2 DEF Busy, Story
    <3> QED BY <3>2, <3>3
  <2> QED BY <2>1, <2>2
<1> QED BY <1>6, <1>7, <1>8 DEF TraceInv

\* A claim begins an attempt of its own: no worker and no row has its number.
LEMMA TraceClaim ==
  ASSUME LeaseInv, TraceInv, NEW w \in Workers, NEW j \in Jobs, ClaimNextJob(w, j)
  PROVE  TraceInv'
<1>0. TypeOK /\ Numbered /\ Staged /\ Abandoned /\ ~Busy(w) /\ attempts[j] \in Nat
  BY DEF LeaseInv, TraceInv, ClaimNextJob, Busy, Processing, TypeOK, JobType
<1>1. /\ attempts' = [attempts EXCEPT ![j] = attempts[j] + 1]
      /\ UNCHANGED <<rows, linked, objects, disturbed>>
      /\ \A v \in Workers \ {w} : pc'[v] = pc[v] /\ current'[v] = current[v] /\ try'[v] = try[v]
  BY <1>0 DEF ClaimNextJob, Goto, TypeOK, WorkerType, storyVars
<1>2. Busy(w)' => pc'[w] = "count" /\ current'[w] = j /\ try'[w] = attempts[j] + 1
  BY <1>0 DEF ClaimNextJob, Goto, TypeOK, WorkerType, Busy, Processing
<1>3. \A i \in Jobs : /\ attempts[i] \in Nat /\ attempts'[i] \in Nat /\ attempts[i] <= attempts'[i]
                      /\ attempts'[j] = attempts[j] + 1
  BY <1>0, <1>1 DEF TypeOK, JobType
<1>4. \A v \in Workers \ {w} : /\ (Busy(v)' <=> Busy(v)) /\ Story(v)' = Story(v)
                               /\ current[v] \in Jobs /\ try[v] \in Nat
  BY <1>0, <1>1 DEF Busy, Story, TypeOK, WorkerType
<1>5. Numbered'
  <2>1. \A i \in Jobs, a \in Nat : <<i, a>> \in rows' \cup objects' => a <= attempts'[i]
    BY <1>0, <1>1, <1>3 DEF Numbered
  <2>2. \A v \in Workers : Busy(v)' => try'[v] <= attempts'[current'[v]]
    <3>1. \A v \in Workers \ {w} : Busy(v) => try[v] <= attempts[current[v]]
      BY <1>0 DEF Numbered
    <3> QED BY <1>1, <1>2, <1>3, <1>4, <3>1
  <2>3. \A v \in Workers \ {w} : Busy(v) /\ Busy(w)' => Story(v) # <<j, attempts[j] + 1>>
    <3> SUFFICES ASSUME NEW v \in Workers \ {w}, Busy(v), current[v] = j, try[v] = attempts[j] + 1
                 PROVE  FALSE
      BY DEF Story
    <3> QED BY <1>0, <1>3 DEF Numbered
  <2>4. \A u, v \in Workers : u # v /\ Busy(u)' /\ Busy(v)' => Story(u)' # Story(v)'
    <3>1. Busy(w)' => Story(w)' = <<j, attempts[j] + 1>>
      BY <1>2 DEF Story
    <3>2. \A u, v \in Workers : u # v /\ Busy(u) /\ Busy(v) => Story(u) # Story(v)
      BY <1>0 DEF Numbered
    <3> QED BY <1>4, <2>3, <3>1, <3>2
  <2> QED BY <2>1, <2>2, <2>4 DEF Numbered
<1>6. Staged'
  <2>1. \A v \in Workers \ {w} : Busy(v)' /\ Story(v)' \notin disturbed' => LeftAt(pc[v], Story(v))'
    BY <1>0, <1>1, <1>4 DEF Staged, LeftAt, Torn
  <2>2. Busy(w)' => LeftAt(pc[w], Story(w))'
    <3> SUFFICES ASSUME Busy(w)' PROVE LeftAt(pc[w], Story(w))'
      OBVIOUS
    <3>1. Story(w)' = <<j, attempts[j] + 1>> /\ pc'[w] = "count"
      BY <1>2 DEF Story
    <3>2. <<j, attempts[j] + 1>> \notin rows \cup objects
      BY <1>0, <1>3 DEF Numbered
    <3> QED BY <1>1, <3>1, <3>2 DEF LeftAt
  <2> QED BY <2>1, <2>2 DEF Staged
<1>7. Abandoned'
  <2> SUFFICES ASSUME NEW x, Torn(x)', x \notin disturbed'
               PROVE  \E v \in Workers : Busy(v)' /\ Story(v)' = x
    BY DEF Abandoned
  <2>1. Torn(x) /\ x \notin disturbed
    BY <1>1 DEF Torn
  <2>2. PICK v \in Workers : Busy(v) /\ Story(v) = x
    BY <1>0, <2>1 DEF Abandoned
  <2>3. v # w
    BY <1>0, <2>2
  <2> QED BY <1>4, <2>2, <2>3
<1> QED BY <1>5, <1>6, <1>7 DEF TraceInv

\* A crash disturbs the attempt of its worker.
LEMMA TraceCrash ==
  ASSUME LeaseInv, TraceInv, NEW w \in Workers, Crash(w)
  PROVE  TraceInv'
<1>0. TypeOK /\ Numbered /\ Staged /\ Abandoned
  BY DEF LeaseInv, TraceInv
<1>1. /\ UNCHANGED <<attempts, rows, linked, objects>> /\ ~Busy(w)'
      /\ disturbed \subseteq disturbed' /\ (Busy(w) => Story(w) \in disturbed')
      /\ \A v \in Workers \ {w} : pc'[v] = pc[v] /\ current'[v] = current[v] /\ try'[v] = try[v]
  BY <1>0 DEF Crash, Goto, Forget, TypeOK, WorkerType, Busy, Processing, jobVars, storyVars
<1>2. \A v \in Workers \ {w} : (Busy(v)' <=> Busy(v)) /\ Story(v)' = Story(v)
  BY <1>1 DEF Busy, Story
<1>3. Numbered' /\ Staged'
  BY <1>0, <1>1, <1>2 DEF Numbered, Staged, LeftAt, Torn
<1>4. Abandoned'
  BY <1>0, <1>1, <1>2 DEF Abandoned, Torn
<1> QED BY <1>3, <1>4 DEF TraceInv

\* Whatever is done beside processJob leaves the attempts alone.
LEMMA TraceBeside ==
  ASSUME LeaseInv, TraceInv,
         \/ UNCHANGED vars \/ Tick \/ \E j \in Jobs : CheckRequest(j) \/ CreateJob(j)
         \/ \E w \in Workers : StartWorker(w) \/ Poll(w) \/ LeavePoll(w) \/ ReclaimStaleJobs(w) \/ Heartbeat(w)
  PROVE  TraceInv'
<1>0. pc \in [Workers -> Labels]
  BY DEF LeaseInv, TypeOK, WorkerType
<1>1. UNCHANGED <<attempts, rows, linked, objects, disturbed, current, try>>
  BY DEF vars, Tick, CheckRequest, CreateJob, StartWorker, Poll, LeavePoll, EndPoll,
         ReclaimStaleJobs, Heartbeat, jobVars, workerVars, storyVars
<1>2. \A v \in Workers : (Busy(v)' <=> Busy(v)) /\ (Busy(v) => pc'[v] = pc[v])
  <2>1. ASSUME NEW w \in Workers, StartWorker(w) \/ Poll(w) \/ LeavePoll(w) \/ ReclaimStaleJobs(w)
        PROVE  \A v \in Workers : (Busy(v)' <=> Busy(v)) /\ (Busy(v) => pc'[v] = pc[v])
    BY <1>0, <2>1 DEF StartWorker, Poll, LeavePoll, EndPoll, ReclaimStaleJobs, Goto, Busy, Processing
  <2> QED BY <2>1 DEF vars, Tick, CheckRequest, CreateJob, Heartbeat, workerVars, Busy
<1> QED BY <1>1, <1>2 DEF TraceInv, Numbered, Staged, Abandoned, Story, LeftAt, Torn

\* An attempt whose only failure was one clean call error leaves nothing torn behind.
THEOREM NothingTorn == Spec => []CompensationComplete
<1>1. Init => TraceInv
  BY DEF Init, TraceInv, Numbered, Staged, Abandoned, Torn, Busy, Processing
<1>2. LeaseInv /\ AudioInv /\ TraceInv /\ [Next]_vars => TraceInv'
  BY TraceCall, TraceClaim, TraceCrash, TraceBeside DEF AudioInv, Next, Work
<1>3. TraceInv => CompensationComplete
  BY DEF TraceInv, Abandoned, Torn, CompensationComplete
<1> QED BY <1>1, <1>2, <1>3, LeaseInvariant, AudioInvariant, PTL DEF Spec

\* Whatever way a job ends, its story is whole or gone.
THEOREM StoriesWholeOrGone == Spec => []StoriesWhole
<1>1. CompletedHasAudio /\ CompensationComplete => StoriesWhole
  BY DEF StoriesWhole
<1> QED BY <1>1, CompletedAudio, NothingTorn, PTL
=============================================================================
