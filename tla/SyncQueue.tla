----------------------------- MODULE SyncQueue -----------------------------
(***************************************************************************)
(* The offline queue of the mobile app: the interceptor that turns a       *)
(* mutation the network refused into a row of sync_queue, the connectivity *)
(* monitor, the processing loop that replays the rows, the change of the   *)
(* session, and the death of the app's process between any two steps.      *)
(*                                                                         *)
(* One JavaScript thread and one SQLite connection: statements take effect *)
(* one by one, and handlers interleave at their awaits.                    *)
(*                                                                         *)
(* A body reaches enqueue as the JSON text axios has made of it, so the    *)
(* look for a listening queued within the last minute (`typeof             *)
(* body.story_id') is skipped for every request: enqueue counts, inserts.  *)
(***************************************************************************)
EXTENDS Naturals, Sequences, FiniteSets

CONSTANTS Events,       \* mutations of a queueable endpoint the app performs
          MaxRetry,     \* MAX_RETRY_COUNT
          MaxQueue,     \* MAX_QUEUE_SIZE
          MaxSessions, MaxKills, MaxFaults,     \* model bounds: of each, and
          MaxTroubles                           \* of the three together

ASSUME EventAssumption == IsFiniteSet(Events)
ASSUME LimitAssumption == MaxRetry \in Nat \ {0} /\ MaxQueue \in Nat \ {0}
ASSUME BoundAssumption == {MaxSessions, MaxKills, MaxFaults, MaxTroubles} \subseteq Nat

VARIABLES
    req,      \* [Events -> Stages], where the request of an event is
    session,  \* the session whose token the client holds
    app,      \* "opening" until initSyncQueue is done, then "open"
    up,       \* the network is reachable, as NetInfo reports it
    timer,    \* the debounce timer of the monitor is set
    ids,      \* sequence of the events ever inserted, in the order of created_at
    rows,     \* events that have a row
    tries,    \* [Events -> Nat], the retry_count column
    loop,     \* where processQueue is; "off" when `processing' is FALSE
    item,     \* [Events], the item of the loop
    todo,     \* items of the loop's snapshot still to come
    seen,     \* [Events -> Nat], times the server performed the event
    asked,    \* [Events -> Nat], times the loop sent it
    lost,     \* [Events -> Nat], times the server performed it and the answer was lost
    cleared,  \* events whose row clearAll deleted
    widest,   \* the most calls of enqueue that were under way at once
    kills, faults

tableVars   == <<ids, rows, tries>>
loopVars    == <<loop, item, todo>>
serverVars  == <<seen, lost>>
countVars   == <<kills, faults>>
vars == <<req, session, app, up, timer, tableVars, loopVars, serverVars,
          asked, cleared, widest, countVars>>

Enqueueing == {"count", "insert"}
Taken      == {"queued", "stored"}     \* in the table, and what the caller is told
Answered   == {"ok", "refused", "failed"} \cup Taken
Stages     == {"new", "sent"} \cup Enqueueing \cup Answered
LoopStages == {"off", "send", "delete", "bump", "sleep"}

Init ==
    /\ req = [e \in Events |-> "new"]
    /\ session = 0 /\ app = "opening" /\ up \in BOOLEAN /\ timer = FALSE
    /\ ids = <<>> /\ rows = {} /\ tries = [e \in Events |-> 0]
    /\ loop = "off" /\ item \in Events /\ todo = {}
    /\ seen = [e \in Events |-> 0] /\ asked = [e \in Events |-> 0]
    /\ lost = [e \in Events |-> 0]
    /\ cleared = {} /\ widest = 0 /\ kills = 0 /\ faults = 0

Room  == session + kills + faults < MaxTroubles
Fault == Room /\ faults < MaxFaults /\ faults' = faults + 1

Goto(e, stage) == req' = [req EXCEPT ![e] = stage]

\* The server performs event e.
Perform(e) == seen' = [seen EXCEPT ![e] = @ + 1]

-----------------------------------------------------------------------------
(***************************************************************************)
(* A mutation and the interceptor of its error.                            *)
(***************************************************************************)
Request(e) ==
    /\ req[e] = "new"
    /\ Goto(e, "sent")
    /\ UNCHANGED <<session, app, up, timer, tableVars, loopVars, serverVars,
                   asked, cleared, widest, countVars>>

\* The server answers, with success or with an error status.
ServerAnswers(e) ==
    /\ req[e] = "sent" /\ up
    /\ \/ Goto(e, "ok") /\ Perform(e)
       \/ Goto(e, "failed") /\ UNCHANGED seen
    /\ UNCHANGED <<session, app, up, timer, tableVars, loopVars, lost,
                   asked, cleared, widest, countVars>>

Larger(m, n) == IF m < n THEN n ELSE m

\* No answer: the request, or only its answer, was lost.  Without a handler
\* the error goes to the caller.
NetworkError(e) ==
    /\ req[e] = "sent"
    /\ IF app = "open"
       THEN /\ Goto(e, "count")
            /\ widest' = Larger(widest, Cardinality({d \in Events : req'[d] \in Enqueueing}))
       ELSE Goto(e, "failed") /\ UNCHANGED widest
    /\ \/ UNCHANGED serverVars
       \/ up /\ Perform(e) /\ lost' = [lost EXCEPT ![e] = @ + 1]
    /\ UNCHANGED <<session, app, up, timer, tableVars, loopVars, asked,
                   cleared, countVars>>

\* Mutant: one row too many.
IsOverfull == Cardinality(rows) > MaxQueue

IsFull == Cardinality(rows) >= MaxQueue

\* enqueue, one statement at a time.  A full queue refuses the mutation, which
\* the interceptor passes over: its caller gets the answer of a queued one.
CountRows(e) ==
    /\ req[e] = "count"
    /\ Goto(e, IF IsFull THEN "refused" ELSE "insert")
    /\ UNCHANGED <<session, app, up, timer, tableVars, loopVars,
                   serverVars, asked, cleared, widest, countVars>>

\* The count of the rows for the badge, after the insertion, may throw: the
\* caller gets an error although the row is in.
InsertRow(e) ==
    /\ req[e] = "insert"
    /\ ids' = Append(ids, e) /\ rows' = rows \cup {e}
    /\ \/ Goto(e, "queued") /\ UNCHANGED faults
       \/ Goto(e, "stored") /\ Fault
    /\ UNCHANGED <<session, app, up, timer, tries, loopVars, serverVars,
                   asked, cleared, widest, kills>>

\* A statement of enqueue throws: the caller gets the error.
EnqueueFails(e) ==
    /\ req[e] \in Enqueueing /\ Fault
    /\ Goto(e, "failed")
    /\ UNCHANGED <<session, app, up, timer, tableVars, loopVars,
                   serverVars, asked, cleared, widest, kills>>

Earlier(d, e) == \E i, k \in DOMAIN ids : i < k /\ ids[i] = d /\ ids[k] = e

-----------------------------------------------------------------------------
(***************************************************************************)
(* Connectivity, and the loop that replays the snapshot.                   *)
(***************************************************************************)
GoOffline ==
    /\ up /\ up' = FALSE
    /\ UNCHANGED <<req, session, app, timer, tableVars, loopVars,
                   serverVars, asked, cleared, widest, countVars>>

\* The monitor sees the change if it was started; it (re)starts its timer.
GoOnline ==
    /\ ~up /\ up' = TRUE
    /\ timer' = (app = "open")
    /\ UNCHANGED <<req, session, app, tableVars, loopVars, serverVars,
                   asked, cleared, widest, countVars>>

\* The head of the loops over items and over retries.
Proceed(items) ==
    LET rest == {e \in items : tries[e] < MaxRetry}
    IN  \/ rest = {} /\ loop' = "off" /\ todo' = {} /\ UNCHANGED item
        \/ /\ rest # {} /\ loop' = "send"
           /\ item' \in {e \in rest : \A d \in rest : ~Earlier(d, e)}
           /\ todo' = rest \ {item'}

\* The timer's callback: without effect while another loop is processing.
TimerFires ==
    /\ timer /\ timer' = FALSE
    /\ IF loop = "off" THEN Proceed(rows) ELSE UNCHANGED loopVars
    /\ UNCHANGED <<req, session, app, up, tableVars, serverVars, asked,
                   cleared, widest, countVars>>

\* sendQueuedRequest puts the current token on the request.
Send ==
    /\ loop = "send"
    /\ asked' = [asked EXCEPT ![item] = @ + 1]
    /\ \/ up /\ Perform(item) /\ loop' = "delete" /\ UNCHANGED lost
       \/ up /\ Perform(item) /\ loop' = "bump"
             /\ lost' = [lost EXCEPT ![item] = @ + 1]
       \/ loop' = "bump" /\ UNCHANGED serverVars
    /\ UNCHANGED <<req, session, app, up, timer, tableVars, item, todo,
                   cleared, widest, countVars>>

\* Mutant: the row stays.
RemoveNothing == UNCHANGED rows
RemoveItem == rows' = rows \ {item}

\* Sent: the row goes.  A DELETE that throws lands in the catch of the send.
DeleteSent ==
    /\ loop = "delete"
    /\ \/ RemoveItem /\ Proceed(todo) /\ UNCHANGED faults
       \/ Fault /\ loop' = "bump" /\ UNCHANGED <<item, todo, rows>>
    /\ UNCHANGED <<req, session, app, up, timer, ids, tries, serverVars,
                   asked, cleared, widest, kills>>

\* Mutants: given up one retry late, or early; the retry is not counted.
SpentLate(n) == n + 1 > MaxRetry
SpentEarly(n) == n + 2 >= MaxRetry
CountNothing == UNCHANGED tries

Spent(n) == n + 1 >= MaxRetry
CountRetry == tries' = [tries EXCEPT ![item] = @ + 1]

Bump ==
    /\ loop = "bump"
    /\ IF Spent(tries[item])
       THEN RemoveItem /\ Proceed(todo) /\ UNCHANGED tries
       ELSE /\ CountRetry /\ loop' = "sleep"
            /\ UNCHANGED <<item, todo, rows>>
    /\ UNCHANGED <<req, session, app, up, timer, ids, serverVars, asked,
                   cleared, widest, countVars>>

\* The DELETE or UPDATE of the catch throws: processQueue rejects, and its
\* finally lets the next timer start another loop.
BumpFails ==
    /\ loop = "bump" /\ Fault
    /\ loop' = "off" /\ todo' = {} /\ UNCHANGED item
    /\ UNCHANGED <<req, session, app, up, timer, tableVars, serverVars,
                   asked, cleared, widest, kills>>

\* The backoff is over.
Wake ==
    /\ loop = "sleep"
    /\ IF tries[item] < MaxRetry
       THEN loop' = "send" /\ UNCHANGED <<item, todo>> ELSE Proceed(todo)
    /\ UNCHANGED <<req, session, app, up, timer, tableVars, serverVars,
                   asked, cleared, widest, countVars>>

-----------------------------------------------------------------------------
(***************************************************************************)
(* Session changes, and the process.                                       *)
(***************************************************************************)
\* clearAll throws, unheard, before init is done.
SwitchUser ==
    /\ Room /\ session < MaxSessions /\ session' = session + 1
    /\ IF app = "open"
       THEN rows' = {} /\ cleared' = cleared \cup rows
       ELSE UNCHANGED <<rows, cleared>>
    /\ UNCHANGED <<req, app, up, timer, ids, tries, loopVars, serverVars,
                   asked, widest, countVars>>

OpenQueue ==
    /\ app = "opening" /\ app' = "open"
    /\ UNCHANGED <<req, session, up, timer, tableVars, loopVars,
                   serverVars, asked, cleared, widest, countVars>>

\* The process dies: what is not in the database is gone.
Kill ==
    /\ Room /\ kills < MaxKills /\ kills' = kills + 1
    /\ app' = "opening" /\ timer' = FALSE
    /\ loop' = "off" /\ todo' = {} /\ UNCHANGED item
    /\ req' = [e \in Events |->
                 IF req[e] \in {"sent"} \cup Enqueueing THEN "failed" ELSE req[e]]
    /\ UNCHANGED <<session, up, tableVars, serverVars, asked, cleared,
                   widest, faults>>

-----------------------------------------------------------------------------
Handle(e) == \/ ServerAnswers(e) \/ NetworkError(e) \/ CountRows(e)
             \/ InsertRow(e) \/ EnqueueFails(e)
Process == Send \/ DeleteSent \/ Bump \/ BumpFails \/ Wake

Next == \/ \E e \in Events : Request(e) \/ Handle(e)
        \/ GoOffline \/ GoOnline \/ TimerFires \/ Process
        \/ SwitchUser \/ OpenQueue \/ Kill

Spec == Init /\ [][Next]_vars

\* The queue opens, awaited calls of the loop and timers come, and the network
\* goes and comes back again and again, often enough for longer than the debounce.
FairSpec ==
    /\ Spec /\ WF_vars(Process) /\ WF_vars(OpenQueue \/ TimerFires)
    /\ WF_vars(GoOffline \/ GoOnline)

-----------------------------------------------------------------------------
RequestType == /\ req \in [Events -> Stages]
               /\ session \in 0..MaxSessions /\ app \in {"opening", "open"}
FlagType    == up \in BOOLEAN /\ timer \in BOOLEAN /\ widest \in Nat
TableType   == /\ ids \in Seq(Events) /\ rows \subseteq Events
               /\ tries \in [Events -> 0..(MaxRetry - 1)]
LoopType    == loop \in LoopStages /\ item \in Events /\ todo \subseteq Events
ServerType  == /\ seen \in [Events -> Nat] /\ asked \in [Events -> Nat]
               /\ lost \in [Events -> Nat]
               /\ cleared \subseteq Events
CountType   == kills \in 0..MaxKills /\ faults \in 0..MaxFaults

TypeOK == RequestType /\ FlagType /\ TableType /\ LoopType /\ ServerType /\ CountType

\* What enqueue took in stays in the table until the server has performed it,
\* MaxRetry sends failed, or the session ended: the process may die anywhere.
AcceptedSurvives ==
    \A e \in Events : req[e] \in Taken =>
        \/ e \in rows \/ e \in cleared
        \/ seen[e] > 0 \/ asked[e] >= MaxRetry

\* A mutation is performed twice only if an answer was lost, the process died
\* or a statement failed between the send and its DELETE; being queued, and
\* reconnecting while a loop is running, never duplicates it.
DuplicatesExplained ==
    \A e \in Events : seen[e] <= 1 + lost[e] + kills + faults

\* The retry count survives the process: a row is sent MaxRetry times, and
\* once more only for a death or failed statement before the count was written.
RetriesBounded == \A e \in Events : asked[e] <= MaxRetry + kills + faults

\* Overlapping calls of enqueue may all find room for one: the table outgrows
\* MAX_QUEUE_SIZE by as many rows as calls ever overlapped, less one.
QueueBounded == Cardinality(rows) <= MaxQueue - 1 + widest

\* The queue drains: however often rows join it, they leave it again, sent or
\* given up.
Drains == []<>(rows = {})
=============================================================================
