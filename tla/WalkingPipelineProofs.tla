----------------------- MODULE WalkingPipelineProofs -----------------------
(***************************************************************************)
(* What holds of the walking mode for any stories, any number of taps,     *)
(* fetches and playbacks, and any failures.                                *)
(***************************************************************************)
EXTENDS WalkingPipeline, FiniteSetTheorems, TLAPS

-----------------------------------------------------------------------------
(***************************************************************************)
(* The inductive invariants.                                               *)
(***************************************************************************)
\* Without a failure the screen only lacks a pipeline it never built, and
\* then nothing of a walk exists.
Unbuilt ==
    faults = 0 /\ ~ref =>
        /\ ~running /\ ~isWalking /\ ~active /\ ~held /\ ~bg
        /\ tracker = "idle" /\ subs = 0 /\ fetches = 0 /\ plays = <<>>
        /\ story = None /\ pacing = "ready" /\ shown = None /\ ~isPlaying
        /\ native = "idle" /\ queue = <<>>
        /\ \A t \in DOMAIN taps : taps[t] \in {"auth", "done"}

\* A walk that is stopped, and one that runs with everything it needs.
Stopped == /\ ~isWalking /\ ~active
           /\ tracker = "idle" /\ ~held /\ subs = 0 /\ ~bg
Tracked == /\ isWalking /\ hooked
           /\ tracker = "active" /\ attached /\ held /\ subs = 1 /\ bg

\* How far a toggle that nobody disturbed has come at each of its awaits.
ToggleAt(g) ==
    /\ g = "auth" => ~running /\ Stopped
    /\ g = "init" => ref /\ running /\ Stopped
    /\ g \in {"perm", "watch", "register"} =>
         ref /\ running /\ isWalking /\ hooked /\ active /\ ~bg
    /\ g = "perm" => tracker = "idle" /\ ~held /\ subs = 0
    /\ g = "watch" => tracker = "active" /\ attached /\ ~held /\ subs = 0
    /\ g = "register" => tracker = "active" /\ attached /\ held /\ subs = 1
    /\ g \in {"halt", "reset"} => ref /\ ~running /\ ~active /\ Tracked
    /\ g = "unregister" => /\ ref /\ ~running /\ ~active /\ isWalking
                           /\ tracker = "idle" /\ ~held /\ subs = 0

\* Between taps: a walk is on or off.
Settled == IF running THEN ref /\ active /\ Tracked ELSE Stopped

\* Taps that waited for each other: only the last one is still handled, the
\* state is as far as it has come.
TapsInTurn ==
    ~rushed /\ faults = 0 =>
        /\ \A t \in DOMAIN taps : taps[t] # "done" => t = Len(taps)
        /\ \A t \in DOMAIN taps : ToggleAt(taps[t])
        /\ Quiet => Settled

\* The native player plays or will: it has a track it has not ended.
Sounding == \/ native \in {"loading", "playing", "paused"}
            \/ native = "idle" /\ queue # <<>>
Resetting == resets = 1 \/ \E t \in DOMAIN taps : taps[t] = "reset"

\* While fetches do not overlap and nothing fails, the native player has at
\* most the track of the engine's story, or one that a reset is about to drop;
\* a fetch is in flight only when the pacing allows a story, and a playback
\* that has not queued its track yet is the last one and the engine's.
OneFetch   == fetches > 0 => fetches = 1 /\ pacing = "ready"
ReadyQuiet == pacing = "ready" => ~Sounding
Dropping   == pacing = "cooldown" /\ Sounding => Resetting
OwnTrack   == story # None /\ Sounding => queue = <<story>>
Preparing  == \A p \in DOMAIN plays : plays[p].stage \in {"path", "reset", "add"} =>
                 /\ p = Len(plays) /\ pacing = "playing" /\ plays[p].story = story
                 /\ ~Sounding /\ (plays[p].stage = "add" => native = "idle")
Voices == OneFetch /\ ReadyQuiet /\ Dropping /\ OwnTrack /\ Preparing
OneVoice == ~overlapped /\ faults = 0 => Voices

\* The subscription that a stop removes is one of the live ones.
Subscribed == held => subs > 0

TypeInv == TypeOK /\ Subscribed

WalkInv == TypeInv /\ PacingMatchesStory /\ Unbuilt /\ StoreNamesStory

-----------------------------------------------------------------------------
(***************************************************************************)
(* What the steps do to the two sequences.                                 *)
(***************************************************************************)
\* One element of a sequence replaced.
LEMMA PutInSeq ==
  ASSUME NEW S, NEW q \in Seq(S), NEW i \in DOMAIN q, NEW e \in S,
         NEW r, r = [q EXCEPT ![i] = e]
  PROVE  /\ r \in Seq(S) /\ Len(r) = Len(q) /\ DOMAIN r = DOMAIN q
         /\ \A j \in DOMAIN q : r[j] = IF j = i THEN e ELSE q[j]
<1>1. q \in [1..Len(q) -> S] /\ DOMAIN q = 1..Len(q) /\ Len(q) \in Nat
  OBVIOUS
<1>2. r \in [1..Len(q) -> S] /\ DOMAIN r = 1..Len(q)
  BY <1>1
<1>3. r \in Seq(S) /\ Len(r) = Len(q)
  BY <1>1, <1>2
<1> QED
  BY <1>1, <1>2, <1>3

\* One element added to a sequence.
LEMMA AddToSeq ==
  ASSUME NEW S, NEW q \in Seq(S), NEW e \in S, NEW r, r = Append(q, e)
  PROVE  /\ r \in Seq(S) /\ Len(r) = Len(q) + 1
         /\ DOMAIN q = 1..Len(q) /\ DOMAIN r = 1..Len(r) /\ Len(q) \in Nat
         /\ \A j \in DOMAIN q : r[j] = q[j]
         /\ r[Len(r)] = e
  OBVIOUS

\* The handler of one tap moves on, no other does.
LEMMA TapMoves ==
  ASSUME taps \in Seq(TapStages), NEW t \in DOMAIN taps, NEW g \in TapStages, Await(t, g)
  PROVE  /\ taps' \in Seq(TapStages) /\ Len(taps') = Len(taps) /\ DOMAIN taps' = DOMAIN taps
         /\ \A u \in DOMAIN taps : taps'[u] = IF u = t THEN g ELSE taps[u]
  BY PutInSeq DEF Await

PlayRecords == [story : Stories, stage : PlayStages]

\* One playback moves on; whose story it plays stays.
LEMMA PlayMoves ==
  ASSUME plays \in Seq(PlayRecords), NEW p \in DOMAIN plays, NEW g \in PlayStages,
         Advance(p, g)
  PROVE  /\ plays' \in Seq(PlayRecords) /\ Len(plays') = Len(plays)
         /\ DOMAIN plays' = DOMAIN plays
         /\ \A q \in DOMAIN plays : /\ plays'[q].story = plays[q].story
                                    /\ plays'[q].stage = IF q = p THEN g ELSE plays[q].stage
<1>1. plays[p] \in PlayRecords
  OBVIOUS
<1>2. [plays[p] EXCEPT !.stage = g] \in PlayRecords
  BY <1>1 DEF PlayRecords
<1>3. plays' = [plays EXCEPT ![p] = [plays[p] EXCEPT !.stage = g]]
  BY DEF Advance
<1>4. /\ plays' \in Seq(PlayRecords) /\ Len(plays') = Len(plays)
      /\ DOMAIN plays' = DOMAIN plays
      /\ \A q \in DOMAIN plays : plays'[q] = IF q = p THEN [plays[p] EXCEPT !.stage = g]
                                                      ELSE plays[q]
  BY <1>2, <1>3, PutInSeq
<1>5. /\ [plays[p] EXCEPT !.stage = g].story = plays[p].story
      /\ [plays[p] EXCEPT !.stage = g].stage = g
  BY <1>1 DEF PlayRecords
<1> QED
  BY <1>4, <1>5

-----------------------------------------------------------------------------
(***************************************************************************)
(* Types.                                                                  *)
(***************************************************************************)
\* The bounds, one by one.
LEMMA Bounds == MaxTaps \in Nat /\ MaxPlays \in Nat /\ MaxFetches \in Nat /\ MaxFaults \in Nat
  BY BoundAssumption

\* The steps that the actions are made of keep the values in their sets.
LEMMA CompleteType ==
  ASSUME TypeOK, Complete
  PROVE  /\ story' \in Stories \cup {None} /\ pacing' \in {"ready", "playing", "cooldown"}
         /\ shown' \in Stories \cup {None} /\ isPlaying' \in BOOLEAN
         /\ reported' \in [Stories -> Nat]
<1>1. CASE hooked /\ story # None
  <2>1. story \in Stories /\ reported[story] + 1 \in Nat
    BY <1>1 DEF TypeOK
  <2>2. reported' = [reported EXCEPT ![story] = reported[story] + 1]
    BY <1>1 DEF Complete
  <2> QED
    BY <1>1, <2>1, <2>2 DEF Complete, TypeOK
<1>2. CASE ~(hooked /\ story # None)
  BY <1>2 DEF Complete, TypeOK
<1> QED
  BY <1>1, <1>2

\* The interruption of the player keeps the types.
LEMMA InterruptType ==
  ASSUME TypeOK, Interrupt
  PROVE  /\ story' \in Stories \cup {None} /\ pacing' \in {"ready", "playing", "cooldown"}
         /\ shown' \in Stories \cup {None} /\ isPlaying' \in BOOLEAN
         /\ reported' \in [Stories -> Nat]
  BY CompleteType DEF Interrupt, TypeOK

\* A step of a toggle moves the handler of its tap and keeps the types.
LEMMA TapTypes ==
  ASSUME TypeInv, NEW t \in DOMAIN taps, TapStep(t)
  PROVE  TypeInv'
<1> USE Bounds DEF TypeInv, hookVars, engineVars, storeVars, placeVars, audioVars, noteVars
<1>1. \E g \in TapStages : Await(t, g)
  BY DEF TapStep, Authenticated, CacheOpened, PermissionsRead, PositionWatched,
         TaskRegistered, StartFails, StateRead, PlayerReset, TaskUnregistered,
         StopFails, TapStages
<1>2. taps' \in Seq(TapStages) /\ Len(taps') <= MaxTaps
  BY <1>1, TapMoves DEF TypeOK
<1>3. CASE Authenticated(t)
  <2>1. TypeOK'
    BY <1>2, <1>3 DEF Authenticated, TypeOK
  <2>2. Subscribed'
    BY <1>3 DEF Authenticated, Subscribed
  <2> QED
    BY <2>1, <2>2
<1>4. CASE CacheOpened(t) \/ PermissionsRead(t) \/ TaskRegistered(t)
  <2>1. TypeOK'
    BY <1>2, <1>4 DEF CacheOpened, PermissionsRead, TaskRegistered, TypeOK
  <2>2. Subscribed'
    BY <1>4 DEF CacheOpened, PermissionsRead, TaskRegistered, Subscribed
  <2> QED
    BY <2>1, <2>2
<1>5. CASE PositionWatched(t)
  <2>1. TypeOK'
    BY <1>2, <1>5 DEF PositionWatched, TypeOK
  <2>2. Subscribed'
    BY <1>5 DEF PositionWatched, Subscribed, TypeOK
  <2> QED
    BY <2>1, <2>2
<1>6. CASE StartFails(t) \/ StopFails(t)
  <2>1. faults' \in 0..MaxFaults
    BY <1>6 DEF StartFails, StopFails, Fault, TypeOK
  <2>2. TypeOK'
    BY <1>2, <1>6, <2>1 DEF StartFails, StopFails, TypeOK
  <2>3. Subscribed'
    BY <1>6 DEF StartFails, StopFails, Subscribed
  <2> QED
    BY <2>2, <2>3
<1>7. CASE StateRead(t)
  <2>1. TypeOK'
    BY <1>2, <1>7, InterruptType DEF StateRead, TypeOK
  <2>2. Subscribed'
    BY <1>7 DEF StateRead, Subscribed
  <2> QED
    BY <2>1, <2>2
<1>8. CASE PlayerReset(t)
  <2>1. subs' \in Nat /\ held' \in BOOLEAN /\ Subscribed'
    <3>1. held \in BOOLEAN /\ subs \in Nat /\ (held => subs > 0)
      BY DEF Subscribed, TypeOK
    <3>2. LetGo \/ UNCHANGED <<held, subs>>
      BY <1>8 DEF PlayerReset
    <3>3. CASE LetGo
      <4>1. subs' \in Nat
        BY <3>1, <3>3 DEF LetGo
      <4>2. held' = FALSE
        BY <3>3 DEF LetGo
      <4> QED
        BY <4>1, <4>2 DEF Subscribed
    <3> QED
      BY <3>1, <3>2, <3>3 DEF Subscribed
  <2>2. isWalking' \in BOOLEAN /\ hooked' \in BOOLEAN /\ isPlaying' \in BOOLEAN
        /\ shown' \in Stories \cup {None} /\ tracker' \in {"idle", "active"}
    BY <1>8 DEF PlayerReset, Leave, TypeOK
  <2>3. queue' \in Seq(Stories) /\ native' = "idle"
    BY <1>8 DEF PlayerReset, ResetNative
  <2> QED
    BY <1>2, <1>8, <2>1, <2>2, <2>3 DEF PlayerReset, TypeOK
<1>9. CASE TaskUnregistered(t)
  <2>1. TypeOK'
    BY <1>2, <1>9 DEF TaskUnregistered, Leave, TypeOK
  <2>2. Subscribed'
    BY <1>9 DEF TaskUnregistered, Subscribed
  <2> QED
    BY <2>1, <2>2
<1> QED
  BY <1>3, <1>4, <1>5, <1>6, <1>7, <1>8, <1>9 DEF TapStep

\* So does a step of a playback.
LEMMA PlayTypes ==
  ASSUME TypeInv, NEW p \in DOMAIN plays, PlayStep(p)
  PROVE  TypeOK' /\ UNCHANGED <<subs, held>>
<1> USE Bounds DEF TypeInv, hookVars, engineVars, storeVars, placeVars, audioVars, noteVars
<1>1. \E g \in PlayStages : Advance(p, g)
  BY DEF PlayStep, PathFound, QueueReset, TrackAdded, PlayIssued, PlayFails, PlayStages
<1>2. plays' \in Seq(PlayRecords) /\ Len(plays') <= MaxPlays
  BY <1>1, PlayMoves DEF TypeOK, PlayRecords
<1>3. plays[p] \in PlayRecords /\ plays[p].story \in Stories
  <2>1. plays \in Seq(PlayRecords)
    BY DEF TypeOK, PlayRecords
  <2>2. plays[p] \in PlayRecords
    BY <2>1
  <2> QED
    BY <2>2 DEF PlayRecords
<1>4. CASE PathFound(p)
  BY <1>2, <1>4 DEF PathFound, TypeOK, PlayRecords
<1>5. CASE QueueReset(p)
  BY <1>2, <1>5 DEF QueueReset, ResetNative, TypeOK, PlayRecords
<1>6. CASE TrackAdded(p)
  <2>1. queue' \in Seq(Stories)
    BY <1>3, <1>6 DEF TrackAdded, TypeOK
  <2> QED
    BY <1>2, <1>6, <2>1 DEF TrackAdded, TypeOK, PlayRecords
<1>7. CASE PlayIssued(p)
  BY <1>2, <1>7 DEF PlayIssued, NativePlay, TypeOK, PlayRecords
<1>8. CASE PlayFails(p)
  BY <1>2, <1>8 DEF PlayFails, Fault, TypeOK, PlayRecords
<1> QED
  BY <1>4, <1>5, <1>6, <1>7, <1>8 DEF PlayStep

\* Every step keeps the types.
LEMMA TypeStep ==
  ASSUME TypeInv, [Next]_vars
  PROVE  TypeInv'
<1>0. SUFFICES ASSUME TypeInv, [Next]_vars, ~\E t \in DOMAIN taps : TapStep(t)
               PROVE  TypeOK' /\ UNCHANGED <<subs, held>>
  BY TapTypes DEF TypeInv, Subscribed
<1> USE Bounds DEF TypeInv, hookVars, engineVars, storeVars, placeVars, audioVars, noteVars
<1>1. CASE Press
  <2>1. taps \in Seq(TapStages) /\ {"halt", "auth"} \subseteq TapStages
    BY DEF TypeOK, TapStages
  <2>2. \E g \in TapStages : taps' = Append(taps, g)
    BY <1>1, <2>1 DEF Press
  <2>3. taps' \in Seq(TapStages) /\ Len(taps') <= MaxTaps
    BY <1>1, <2>1, <2>2, AddToSeq DEF Press
  <2>4. Quiet \in BOOLEAN
    BY DEF Quiet
  <2>5. rushed' \in BOOLEAN /\ running' \in BOOLEAN /\ active' \in BOOLEAN
    BY <1>1, <2>4 DEF Press, TypeOK
  <2> QED
    BY <1>1, <2>3, <2>5 DEF Press, TypeOK
<1>2. CASE LocationUpdate
  BY <1>2 DEF LocationUpdate, TypeOK
<1>3. CASE FetchAnswered
  <2>1. CASE \E s \in Stories : Trigger(s)
    <3>1. PICK s \in Stories : Trigger(s)
      BY <2>1
    <3>2. [story |-> s, stage |-> "path"] \in PlayRecords
      BY DEF PlayRecords, PlayStages
    <3>3. plays' \in Seq(PlayRecords) /\ Len(plays') <= MaxPlays
      BY <3>1, <3>2 DEF Trigger, TypeOK, PlayRecords
    <3> QED
      BY <1>3, <3>1, <3>3 DEF FetchAnswered, Trigger, TypeOK, PlayRecords
  <2>2. CASE UNCHANGED <<story, pacing, plays, shown, isPlaying, broken>>
    BY <1>3, <2>2 DEF FetchAnswered, TypeOK
  <2> QED
    BY <1>3, <2>1, <2>2 DEF FetchAnswered
<1>4. CASE CooldownElapses
  BY <1>4 DEF CooldownElapses, TypeOK
<1>5. CASE \E t \in DOMAIN taps : TapStep(t)
  BY <1>0, <1>5
<1>6. CASE \E p \in DOMAIN plays : PlayStep(p)
  BY <1>6, PlayTypes
<1>7. CASE TrackLoaded
  BY <1>7 DEF TrackLoaded, TypeOK
<1>8. CASE TrackEnds
  <2>1. CASE Len(queue) > 1
    <3>1. queue' = Tail(queue) /\ queue \in Seq(Stories) /\ queue # <<>>
      BY <1>8, <2>1 DEF TrackEnds, TypeOK
    <3>2. queue' \in Seq(Stories)
      BY <3>1
    <3> QED
      BY <1>8, <2>1, <3>2 DEF TrackEnds, TypeOK
  <2>2. CASE ~(Len(queue) > 1)
    BY <1>8, <2>2, CompleteType DEF TrackEnds, TypeOK
  <2> QED
    BY <2>1, <2>2
<1>9. CASE PlaybackError
  BY <1>9 DEF PlaybackError, Fault, TypeOK
<1>10. CASE PauseOrPlay
  BY <1>10 DEF PauseOrPlay, NativePlay, TypeOK
<1>11. CASE RemoteStop
  BY <1>11, InterruptType DEF RemoteStop, TypeOK
<1>12. CASE RemoteReset
  BY <1>12 DEF RemoteReset, ResetNative, TypeOK
<1>13. CASE UNCHANGED vars
  BY <1>13 DEF vars, TypeOK
<1> QED
  BY <1>1, <1>2, <1>3, <1>4, <1>5, <1>6, <1>7, <1>8, <1>9, <1>10, <1>11, <1>12,
     <1>13, <1>0 DEF Next, Native

-----------------------------------------------------------------------------
(***************************************************************************)
(* A story is reported at most as often as it was triggered.               *)
(***************************************************************************)
PlaysOf(s) == {p \in DOMAIN plays : plays[p].story = s}

\* The playbacks of a story can be counted.
LEMMA PlaysCounted ==
  ASSUME TypeOK, NEW s
  PROVE  IsFiniteSet(PlaysOf(s)) /\ Triggered(s) = Cardinality(PlaysOf(s))
         /\ Triggered(s) \in Nat
<1>1. DOMAIN plays = 1..Len(plays) /\ Len(plays) \in Nat
  BY DEF TypeOK
<1>2. IsFiniteSet(DOMAIN plays)
  BY <1>1, FS_Interval
<1>3. IsFiniteSet(PlaysOf(s))
  BY <1>2, FS_Subset DEF PlaysOf
<1>4. Cardinality(PlaysOf(s)) \in Nat
  BY <1>3, FS_CardinalityType
<1> QED
  BY <1>3, <1>4 DEF Triggered, PlaysOf

\* Playbacks that only move on count as before.
LEMMA CountKept ==
  ASSUME TypeOK, [Next]_vars, ~FetchAnswered \/ UNCHANGED plays, NEW s
  PROVE  Triggered(s)' = Triggered(s)
<1>1. CASE UNCHANGED plays
  BY <1>1 DEF Triggered
<1>2. CASE \E p \in DOMAIN plays : PlayStep(p)
  <2>1. PICK p \in DOMAIN plays : PlayStep(p)
    BY <1>2
  <2>2. \E g \in PlayStages : Advance(p, g)
    BY <2>1 DEF PlayStep, PathFound, QueueReset, TrackAdded, PlayIssued, PlayFails, PlayStages
  <2>3. DOMAIN plays' = DOMAIN plays /\ \A q \in DOMAIN plays : plays'[q].story = plays[q].story
    BY <2>2, PlayMoves DEF TypeOK, PlayRecords
  <2>4. {q \in DOMAIN plays' : plays'[q].story = s} = {q \in DOMAIN plays : plays[q].story = s}
    BY <2>3
  <2> QED
    BY <2>4 DEF Triggered
<1>3. ASSUME ~UNCHANGED plays, ~\E p \in DOMAIN plays : PlayStep(p)
      PROVE  FALSE
  BY <1>3 DEF Next, vars, Press, LocationUpdate, CooldownElapses, TapStep, Authenticated,
     CacheOpened, PermissionsRead, PositionWatched, TaskRegistered, StartFails, StateRead,
     PlayerReset, TaskUnregistered, StopFails, Native, TrackLoaded, TrackEnds,
     PlaybackError, PauseOrPlay, RemoteStop, RemoteReset
<1> QED
  BY <1>1, <1>2, <1>3

\* A story that ends is reported once and is no longer the engine's.
LEMMA ReportedWhenItEnds ==
  ASSUME TypeOK, Complete, NEW s \in Stories
  PROVE  reported'[s] + (IF story' = s THEN 1 ELSE 0)
           <= reported[s] + (IF story = s THEN 1 ELSE 0)
<1>1. reported \in [Stories -> Nat] /\ reported[s] \in Nat /\ s # None
  BY StoryAssumption DEF TypeOK
<1>2. CASE hooked /\ story = s
  <2>1. reported' = [reported EXCEPT ![s] = reported[s] + 1] /\ story' = None
    BY <1>1, <1>2 DEF Complete
  <2> QED
    BY <1>1, <1>2, <2>1
<1>3. CASE hooked /\ story # s
  <2>1. reported'[s] = reported[s] /\ story' = None
    BY <1>1, <1>3 DEF Complete, TypeOK
  <2> QED
    BY <1>1, <1>3, <2>1
<1>4. CASE ~hooked
  BY <1>1, <1>4 DEF Complete
<1> QED
  BY <1>2, <1>3, <1>4

\* No step but an answer takes a story up.
LEMMA NoStoryTakenUp ==
  ASSUME TypeOK, [Next]_vars, ~FetchAnswered, NEW s \in Stories
  PROVE  reported'[s] + (IF story' = s THEN 1 ELSE 0)
           <= reported[s] + (IF story = s THEN 1 ELSE 0)
<1>1. reported[s] \in Nat /\ s # None
  BY StoryAssumption DEF TypeOK
<1>2. CASE Complete
  BY <1>2, ReportedWhenItEnds
<1>3. CASE UNCHANGED <<story, reported>>
  BY <1>1, <1>3
<1>4. CASE story' = None /\ UNCHANGED reported
  BY <1>1, <1>4
<1>5. ASSUME ~Complete, ~UNCHANGED <<story, reported>>
      PROVE  story' = None /\ UNCHANGED reported
  <2>1. CASE \E t \in DOMAIN taps : TapStep(t)
    BY <1>5, <2>1 DEF TapStep, Authenticated,
       CacheOpened, PermissionsRead, PositionWatched, TaskRegistered, StartFails, StateRead,
       PlayerReset, TaskUnregistered, StopFails, Interrupt, engineVars
  <2>2. CASE \E p \in DOMAIN plays : PlayStep(p)
    BY <1>5, <2>2 DEF PlayStep, PathFound, QueueReset, TrackAdded, PlayIssued, PlayFails,
       engineVars
  <2>3. CASE ~(\E t \in DOMAIN taps : TapStep(t)) /\ ~(\E p \in DOMAIN plays : PlayStep(p))
    BY <1>5, <2>3 DEF Next, vars, Press, LocationUpdate, CooldownElapses,
       Native, TrackLoaded, TrackEnds, PlaybackError, PauseOrPlay, RemoteStop, RemoteReset,
       Interrupt, engineVars
  <2> QED
    BY <2>1, <2>2, <2>3
<1> QED
  BY <1>2, <1>3, <1>4, <1>5

\* An answer with a story adds a playback of that story, which nobody
\* reported before.
LEMMA CountTriggered ==
  ASSUME TypeOK, NEW s \in Stories, Trigger(s), NEW r \in Stories
  PROVE  Triggered(r)' = Triggered(r) + (IF r = s THEN 1 ELSE 0)
<1>1. [story |-> s, stage |-> "path"] \in PlayRecords
  BY DEF PlayRecords, PlayStages
<1>2. plays \in Seq(PlayRecords) /\ plays' = Append(plays, [story |-> s, stage |-> "path"])
  BY DEF Trigger, TypeOK, PlayRecords
<1> DEFINE m == Len(plays) + 1
<1>3. /\ m = Len(plays') /\ m \notin DOMAIN plays /\ DOMAIN plays' = DOMAIN plays \cup {m}
      /\ \A q \in DOMAIN plays : plays'[q] = plays[q]
      /\ plays'[m].story = s
  BY <1>1, <1>2, AddToSeq
<1>4. /\ IsFiniteSet(PlaysOf(r)) /\ Triggered(r) = Cardinality(PlaysOf(r))
      /\ Triggered(r) \in Nat
  BY PlaysCounted
<1>5. Triggered(r)' = Cardinality({q \in DOMAIN plays' : plays'[q].story = r})
  BY DEF Triggered
<1>6. CASE r = s
  <2>1. {q \in DOMAIN plays' : plays'[q].story = r} = PlaysOf(r) \cup {m}
    BY <1>3, <1>6 DEF PlaysOf
  <2>2. m \notin PlaysOf(r)
    BY <1>3 DEF PlaysOf
  <2>3. Cardinality(PlaysOf(r) \cup {m}) = Cardinality(PlaysOf(r)) + 1
    BY <1>4, <2>2, FS_AddElement
  <2>4. Triggered(r)' = Triggered(r) + 1
    BY <1>4, <1>5, <2>1, <2>3
  <2> QED
    BY <1>6, <2>4
<1>7. CASE r # s
  <2>1. {q \in DOMAIN plays' : plays'[q].story = r} = PlaysOf(r)
    BY <1>3, <1>7 DEF PlaysOf
  <2>2. Triggered(r)' = Triggered(r)
    BY <1>4, <1>5, <2>1
  <2>3. Triggered(r) = Triggered(r) + 0
    BY <1>4
  <2> QED
    BY <1>7, <2>2, <2>3
<1> QED
  BY <1>6, <1>7

\* The walk begins with its types.
LEMMA TypeInit == ASSUME Init PROVE TypeInv
<1>1. TypeOK
  <2>1. taps \in Seq(TapStages) /\ Len(taps) <= MaxTaps
    BY Bounds DEF Init
  <2>2. plays \in Seq([story : Stories, stage : PlayStages]) /\ Len(plays) <= MaxPlays
        /\ queue \in Seq(Stories)
    BY Bounds DEF Init
  <2>3. reported \in [Stories -> Nat] /\ fetches \in 0..MaxFetches /\ faults \in 0..MaxFaults
        /\ subs \in Nat /\ resets \in 0..1
    BY Bounds DEF Init
  <2> QED
    BY <2>1, <2>2, <2>3 DEF Init, TypeOK
<1>2. Subscribed
  BY DEF Init, Subscribed
<1> QED
  BY <1>1, <1>2 DEF TypeInv

\* The values stay in their sets, and a stop never removes a subscription that
\* is not there.
THEOREM TypeCorrect == Spec => []TypeInv
<1>1. Init => TypeInv
  BY TypeInit
<1>2. TypeInv /\ [Next]_vars => TypeInv'
  BY TypeStep
<1> QED
  BY <1>1, <1>2, PTL DEF Spec

\* Whatever is tapped, answered late, paused, stopped or fails, trackListening
\* is called for a story at most once for every time it was triggered, and not
\* for the playback that is still the engine's.
THEOREM ReportsFollowTriggers == Spec => []ReportedOncePerTrigger
<1>1. Init => ReportedOncePerTrigger
  <2>1. ASSUME Init, NEW s \in Stories
        PROVE  reported[s] + (IF story = s THEN 1 ELSE 0) <= Triggered(s)
    <3>1. TypeOK
      BY <2>1, TypeInit DEF TypeInv
    <3>2. Triggered(s) \in Nat
      BY <3>1, PlaysCounted
    <3>3. reported[s] = 0 /\ story # s
      BY <2>1, StoryAssumption DEF Init
    <3> QED
      BY <3>2, <3>3
  <2> QED
    BY <2>1 DEF ReportedOncePerTrigger
<1>2. ASSUME TypeInv, TypeInv', ReportedOncePerTrigger, [Next]_vars
      PROVE  ReportedOncePerTrigger'
  <2> SUFFICES ASSUME NEW s \in Stories
               PROVE  reported'[s] + (IF story' = s THEN 1 ELSE 0) <= Triggered(s)'
    BY DEF ReportedOncePerTrigger
  <2>1. /\ reported[s] \in Nat /\ reported'[s] \in Nat /\ Triggered(s) \in Nat
        /\ reported[s] + (IF story = s THEN 1 ELSE 0) <= Triggered(s)
    BY <1>2, PlaysCounted DEF TypeInv, TypeOK, ReportedOncePerTrigger
  <2>2. CASE FetchAnswered /\ ~UNCHANGED plays
    <3>1. PICK r \in Stories : Trigger(r)
      BY <2>2 DEF FetchAnswered
    <3>2. Triggered(s)' = Triggered(s) + (IF s = r THEN 1 ELSE 0)
      BY <1>2, <3>1, CountTriggered DEF TypeInv
    <3>3. reported'[s] = reported[s] /\ story' = r /\ reported[r] = 0
      BY <2>2, <3>1 DEF FetchAnswered, Trigger, Unheard
    <3> QED
      BY <2>1, <3>2, <3>3
  <2>3. CASE ~(FetchAnswered /\ ~UNCHANGED plays)
    <3>1. Triggered(s)' = Triggered(s)
      BY <1>2, <2>3, CountKept DEF TypeInv
    <3>2. reported'[s] + (IF story' = s THEN 1 ELSE 0)
            <= reported[s] + (IF story = s THEN 1 ELSE 0)
      <4>1. CASE ~FetchAnswered
        BY <1>2, <4>1, NoStoryTakenUp DEF TypeInv
      <4>2. CASE FetchAnswered
        <5>1. plays' # plays => FALSE
          BY <2>3, <4>2
        <5>2. UNCHANGED <<story, reported>>
          <6>1. ASSUME NEW r \in Stories, Trigger(r)
                PROVE  FALSE
            <7>1. [story |-> r, stage |-> "path"] \in PlayRecords /\ plays \in Seq(PlayRecords)
              BY <1>2 DEF PlayRecords, PlayStages, TypeInv, TypeOK
            <7>2. plays' = Append(plays, [story |-> r, stage |-> "path"])
              BY <6>1 DEF Trigger
            <7>3. Len(plays') = Len(plays) + 1 /\ Len(plays) \in Nat
              BY <7>1, <7>2, AddToSeq
            <7> QED
              BY <5>1, <7>3
          <6> QED
            BY <4>2, <6>1 DEF FetchAnswered
        <5> QED
          BY <2>1, <5>2
      <4> QED
        BY <4>1, <4>2
    <3> QED
      BY <2>1, <3>1, <3>2
  <2> QED
    BY <2>2, <2>3
<1> QED
  BY <1>1, <1>2, TypeCorrect, PTL DEF Spec

-----------------------------------------------------------------------------
(***************************************************************************)
(* The engine, its pacing, the player store and the screen tell of one     *)
(* walk.                                                                   *)
(***************************************************************************)
\* The end of a story leaves nothing of it in the engine and in the store.
LEMMA CompleteSound ==
  ASSUME TypeOK, PacingMatchesStory, Complete
  PROVE  /\ (pacing' = "playing") <=> (story' # None)
         /\ (shown # None => shown = story) => (shown' # None => shown' = story')
         /\ (isPlaying => shown # None) => (isPlaying' => shown' # None)
         /\ shown = None /\ story = None /\ ~isPlaying =>
              shown' = None /\ story' = None /\ ~isPlaying'
  BY DEF Complete, PacingMatchesStory

\* The engine's story is the one its pacing waits for.
THEOREM EngineSound == Spec => []PacingMatchesStory
<1>1. Init => PacingMatchesStory
  BY DEF Init, PacingMatchesStory
<1>2. ASSUME TypeInv, PacingMatchesStory, [Next]_vars
      PROVE  PacingMatchesStory'
  <2>1. CASE Complete
    BY <1>2, <2>1, CompleteSound DEF TypeInv, PacingMatchesStory
  <2>2. CASE UNCHANGED <<story, pacing>>
    BY <1>2, <2>2 DEF PacingMatchesStory
  <2>3. CASE \E s \in Stories : Trigger(s)
    BY <2>3, StoryAssumption DEF Trigger, PacingMatchesStory
  <2>4. CASE CooldownElapses
    BY <1>2, <2>4 DEF CooldownElapses, PacingMatchesStory
  <2>5. CASE story' = None /\ pacing' = "ready"
    BY <2>5 DEF PacingMatchesStory
  <2>6. ASSUME ~Complete, ~UNCHANGED <<story, pacing>>, ~\E s \in Stories : Trigger(s),
               ~CooldownElapses
        PROVE  story' = None /\ pacing' = "ready"
    <3>1. CASE \E t \in DOMAIN taps : TapStep(t)
      BY <2>6, <3>1 DEF TapStep, Authenticated,
         CacheOpened, PermissionsRead, PositionWatched, TaskRegistered, StartFails, StateRead,
         PlayerReset, TaskUnregistered, StopFails, Interrupt, engineVars
    <3>2. CASE \E p \in DOMAIN plays : PlayStep(p)
      BY <2>6, <3>2 DEF PlayStep, PathFound, QueueReset, TrackAdded, PlayIssued, PlayFails,
         engineVars
    <3>3. CASE ~(\E t \in DOMAIN taps : TapStep(t)) /\ ~(\E p \in DOMAIN plays : PlayStep(p))
      BY <1>2, <2>6, <3>3 DEF Next, vars, Press, LocationUpdate, FetchAnswered,
         Native, TrackLoaded, TrackEnds, PlaybackError, PauseOrPlay, RemoteStop, RemoteReset,
         Interrupt, engineVars
    <3> QED
      BY <3>1, <3>2, <3>3
  <2> QED
    BY <2>1, <2>2, <2>3, <2>4, <2>5, <2>6
<1> QED
  BY <1>1, <1>2, TypeCorrect, PTL DEF Spec

-----------------------------------------------------------------------------
(***************************************************************************)
(* What once disturbed a walk stays noted.                                 *)
(***************************************************************************)
\* The actions of the taps and playbacks, together.
LEMMA FaultsKept ==
  ASSUME TypeOK, [Next]_vars, faults' = 0
  PROVE  faults = 0
<1>1. faults \in Nat
  BY Bounds DEF TypeOK
<1>2. faults' = faults \/ faults' = faults + 1
  <2>1. CASE \E t \in DOMAIN taps : TapStep(t)
    BY <2>1 DEF TapStep, Authenticated, CacheOpened, PermissionsRead, PositionWatched,
       TaskRegistered, StartFails, StateRead, PlayerReset, TaskUnregistered, StopFails, Fault
  <2>2. CASE \E p \in DOMAIN plays : PlayStep(p)
    BY <2>2 DEF PlayStep, PathFound, QueueReset, TrackAdded, PlayIssued, PlayFails, Fault
  <2>3. CASE ~(\E t \in DOMAIN taps : TapStep(t)) /\ ~(\E p \in DOMAIN plays : PlayStep(p))
    BY <2>3 DEF Next, vars, Press, LocationUpdate, FetchAnswered, CooldownElapses, Native,
       TrackLoaded, TrackEnds, PlaybackError, PauseOrPlay, RemoteStop, RemoteReset, Fault
  <2> QED
    BY <2>1, <2>2, <2>3
<1> QED
  BY <1>1, <1>2

\* The screen lets go of a pipeline only after a failure.
LEMMA PipelineKept ==
  ASSUME TypeOK, [Next]_vars, faults' = 0, ~ref'
  PROVE  ~ref
<1>1. faults = 0
  BY FaultsKept
<1>2. CASE \E t \in DOMAIN taps : StartFails(t)
  <2>1. faults' = faults + 1
    BY <1>2 DEF StartFails, Fault
  <2> QED
    BY <1>1, <2>1
<1>3. ASSUME ref, ~\E t \in DOMAIN taps : StartFails(t)
      PROVE  FALSE
  <2>1. CASE \E t \in DOMAIN taps : TapStep(t)
    BY <1>3, <2>1 DEF TapStep, Authenticated, CacheOpened, PermissionsRead, PositionWatched,
       TaskRegistered, StateRead, PlayerReset, TaskUnregistered, StopFails, hookVars
  <2>2. CASE \E p \in DOMAIN plays : PlayStep(p)
    BY <1>3, <2>2 DEF PlayStep, PathFound, QueueReset, TrackAdded, PlayIssued, PlayFails,
       hookVars
  <2>3. CASE ~(\E t \in DOMAIN taps : TapStep(t)) /\ ~(\E p \in DOMAIN plays : PlayStep(p))
    BY <1>3, <2>3 DEF Next, vars, Press, LocationUpdate, FetchAnswered, CooldownElapses,
       Native, TrackLoaded, TrackEnds, PlaybackError, PauseOrPlay, RemoteStop, RemoteReset,
       hookVars
  <2> QED
    BY <2>1, <2>2, <2>3
<1> QED
  BY <1>2, <1>3

\* While no pipeline was built, a step leaves everything as it is, but for taps
\* that look for a user.
LEMMA UnbuiltStep ==
  ASSUME TypeOK, Unbuilt, [Next]_vars
  PROVE  Unbuilt'
<1> SUFFICES ASSUME faults' = 0, ~ref'
             PROVE  Unbuilt'
  BY DEF Unbuilt
<1>1. faults = 0 /\ ~ref
  BY FaultsKept, PipelineKept
<1>2. /\ ~running /\ ~isWalking /\ ~active /\ ~held /\ ~bg
      /\ tracker = "idle" /\ subs = 0 /\ fetches = 0 /\ plays = <<>>
      /\ story = None /\ pacing = "ready" /\ shown = None /\ ~isPlaying
      /\ native = "idle" /\ queue = <<>>
      /\ \A t \in DOMAIN taps : taps[t] \in {"auth", "done"}
  BY <1>1 DEF Unbuilt
<1>3. taps \in Seq(TapStages) /\ {"auth", "done"} \subseteq TapStages
  BY DEF TypeOK, TapStages
<1>4. CASE Press
  <2>1. taps' = Append(taps, "auth") /\ UNCHANGED <<running, active>>
    BY <1>2, <1>4 DEF Press
  <2>2. \A t \in DOMAIN taps' : taps'[t] \in {"auth", "done"}
    BY <1>2, <1>3, <2>1, AddToSeq
  <2> QED
    BY <1>2, <1>4, <2>1, <2>2 DEF Press, Unbuilt, storeVars, placeVars, audioVars
<1>5. CASE \E t \in DOMAIN taps : TapStep(t)
  <2>1. PICK t \in DOMAIN taps : TapStep(t)
    BY <1>5
  <2>2. Authenticated(t)
    BY <1>2, <2>1 DEF TapStep, CacheOpened, PermissionsRead, PositionWatched,
       TaskRegistered, StartFails, StateRead, PlayerReset, TaskUnregistered, StopFails
  <2>3. Await(t, "done") /\ UNCHANGED <<ref, running, engineVars, tracker, held>>
    BY <1>1, <2>2 DEF Authenticated
  <2>4. \A u \in DOMAIN taps' : taps'[u] \in {"auth", "done"}
    BY <1>2, <1>3, <2>3, TapMoves
  <2> QED
    BY <1>2, <2>2, <2>3, <2>4
       DEF Authenticated, Unbuilt, engineVars, storeVars, audioVars
<1>6. CASE RemoteReset
  BY <1>2, <1>6
     DEF RemoteReset, ResetNative, Unbuilt, hookVars, engineVars, storeVars, placeVars
<1>7. CASE UNCHANGED vars
  BY <1>2, <1>7 DEF vars, Unbuilt, hookVars, engineVars, storeVars, placeVars, audioVars
<1>8. ASSUME ~Press, ~\E t \in DOMAIN taps : TapStep(t), ~RemoteReset, Next
      PROVE  FALSE
  <2>1. DOMAIN plays = {} /\ ~(subs > 0) /\ ~(fetches > 0)
    BY <1>2
  <2> QED
    BY <1>2, <1>8, <2>1 DEF Next, LocationUpdate, FetchAnswered,
       CooldownElapses, Native, TrackLoaded, TrackEnds, PlaybackError, PauseOrPlay,
       NativePlay, RemoteStop
<1> QED
  BY <1>4, <1>5, <1>6, <1>7, <1>8

\* The store keeps to the engine's story.
LEMMA StoreStep ==
  ASSUME TypeOK, PacingMatchesStory, Unbuilt, StoreNamesStory, [Next]_vars
  PROVE  StoreNamesStory'
<1> SUFFICES ASSUME faults' = 0
             PROVE  StoreNamesStory'
  BY DEF StoreNamesStory
<1>1. faults = 0 /\ (shown # None => shown = story) /\ (isPlaying => shown # None)
  BY FaultsKept DEF StoreNamesStory
<1>2. CASE Complete
  BY <1>1, <1>2, CompleteSound DEF StoreNamesStory
<1>3. CASE \E s \in Stories : Trigger(s)
  BY <1>3, StoryAssumption DEF Trigger, StoreNamesStory
<1>4. CASE UNCHANGED <<story, shown>> /\ (isPlaying' => isPlaying)
  BY <1>1, <1>4 DEF StoreNamesStory
<1>5. CASE shown' = None /\ ~isPlaying'
  BY <1>5 DEF StoreNamesStory
<1>6. ASSUME ~Complete, ~\E s \in Stories : Trigger(s), ~(shown' = None /\ ~isPlaying')
      PROVE  UNCHANGED <<story, shown>> /\ (isPlaying' => isPlaying)
  <2>1. CASE \E t \in DOMAIN taps : TapStep(t)
    <3>1. ~ref => shown = None /\ ~isPlaying
      BY <1>1 DEF Unbuilt
    <3> QED
      BY <1>6, <2>1, <3>1 DEF TapStep, Authenticated,
         CacheOpened, PermissionsRead, PositionWatched, TaskRegistered, StartFails, StateRead,
         PlayerReset, TaskUnregistered, StopFails, Leave, Interrupt, engineVars, storeVars
  <2>2. CASE \E p \in DOMAIN plays : PlayStep(p)
    <3>1. PICK p \in DOMAIN plays : PlayStep(p)
      BY <2>2
    <3>2. UNCHANGED <<story, shown>>
      BY <3>1 DEF PlayStep, PathFound, QueueReset, TrackAdded, PlayIssued, PlayFails,
         engineVars, storeVars
    <3>3. isPlaying' = (isPlaying /\ ~hooked) \/ isPlaying' = isPlaying
      BY <3>1 DEF PlayStep, PathFound, QueueReset, TrackAdded, PlayIssued, PlayFails,
         storeVars
    <3>4. isPlaying' => isPlaying
      BY <3>3
    <3> QED
      BY <3>2, <3>4
  <2>3. CASE ~(\E t \in DOMAIN taps : TapStep(t)) /\ ~(\E p \in DOMAIN plays : PlayStep(p))
    BY <1>6, <2>3 DEF Next, vars, Press, LocationUpdate, FetchAnswered, CooldownElapses,
       Native, TrackLoaded, TrackEnds, PlaybackError, PauseOrPlay, RemoteStop, RemoteReset,
       Interrupt, engineVars, storeVars
  <2> QED
    BY <2>1, <2>2, <2>3
<1> QED
  BY <1>2, <1>3, <1>4, <1>5, <1>6

-----------------------------------------------------------------------------
(***************************************************************************)
(* Taps that waited for each other.                                        *)
(***************************************************************************)
\* A tap that came too early stays noted.
LEMMA RushedKept ==
  ASSUME TypeOK, [Next]_vars, ~rushed'
  PROVE  ~rushed
<1>1. CASE \E t \in DOMAIN taps : TapStep(t)
  BY <1>1 DEF TapStep, Authenticated, CacheOpened, PermissionsRead, PositionWatched,
     TaskRegistered, StartFails, StateRead, PlayerReset, TaskUnregistered, StopFails, noteVars
<1>2. CASE \E p \in DOMAIN plays : PlayStep(p)
  BY <1>2 DEF PlayStep, PathFound, QueueReset, TrackAdded, PlayIssued, PlayFails, noteVars
<1>3. CASE ~(\E t \in DOMAIN taps : TapStep(t)) /\ ~(\E p \in DOMAIN plays : PlayStep(p))
  BY <1>3 DEF Next, vars, Press, LocationUpdate, FetchAnswered, CooldownElapses, Native,
     TrackLoaded, TrackEnds, PlaybackError, PauseOrPlay, RemoteStop, RemoteReset, noteVars
<1> QED
  BY <1>1, <1>2, <1>3

toggleVars == <<ref, running, isWalking, hooked, active, tracker, held, attached, subs, bg>>

\* Only taps and their handlers change what a toggle sets.
LEMMA OthersLeaveToggle ==
  ASSUME [Next]_vars, ~Press, ~\E t \in DOMAIN taps : TapStep(t)
  PROVE  UNCHANGED <<taps, toggleVars>>
<1>1. CASE \E p \in DOMAIN plays : PlayStep(p)
  BY <1>1 DEF PlayStep, PathFound, QueueReset, TrackAdded, PlayIssued, PlayFails, toggleVars,
     hookVars, engineVars, placeVars
<1>2. CASE ~(\E p \in DOMAIN plays : PlayStep(p))
  BY <1>2 DEF Next, vars, LocationUpdate, FetchAnswered, CooldownElapses, Native,
     TrackLoaded, TrackEnds, PlaybackError, PauseOrPlay, RemoteStop, RemoteReset, toggleVars,
     hookVars, engineVars, placeVars
<1> QED
  BY <1>1, <1>2

\* The only handler in progress moves on to a stage that fits the state.
LEMMA TurnTaken ==
  ASSUME TypeOK, TapsInTurn, ~rushed, faults = 0, NEW t \in DOMAIN taps, taps[t] # "done",
         NEW g \in TapStages, Await(t, g), ToggleAt(g)', g = "done" => Settled'
  PROVE  TapsInTurn'
<1>1. t = Len(taps) /\ \A u \in DOMAIN taps : taps[u] # "done" => u = Len(taps)
  BY DEF TapsInTurn
<1>2. /\ Len(taps') = Len(taps) /\ DOMAIN taps' = DOMAIN taps
      /\ \A u \in DOMAIN taps : taps'[u] = IF u = t THEN g ELSE taps[u]
  BY TapMoves DEF TypeOK
<1>3. \A u \in DOMAIN taps : u # t => taps'[u] = "done"
  BY <1>1, <1>2
<1>5. taps'[t] = g
  BY <1>2
<1>6. (\A u \in DOMAIN taps : ToggleAt(taps[u]))'
  BY <1>2, <1>3, <1>5 DEF ToggleAt
<1>7. (\A u \in DOMAIN taps : taps[u] # "done" => u = Len(taps))'
  BY <1>1, <1>2, <1>3
<1>8. Quiet' => Settled'
  BY <1>2, <1>5 DEF Quiet
<1> QED
  BY <1>6, <1>7, <1>8 DEF TapsInTurn

\* One tap at a time, the state keeps pace with the handler.
LEMMA TurnStep ==
  ASSUME TypeOK, Unbuilt, TapsInTurn, [Next]_vars
  PROVE  TapsInTurn'
<1> SUFFICES ASSUME ~rushed', faults' = 0
             PROVE  TapsInTurn'
  BY DEF TapsInTurn
<1>1. ~rushed /\ faults = 0
  BY RushedKept, FaultsKept
<1>2. /\ \A t \in DOMAIN taps : taps[t] # "done" => t = Len(taps)
      /\ \A t \in DOMAIN taps : ToggleAt(taps[t])
      /\ Quiet => Settled
  BY <1>1 DEF TapsInTurn
<1>3. taps \in Seq(TapStages) /\ TapStages = {"auth", "init", "perm", "watch", "register",
               "halt", "reset", "unregister", "done"}
  BY DEF TypeOK, TapStages
<1>4. CASE Press
  <2>1. Quiet /\ Settled
    BY <1>2, <1>4 DEF Press
  <2>2. PICK g \in {"halt", "auth"} :
          /\ taps' = Append(taps, g)
          /\ g = "halt" => ref /\ isWalking /\ running' = FALSE /\ active' = FALSE
          /\ g = "auth" => ~isWalking /\ UNCHANGED <<running, active>>
    BY <1>4 DEF Press
  <2>3. UNCHANGED <<ref, isWalking, hooked, tracker, held, attached, subs, bg>>
    BY <1>4 DEF Press, placeVars
  <2>4. ToggleAt(g)'
    <3>1. CASE g = "halt"
      BY <2>1, <2>2, <2>3, <3>1 DEF Settled, Stopped, Tracked, ToggleAt
    <3>2. CASE g = "auth"
      BY <2>1, <2>2, <2>3, <3>2 DEF Settled, Stopped, Tracked, ToggleAt
    <3> QED
      BY <3>1, <3>2
  <2>5. /\ Len(taps') = Len(taps) + 1 /\ DOMAIN taps' = 1..Len(taps') /\ Len(taps) \in Nat
        /\ DOMAIN taps = 1..Len(taps)
        /\ \A u \in DOMAIN taps : taps'[u] = taps[u]
        /\ taps'[Len(taps')] = g
    BY <1>3, <2>2, AddToSeq
  <2>6. \A u \in DOMAIN taps' : u # Len(taps') => taps'[u] = "done"
    BY <2>1, <2>5 DEF Quiet
  <2>7. (\A u \in DOMAIN taps : ToggleAt(taps[u]))'
    BY <2>4, <2>5, <2>6 DEF ToggleAt
  <2>8. ~Quiet'
    BY <2>2, <2>5 DEF Quiet
  <2> QED
    BY <2>6, <2>7, <2>8 DEF TapsInTurn
<1>5. CASE \E t \in DOMAIN taps : TapStep(t)
  <2>1. PICK t \in DOMAIN taps : TapStep(t)
    BY <1>5
  <2>2. ToggleAt(taps[t]) /\ UNCHANGED <<rushed, overlapped>> /\ faults' = faults
    BY <1>1, <1>2, <2>1 DEF TapStep, Authenticated, CacheOpened, PermissionsRead,
       PositionWatched, TaskRegistered, StartFails, StateRead, PlayerReset,
       TaskUnregistered, StopFails, Fault, noteVars
  <2> SUFFICES \E g \in TapStages : /\ taps[t] # "done" /\ Await(t, g)
                                    /\ ToggleAt(g)' /\ (g = "done" => Settled')
    BY <1>1, <2>1, TurnTaken
  <2> USE <1>3 DEF hookVars, engineVars, placeVars, Stopped, Tracked, Settled, ToggleAt
  <2>3. CASE Authenticated(t)
    <3>1. ~running /\ Stopped /\ taps[t] = "auth"
      BY <2>2, <2>3 DEF Authenticated
    <3>2. CASE Await(t, "done") /\ UNCHANGED <<ref, running, engineVars, tracker, held>>
      BY <2>3, <3>1, <3>2 DEF Authenticated
    <3>3. CASE /\ ref
               /\ Await(t, IF running THEN "done" ELSE "init")
               /\ running' = TRUE
               /\ UNCHANGED <<ref, engineVars, tracker, held>>
      BY <2>3, <3>1, <3>3 DEF Authenticated
    <3>4. CASE /\ Await(t, "init")
               /\ ref' = TRUE /\ running' = TRUE /\ active' = FALSE
               /\ tracker' = "idle" /\ held' = FALSE
      BY <2>3, <3>1, <3>4 DEF Authenticated
    <3> QED
      BY <2>3, <3>2, <3>3, <3>4 DEF Authenticated
  <2>4. CASE CacheOpened(t)
    BY <2>2, <2>4 DEF CacheOpened
  <2>5. CASE PermissionsRead(t)
    BY <2>2, <2>5 DEF PermissionsRead
  <2>6. CASE PositionWatched(t)
    BY <2>2, <2>6 DEF PositionWatched
  <2>7. CASE TaskRegistered(t)
    BY <2>2, <2>7 DEF TaskRegistered
  <2>8. CASE StateRead(t)
    BY <2>2, <2>8 DEF StateRead
  <2>9. CASE PlayerReset(t)
    BY <2>2, <2>9 DEF PlayerReset, LetGo
  <2>10. CASE TaskUnregistered(t)
    BY <2>2, <2>10 DEF TaskUnregistered, Leave
  <2>11. ~StartFails(t) /\ ~StopFails(t)
    BY <1>1, <2>2 DEF StartFails, StopFails, Fault
  <2> QED
    BY <2>1, <2>3, <2>4, <2>5, <2>6, <2>7, <2>8, <2>9, <2>10, <2>11 DEF TapStep
<1>6. CASE ~Press /\ ~\E t \in DOMAIN taps : TapStep(t)
  <2>1. UNCHANGED <<taps, toggleVars>>
    BY <1>6, OthersLeaveToggle
  <2> QED
    BY <1>2, <2>1
       DEF TapsInTurn, toggleVars, ToggleAt, Quiet, Settled, Stopped, Tracked
<1> QED
  BY <1>4, <1>5, <1>6

\* The invariant of the taps: types, the engine's story and a walk that is as
\* far as the last tap has come.
LEMMA WalkInvariant == Spec => [](WalkInv /\ TapsInTurn)
<1>1. Init => WalkInv /\ TapsInTurn
  <2> SUFFICES ASSUME Init PROVE WalkInv /\ TapsInTurn
    OBVIOUS
  <2>1. TypeInv
    BY TypeInit
  <2>2. PacingMatchesStory /\ Unbuilt /\ StoreNamesStory
    BY DEF Init, PacingMatchesStory, Unbuilt, StoreNamesStory
  <2>3. TapsInTurn
    BY DEF Init, TapsInTurn, Settled, Stopped
  <2> QED
    BY <2>1, <2>2, <2>3 DEF WalkInv
<1>2. ASSUME WalkInv, TapsInTurn, PacingMatchesStory', [Next]_vars
      PROVE  (WalkInv /\ TapsInTurn)'
  BY <1>2, TypeStep, UnbuiltStep, StoreStep, TurnStep DEF WalkInv, TypeInv
<1> QED
  BY <1>1, <1>2, EngineSound, PTL DEF Spec

\* Engine, pacing, store and screen tell of one walk; after taps that waited
\* for each other and calls that succeeded, a walk that runs is tracked and
\* triggers stories, and hears their ends.
THEOREM WalkIsSound == Spec => []WalkSound
<1>1. ASSUME WalkInv, TapsInTurn
      PROVE  WalkSound
  <2>1. running \in BOOLEAN /\ isWalking \in BOOLEAN
    BY <1>1 DEF WalkInv, TypeInv, TypeOK
  <2>2. Undisturbed => /\ isWalking <=> running
                       /\ running => Tracked /\ active
    BY <1>1, <2>1 DEF TapsInTurn, Undisturbed, Settled, Stopped, Tracked
  <2>3. Undisturbed => isWalking = running
    BY <2>1, <2>2
  <2> QED
    BY <1>1, <2>2, <2>3 DEF WalkInv, TypeInv, WalkSound, WalkReady, Tracked
<1> QED
  BY <1>1, WalkInvariant, PTL

\* ... and a walk that was stopped leaves no location subscription, no
\* background task, no tracking and no engine that triggers.
THEOREM StopLeavesNothing == Spec => []StopStops
<1>1. WalkInv /\ TapsInTurn => StopStops
  BY DEF TapsInTurn, StopStops, Undisturbed, Settled, Stopped
<1> QED
  BY <1>1, WalkInvariant, PTL

-----------------------------------------------------------------------------
(***************************************************************************)
(* Stories in turn.                                                        *)
(***************************************************************************)
\* Overlapping fetches stay noted.
LEMMA OverlapKept ==
  ASSUME TypeOK, [Next]_vars, ~overlapped'
  PROVE  ~overlapped
<1>1. CASE \E t \in DOMAIN taps : TapStep(t)
  BY <1>1 DEF TapStep, Authenticated, CacheOpened, PermissionsRead, PositionWatched,
     TaskRegistered, StartFails, StateRead, PlayerReset, TaskUnregistered, StopFails, noteVars
<1>2. CASE \E p \in DOMAIN plays : PlayStep(p)
  BY <1>2 DEF PlayStep, PathFound, QueueReset, TrackAdded, PlayIssued, PlayFails, noteVars
<1>3. CASE ~(\E t \in DOMAIN taps : TapStep(t)) /\ ~(\E p \in DOMAIN plays : PlayStep(p))
  BY <1>3 DEF Next, vars, Press, LocationUpdate, FetchAnswered, CooldownElapses, Native,
     TrackLoaded, TrackEnds, PlaybackError, PauseOrPlay, RemoteStop, RemoteReset, noteVars
<1> QED
  BY <1>1, <1>2, <1>3

\* The end of a story in those terms: only a sounding player has one to end,
\* and what still sounds afterwards is about to be dropped.
LEMMA CompleteVoices ==
  ASSUME TypeOK, PacingMatchesStory, Voices, Sounding, Complete,
         UNCHANGED <<fetches, plays, queue>>, Sounding' => Sounding /\ Resetting'
  PROVE  Voices'
<1>1. pacing # "ready" /\ fetches = 0
  BY DEF Voices, ReadyQuiet, OneFetch, TypeOK
<1>2. \A p \in DOMAIN plays : plays[p].stage \notin {"path", "reset", "add"}
  BY DEF Voices, Preparing
<1>3. OneFetch' /\ Preparing'
  BY <1>1, <1>2 DEF OneFetch, Preparing
<1>4. ReadyQuiet' /\ Dropping' /\ OwnTrack'
  BY <1>1 DEF ReadyQuiet, Dropping, OwnTrack, Complete, Voices
<1> QED
  BY <1>3, <1>4 DEF Voices

\* A reset, or anything else that silences the player.
LEMMA SilencedVoices ==
  ASSUME Voices, ~Sounding', UNCHANGED <<fetches, story, pacing, plays>>,
         native' = "idle" \/ UNCHANGED native
  PROVE  Voices'
  BY DEF Voices, OneFetch, ReadyQuiet, Dropping, OwnTrack, Preparing

\* A step that leaves the engine alone, and the player as it sounds.
LEMMA SameVoices ==
  ASSUME Voices, UNCHANGED <<fetches, story, pacing, plays, queue>>,
         Sounding' <=> Sounding, Resetting => Resetting',
         native = "idle" /\ ~Sounding => native' = "idle"
  PROVE  Voices'
  BY DEF Voices, OneFetch, ReadyQuiet, Dropping, OwnTrack, Preparing

\* The native play command changes nothing of that.
LEMMA NativePlaySounds ==
  ASSUME NativePlay, UNCHANGED queue
  PROVE  (Sounding' <=> Sounding) /\ (native = "idle" /\ ~Sounding => native' = "idle")
  BY DEF NativePlay, Sounding

\* AudioPlayer.stop up to its reset.
LEMMA InterruptVoices ==
  ASSUME TypeOK, PacingMatchesStory, Voices, Interrupt, Resetting',
         UNCHANGED <<fetches, plays, queue, native>>
  PROVE  Voices'
<1>1. Sounding' <=> Sounding
  BY DEF Sounding
<1>2. CASE native \in {"playing", "paused"}
  <2>1. Sounding /\ Complete
    BY <1>2 DEF Sounding, Interrupt
  <2> QED
    BY <1>1, <2>1, CompleteVoices
<1>3. CASE native \notin {"playing", "paused"}
  <2>1. UNCHANGED <<story, pacing>>
    BY <1>3 DEF Interrupt
  <2> QED
    BY <1>1, <2>1, SameVoices
<1> QED
  BY <1>2, <1>3

\* A step of a toggle keeps to one voice.
LEMMA TapVoices ==
  ASSUME TypeOK, PacingMatchesStory, Unbuilt, Voices, faults' = 0,
         NEW t \in DOMAIN taps, TapStep(t), faults = 0
  PROVE  Voices'
<1> USE DEF engineVars, audioVars
<1>1. PICK g \in TapStages : Await(t, g)
  BY DEF TapStep, Authenticated, CacheOpened, PermissionsRead, PositionWatched,
         TaskRegistered, StartFails, StateRead, PlayerReset, TaskUnregistered,
         StopFails, TapStages
<1>2. DOMAIN taps' = DOMAIN taps /\ \A u \in DOMAIN taps : taps'[u] = IF u = t THEN g ELSE taps[u]
  BY <1>1, TapMoves DEF TypeOK
<1>3. CASE StateRead(t)
  <2>1. Await(t, "reset") /\ "reset" \in TapStages
    BY <1>3 DEF StateRead, TapStages
  <2>2. taps'[t] = "reset" /\ t \in DOMAIN taps'
    BY <2>1, TapMoves DEF TypeOK
  <2>3. Resetting'
    BY <2>2 DEF Resetting
  <2> QED
    BY <1>3, <2>3, InterruptVoices DEF StateRead
<1>4. CASE PlayerReset(t)
  <2>1. native' = "idle" /\ ~Sounding'
    BY <1>4 DEF PlayerReset, ResetNative, Sounding
  <2>2. UNCHANGED <<fetches, story, pacing, plays>>
    BY <1>4 DEF PlayerReset
  <2> QED
    BY <2>1, <2>2, SilencedVoices
<1>5. CASE Authenticated(t) /\ ~ref
  <2>1. story = None /\ pacing = "ready"
    BY <1>5 DEF Unbuilt
  <2>2. UNCHANGED <<story, pacing>>
    BY <1>5, <2>1 DEF Authenticated
  <2>3. UNCHANGED <<fetches, plays, queue, native, resets>> /\ taps[t] = "auth"
    BY <1>5 DEF Authenticated
  <2>4. (Sounding' <=> Sounding) /\ (Resetting => Resetting')
    BY <1>2, <2>3 DEF Sounding, Resetting
  <2> QED
    BY <2>2, <2>3, <2>4, SameVoices
<1>6. CASE /\ ~StateRead(t) /\ ~PlayerReset(t) /\ ~(Authenticated(t) /\ ~ref)
  <2>1. UNCHANGED <<fetches, story, pacing, plays, queue, native, resets>> /\ taps[t] # "reset"
    BY <1>6 DEF TapStep, Authenticated, CacheOpened, PermissionsRead, PositionWatched,
       TaskRegistered, StartFails, TaskUnregistered, StopFails, Fault
  <2>2. (Sounding' <=> Sounding) /\ (Resetting => Resetting')
    BY <1>2, <2>1 DEF Sounding, Resetting
  <2> QED
    BY <2>1, <2>2, SameVoices
<1> QED
  BY <1>3, <1>4, <1>5, <1>6

\* So does a step of a playback.
LEMMA PlayVoices ==
  ASSUME TypeOK, Voices, faults' = 0, faults = 0, NEW p \in DOMAIN plays, PlayStep(p)
  PROVE  Voices'
<1> USE DEF engineVars, audioVars
<1>1. PICK g \in PlayStages : Advance(p, g)
  BY DEF PlayStep, PathFound, QueueReset, TrackAdded, PlayIssued, PlayFails, PlayStages
<1>2. /\ Len(plays') = Len(plays) /\ DOMAIN plays' = DOMAIN plays
      /\ \A q \in DOMAIN plays : /\ plays'[q].story = plays[q].story
                                 /\ plays'[q].stage = IF q = p THEN g ELSE plays[q].stage
  BY <1>1, PlayMoves DEF TypeOK, PlayRecords
<1>3. UNCHANGED <<fetches, story, pacing, taps, resets>>
  BY DEF PlayStep, PathFound, QueueReset, TrackAdded, PlayIssued, PlayFails
<1>4. Resetting' <=> Resetting
  BY <1>3 DEF Resetting
<1>5. \A q \in DOMAIN plays : plays[q].stage \in {"path", "reset", "add"} =>
         /\ q = Len(plays) /\ pacing = "playing" /\ plays[q].story = story
         /\ ~Sounding /\ (plays[q].stage = "add" => native = "idle")
  BY DEF Voices, Preparing
<1>6. CASE PathFound(p)
  <2>1. plays[p].stage = "path" /\ UNCHANGED <<queue, native>>
    BY <1>6 DEF PathFound
  <2>2. Advance(p, "done") \/ Advance(p, "reset")
    BY <1>6 DEF PathFound
  <2>3. plays'[p].stage \in {"done", "reset"}
    BY <2>2, PlayMoves DEF TypeOK, PlayRecords, PlayStages
  <2>4. g \in {"done", "reset"}
    BY <1>2, <2>3
  <2>5. Sounding' <=> Sounding
    BY <2>1 DEF Sounding
  <2>6. Preparing'
    BY <1>2, <1>3, <1>5, <2>1, <2>4, <2>5 DEF Preparing
  <2> QED
    BY <1>3, <1>4, <2>1, <2>5, <2>6 DEF Voices, OneFetch, ReadyQuiet, Dropping, OwnTrack
<1>7. CASE QueueReset(p)
  <2>1. plays[p].stage = "reset" /\ native' = "idle" /\ ~Sounding'
    BY <1>7 DEF QueueReset, ResetNative, Sounding
  <2>2. Preparing'
    BY <1>2, <1>3, <1>5, <2>1 DEF Preparing
  <2> QED
    BY <1>3, <2>1, <2>2 DEF Voices, OneFetch, ReadyQuiet, Dropping, OwnTrack
<1>8. CASE TrackAdded(p)
  <2>1. /\ plays[p].stage = "add" /\ UNCHANGED native
        /\ queue' = Append(queue, plays[p].story)
    BY <1>8 DEF TrackAdded
  <2>2. /\ native = "idle" /\ ~Sounding /\ p = Len(plays)
        /\ pacing = "playing" /\ plays[p].story = story
    BY <1>5, <2>1
  <2>3. queue = <<>>
    BY <2>2 DEF Sounding
  <2>4. queue' = <<story>>
    BY <2>1, <2>2, <2>3
  <2>5. Advance(p, "play")
    BY <1>8 DEF TrackAdded
  <2>6. plays'[p].stage = "play"
    BY <2>5, PlayMoves DEF TypeOK, PlayRecords, PlayStages
  <2>7. \A q \in DOMAIN plays' : plays'[q].stage \notin {"path", "reset", "add"}
    BY <1>2, <1>5, <2>2, <2>6
  <2> QED
    BY <1>3, <2>2, <2>4, <2>7 DEF Voices, OneFetch, ReadyQuiet, Dropping, OwnTrack, Preparing
<1>9. CASE PlayIssued(p)
  <2>1. NativePlay /\ UNCHANGED queue /\ Advance(p, "done")
    BY <1>9 DEF PlayIssued
  <2>2. plays'[p].stage = "done"
    BY <2>1, PlayMoves DEF TypeOK, PlayRecords, PlayStages
  <2>3. (Sounding' <=> Sounding) /\ (native = "idle" /\ ~Sounding => native' = "idle")
    BY <2>1, NativePlaySounds
  <2>4. \A q \in DOMAIN plays' : plays'[q].stage \in {"path", "reset", "add"} =>
          plays[q].stage = plays'[q].stage /\ plays'[q].story = plays[q].story
    BY <1>2, <2>2
  <2>5. Preparing'
    BY <1>2, <1>3, <1>5, <2>3, <2>4 DEF Preparing
  <2> QED
    BY <1>3, <1>4, <2>1, <2>3, <2>5 DEF Voices, OneFetch, ReadyQuiet, Dropping, OwnTrack
<1>10. ~PlayFails(p)
  BY DEF PlayFails, Fault
<1> QED
  BY <1>6, <1>7, <1>8, <1>9, <1>10 DEF PlayStep

\* Every step does, until a fetch overlaps another or a call fails.
LEMMA VoiceStep ==
  ASSUME TypeOK, PacingMatchesStory, Unbuilt, OneVoice, [Next]_vars
  PROVE  OneVoice'
<1> SUFFICES ASSUME ~overlapped', faults' = 0
             PROVE  Voices'
  BY DEF OneVoice
<1>1. ~overlapped /\ faults = 0 /\ Voices
  BY OverlapKept, FaultsKept DEF OneVoice
<1> USE DEF engineVars, audioVars, noteVars
<1>2. CASE Press
  <2>1. UNCHANGED <<fetches, story, pacing, plays, queue, native, resets>>
    BY <1>2 DEF Press
  <2>2. PICK g \in TapStages : taps' = Append(taps, g)
    BY <1>2 DEF Press, TapStages
  <2>3. \A u \in DOMAIN taps : u \in DOMAIN taps' /\ taps'[u] = taps[u]
    BY <2>2, AddToSeq DEF TypeOK
  <2>4. (Sounding' <=> Sounding) /\ (Resetting => Resetting')
    BY <2>1, <2>3 DEF Sounding, Resetting
  <2> QED
    BY <1>1, <2>1, <2>4, SameVoices
<1>3. CASE LocationUpdate
  <2>1. /\ pacing = "ready" /\ UNCHANGED <<story, pacing, plays, queue, native, resets, taps>>
        /\ fetches' = fetches + 1 /\ ~(fetches > 0)
    BY <1>3 DEF LocationUpdate, CanPlayNext
  <2>2. fetches' = 1
    BY <2>1 DEF TypeOK
  <2> QED
    BY <1>1, <2>1, <2>2
       DEF Voices, OneFetch, ReadyQuiet, Dropping, OwnTrack, Preparing, Sounding, Resetting
<1>4. CASE FetchAnswered
  <2>1. /\ fetches' = 0 /\ pacing = "ready" /\ ~Sounding
        /\ \A p \in DOMAIN plays : plays[p].stage \notin {"path", "reset", "add"}
    BY <1>1, <1>4 DEF FetchAnswered, Voices, OneFetch, ReadyQuiet, Preparing
  <2>2. UNCHANGED <<queue, native>> /\ ~Sounding'
    BY <1>4, <2>1 DEF FetchAnswered, Sounding
  <2>3. CASE \E s \in Stories : Trigger(s)
    <3>1. PICK s \in Stories : Trigger(s)
      BY <2>3
    <3>2. plays' = Append(plays, [story |-> s, stage |-> "path"]) /\ story' = s
          /\ pacing' = "playing"
      BY <3>1 DEF Trigger
    <3>3. [story |-> s, stage |-> "path"] \in PlayRecords /\ plays \in Seq(PlayRecords)
      BY DEF PlayRecords, PlayStages, TypeOK
    <3>4. /\ Len(plays') = Len(plays) + 1
          /\ DOMAIN plays = 1..Len(plays) /\ DOMAIN plays' = 1..Len(plays')
          /\ Len(plays) \in Nat
          /\ \A q \in DOMAIN plays : plays'[q] = plays[q]
          /\ plays'[Len(plays')] = [story |-> s, stage |-> "path"]
      BY <3>2, <3>3, AddToSeq
    <3>5. Preparing'
      BY <2>1, <2>2, <3>2, <3>4 DEF Preparing
    <3> QED
      BY <2>1, <2>2, <3>2, <3>5 DEF Voices, OneFetch, ReadyQuiet, Dropping, OwnTrack
  <2>4. CASE UNCHANGED <<story, pacing, plays, shown, isPlaying, broken>>
    BY <2>1, <2>2, <2>4 DEF Voices, OneFetch, ReadyQuiet, Dropping, OwnTrack, Preparing
  <2> QED
    BY <1>4, <2>3, <2>4 DEF FetchAnswered
<1>5. CASE CooldownElapses
  <2>1. ~Resetting /\ pacing = "cooldown" /\ pacing' = "ready"
        /\ UNCHANGED <<fetches, story, plays, queue, native>>
    BY <1>5 DEF CooldownElapses, Resetting
  <2>2. ~Sounding /\ ~Sounding'
    BY <1>1, <2>1 DEF Voices, Dropping, Sounding
  <2> QED
    BY <1>1, <2>1, <2>2 DEF Voices, OneFetch, ReadyQuiet, Dropping, OwnTrack, Preparing
<1>6. CASE \E t \in DOMAIN taps : TapStep(t)
  BY <1>1, <1>6, TapVoices
<1>7. CASE \E p \in DOMAIN plays : PlayStep(p)
  BY <1>1, <1>7, PlayVoices
<1>8. CASE TrackLoaded
  <2>1. (Sounding' <=> Sounding) /\ Sounding /\ (Resetting' <=> Resetting)
    BY <1>8 DEF TrackLoaded, Sounding, Resetting
  <2> QED
    BY <1>1, <1>8, <2>1, SameVoices DEF TrackLoaded
<1>9. CASE TrackEnds
  <2>1. Sounding /\ UNCHANGED <<fetches, plays, taps, resets>>
    BY <1>9 DEF TrackEnds, Sounding
  <2>2. CASE Len(queue) > 1
    <3>1. native' = "loading" /\ UNCHANGED <<story, pacing>> /\ Sounding'
      BY <1>9, <2>2 DEF TrackEnds, Sounding
    <3>2. story = None
      <4>1. queue = <<story>> => Len(queue) = 1
        OBVIOUS
      <4> QED
        BY <1>1, <2>1, <2>2, <4>1 DEF Voices, OwnTrack
    <3>3. Resetting' <=> Resetting
      BY <2>1 DEF Resetting
    <3> QED
      BY <1>1, <2>1, <3>1, <3>2, <3>3
         DEF Voices, OneFetch, ReadyQuiet, Dropping, OwnTrack, Preparing
  <2>3. CASE ~(Len(queue) > 1)
    <3>1. Complete /\ UNCHANGED queue /\ ~Sounding'
      BY <1>9, <2>3 DEF TrackEnds, Sounding
    <3> QED
      BY <1>1, <2>1, <3>1, CompleteVoices
  <2> QED
    BY <2>2, <2>3
<1>10. CASE PauseOrPlay
  <2>1. UNCHANGED <<fetches, story, pacing, plays, queue, taps, resets>>
    BY <1>10 DEF PauseOrPlay
  <2>2. (Sounding' <=> Sounding) /\ (native = "idle" /\ ~Sounding => native' = "idle")
    <3>1. CASE native \in {"loading", "playing"} /\ native' = "paused"
      BY <2>1, <3>1 DEF Sounding
    <3>2. CASE NativePlay
      BY <2>1, <3>2, NativePlaySounds
    <3> QED
      BY <1>10, <3>1, <3>2 DEF PauseOrPlay
  <2>3. Resetting' <=> Resetting
    BY <2>1 DEF Resetting
  <2> QED
    BY <1>1, <2>1, <2>2, <2>3, SameVoices
<1>11. CASE RemoteStop
  <2>1. Resetting'
    BY <1>11 DEF RemoteStop, Resetting
  <2> QED
    BY <1>1, <1>11, <2>1, InterruptVoices DEF RemoteStop
<1>12. CASE RemoteReset
  <2>1. native' = "idle" /\ ~Sounding'
    BY <1>12 DEF RemoteReset, ResetNative, Sounding
  <2> QED
    BY <1>1, <1>12, <2>1, SilencedVoices DEF RemoteReset
<1>13. CASE UNCHANGED vars
  <2>1. (Sounding' <=> Sounding) /\ (Resetting' <=> Resetting)
    BY <1>13 DEF vars, Sounding, Resetting
  <2> QED
    BY <1>1, <1>13, <2>1, SameVoices DEF vars
<1>14. ~PlaybackError
  BY <1>1 DEF PlaybackError, Fault
<1> QED
  BY <1>2, <1>3, <1>4, <1>5, <1>6, <1>7, <1>8, <1>9, <1>10, <1>11, <1>12, <1>13, <1>14
     DEF Next, Native

\* The invariant of the stories' turns.
LEMMA VoiceInvariant == Spec => []OneVoice
<1>1. Init => OneVoice
  BY DEF Init, OneVoice, Voices, OneFetch, ReadyQuiet, Dropping, OwnTrack, Preparing, Sounding
<1>2. ASSUME WalkInv, OneVoice, [Next]_vars
      PROVE  OneVoice'
  BY <1>2, VoiceStep DEF WalkInv, TypeInv
<1> QED
  BY <1>1, <1>2, WalkInvariant, PTL DEF Spec

\* As long as fetches do not overlap and no call fails, however hastily the
\* user taps: a story only starts after the cooldown and never over another,
\* and what is reported when a track ends is that track.
THEOREM StoriesKeepTheirTurn == Spec => StoriesInTurn
<1>1. ASSUME WalkInv, OneVoice, [Next]_vars, Len(plays') > Len(plays)
      PROVE  overlapped \/ faults > 0 \/ pacing = "ready"
  <2> SUFFICES ASSUME ~overlapped, faults = 0
               PROVE  pacing = "ready"
    BY <1>1 DEF WalkInv, TypeInv, TypeOK
  <2>1. Voices
    BY <1>1 DEF OneVoice
  <2>2. plays' # plays /\ plays \in Seq(PlayRecords)
    BY <1>1 DEF WalkInv, TypeInv, TypeOK, PlayRecords
  <2>3. CASE FetchAnswered
    BY <2>1, <2>3 DEF FetchAnswered, Voices, OneFetch
  <2>4. CASE \E p \in DOMAIN plays : PlayStep(p)
    <3>1. PICK p \in DOMAIN plays : PlayStep(p)
      BY <2>4
    <3>2. PICK g \in PlayStages : Advance(p, g)
      BY <3>1 DEF PlayStep, PathFound, QueueReset, TrackAdded, PlayIssued, PlayFails,
         PlayStages
    <3>3. Len(plays') = Len(plays)
      BY <2>2, <3>2, PlayMoves
    <3> QED
      BY <1>1, <2>2, <3>3
  <2>5. ASSUME ~FetchAnswered, ~\E p \in DOMAIN plays : PlayStep(p)
        PROVE  UNCHANGED plays
    BY <1>1, <2>5 DEF Next, vars, Press, LocationUpdate, CooldownElapses, TapStep,
       Authenticated, CacheOpened, PermissionsRead, PositionWatched, TaskRegistered,
       StartFails, StateRead, PlayerReset, TaskUnregistered, StopFails, Native, TrackLoaded,
       TrackEnds, PlaybackError, PauseOrPlay, RemoteStop, RemoteReset
  <2> QED
    BY <2>2, <2>3, <2>4, <2>5
<1>2. ASSUME WalkInv, OneVoice, TrackEnds, NEW s \in Stories, reported'[s] # reported[s]
      PROVE  overlapped \/ faults > 0 \/ s = Head(queue)
  <2> SUFFICES ASSUME ~overlapped, faults = 0
               PROVE  s = Head(queue)
    BY <1>2 DEF WalkInv, TypeInv, TypeOK
  <2>1. Voices /\ Sounding
    BY <1>2 DEF OneVoice, TrackEnds, Sounding
  <2>2. Complete
    BY <1>2 DEF TrackEnds
  <2>3. story = s /\ story # None
    BY <1>2, <2>2 DEF Complete, WalkInv, TypeInv, TypeOK
  <2>4. queue = <<s>>
    BY <2>1, <2>3 DEF Voices, OwnTrack
  <2> QED
    BY <2>4
<1>3. WalkInv /\ OneVoice /\ [Next]_vars =>
        [Len(plays') > Len(plays) => overlapped \/ faults > 0 \/ pacing = "ready"]_vars
  BY <1>1
<1>4. WalkInv /\ OneVoice /\ [Next]_vars =>
        [TrackEnds => overlapped \/ faults > 0
          \/ \A s \in Stories : reported'[s] # reported[s] => s = Head(queue)]_vars
  BY <1>2
<1> QED
  BY <1>3, <1>4, WalkInvariant, VoiceInvariant, PTL
     DEF Spec, StoriesInTurn, PacingKept, EndReportsTrack
=============================================================================
