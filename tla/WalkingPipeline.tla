-------------------------- MODULE WalkingPipeline --------------------------
(***************************************************************************)
(* The walking mode of the mobile app: the toggle of the home screen, the  *)
(* pipeline it starts and stops, location tracking, the story engine with  *)
(* its pacing, the audio player and the native player behind it.           *)
(*                                                                         *)
(* One JavaScript thread runs everything; a handler is cut into one action *)
(* per stretch between two awaits, so the actions of the toggles, fetches  *)
(* and playbacks in flight interleave at the awaits and nowhere else.      *)
(***************************************************************************)
EXTENDS Integers, Sequences, FiniteSets

CONSTANTS Stories,      \* stories near the walk
          None,         \* null
          Silent,       \* stories whose audio_url is null
          Controls,     \* TRUE: lock screen, interruptions and mini player act
          MaxTaps, MaxPlays, MaxFetches, MaxFaults     \* model bounds

ASSUME StoryAssumption == Silent \subseteq Stories /\ None \notin Stories
ASSUME FlagAssumption  == Controls \in BOOLEAN
ASSUME BoundAssumption == {MaxTaps, MaxPlays, MaxFetches, MaxFaults} \subseteq Nat

VARIABLES
    ref,       \* the screen holds a pipeline (pipelineRef.current # null)
    running,   \* that pipeline's `running'
    isWalking, \* walk store
    taps,      \* sequence: where the handler of each tap is
    active,    \* StoryEngine.isActive
    story,     \* StoryEngine.currentStory
    pacing,    \* "ready", "playing" or "cooldown" (PacingManager)
    shown,     \* player store: currentStory
    isPlaying, \* player store: isPlaying
    hooked,    \* the pipeline's callbacks are set on the audio player
    tracker,   \* "idle" or "active" (LocationTracker.state)
    held,      \* foregroundSubscription # null
    attached,  \* activeTracker is this tracker
    subs,      \* live foreground subscriptions of the operating system
    bg,        \* the background location task is registered
    fetches,   \* fetchNearbyStories calls in flight
    plays,     \* sequence of triggered playbacks: their story and stage
    queue,     \* native player: its queue
    native,    \* native player: its state
    resets,    \* resets that stops from outside the pipeline still have to do
    reported,  \* [Stories -> Nat], trackListening calls
    rushed,    \* some tap came while an earlier one was still handled
    overlapped,\* some fetch began while another was in flight
    broken,    \* some story was cut off: its playback failed, it was stopped
               \* while it loaded, or triggered for a walk that is over
    faults     \* failed native calls so far

hookVars   == <<ref, running, isWalking, hooked>>
engineVars == <<active, story, pacing>>
storeVars  == <<shown, isPlaying>>
placeVars  == <<tracker, held, attached, subs, bg>>
audioVars  == <<queue, native, resets>>
noteVars   == <<rushed, overlapped, broken>>
vars == <<hookVars, taps, engineVars, storeVars, placeVars, fetches, plays,
          audioVars, reported, noteVars, faults>>

Init ==
    /\ ref = FALSE /\ running = FALSE /\ isWalking = FALSE /\ hooked = FALSE
    /\ taps = <<>>
    /\ active = FALSE /\ story = None /\ pacing = "ready"
    /\ shown = None /\ isPlaying = FALSE
    /\ tracker = "idle" /\ held = FALSE /\ attached = FALSE
    /\ subs = 0 /\ bg = FALSE
    /\ fetches = 0 /\ plays = <<>>
    /\ queue = <<>> /\ native = "idle" /\ resets = 0
    /\ reported = [s \in Stories |-> 0]
    /\ rushed = FALSE /\ overlapped = FALSE /\ broken = FALSE /\ faults = 0

Quiet == \A t \in DOMAIN taps : taps[t] = "done"
Fault == faults < MaxFaults /\ faults' = faults + 1

\* Where the handler of tap t waits next.
Await(t, stage) == taps' = [taps EXCEPT ![t] = stage]

-----------------------------------------------------------------------------
(***************************************************************************)
(* What ends a story: the pipeline's onComplete.                           *)
(***************************************************************************)
\* Mutant: the engine keeps its story when it ends.
CompleteKeepsStory ==
    IF hooked
    THEN /\ pacing' = "cooldown" /\ story' = story
         /\ reported' = IF story = None THEN reported
                        ELSE [reported EXCEPT ![story] = @ + 1]
         /\ shown' = None /\ isPlaying' = FALSE
    ELSE UNCHANGED <<story, pacing, shown, isPlaying, reported>>

Complete ==
    IF hooked
    THEN /\ pacing' = "cooldown" /\ story' = None
         /\ reported' = IF story = None THEN reported
                        ELSE [reported EXCEPT ![story] = @ + 1]
         /\ shown' = None /\ isPlaying' = FALSE
    ELSE UNCHANGED <<story, pacing, shown, isPlaying, reported>>

\* AudioPlayer.stop up to its reset: a story that still loads is not playing
\* and is not reported.
Interrupt == IF native \in {"playing", "paused"} THEN Complete
             ELSE UNCHANGED <<story, pacing, shown, isPlaying, reported>>

ResetNative == queue' = <<>> /\ native' = "idle"

NativePlay == native' = CASE native = "paused"                 -> "playing"
                          [] native = "idle" /\ queue # <<>> -> "loading"
                          [] OTHER                            -> native

-----------------------------------------------------------------------------
(***************************************************************************)
(* The walk toggle: start.                                                 *)
(***************************************************************************)
\* toggleWalking up to its first await.  A tap that finds nothing to stop
\* changes nothing and is left out.
Press ==
    /\ Len(taps) < MaxTaps
    /\ rushed' = (rushed \/ ~Quiet)
    /\ IF isWalking
       THEN /\ ref /\ running
            /\ running' = FALSE /\ active' = FALSE
            /\ taps' = Append(taps, "halt")
       ELSE taps' = Append(taps, "auth") /\ UNCHANGED <<running, active>>
    /\ UNCHANGED <<ref, isWalking, hooked, story, pacing, storeVars, placeVars,
                   fetches, plays, audioVars, reported, faults, overlapped, broken>>

\* A new pipeline is built only where nothing of an abandoned one is left.
Calm == /\ fetches = 0 /\ subs = 0 /\ ~bg
        /\ \A p \in DOMAIN plays : plays[p].stage = "done"

\* No user id, or start() of the pipeline up to its first await.
Authenticated(t) ==
    /\ taps[t] = "auth"
    /\ \/ Await(t, "done") /\ UNCHANGED <<ref, running, engineVars, tracker, held>>
       \/ /\ ref
          /\ Await(t, IF running THEN "done" ELSE "init")
          /\ running' = TRUE
          /\ UNCHANGED <<ref, engineVars, tracker, held>>
       \/ /\ ~ref /\ Calm /\ \A u \in DOMAIN taps \ {t} : taps[u] = "done"
          /\ Await(t, "init")
          /\ ref' = TRUE /\ running' = TRUE
          /\ active' = FALSE /\ story' = None /\ pacing' = "ready"
          /\ tracker' = "idle" /\ held' = FALSE
    /\ UNCHANGED <<isWalking, hooked, storeVars, attached, subs, bg, fetches,
                   plays, audioVars, reported, faults, noteVars>>

\* The cache is open: callbacks, engine, and tracking up to its first await.
CacheOpened(t) ==
    /\ taps[t] = "init"
    /\ isWalking' = TRUE /\ hooked' = TRUE /\ active' = TRUE
    /\ Await(t, IF tracker = "idle" THEN "perm" ELSE "done")
    /\ UNCHANGED <<ref, running, story, pacing, storeVars, placeVars, fetches,
                   plays, audioVars, reported, faults, noteVars>>

PermissionsRead(t) ==
    /\ taps[t] = "perm"
    /\ attached' = TRUE /\ tracker' = "active"
    /\ Await(t, "watch")
    /\ UNCHANGED <<hookVars, engineVars, storeVars, held, subs, bg, fetches,
                   plays, audioVars, reported, faults, noteVars>>

PositionWatched(t) ==
    /\ taps[t] = "watch"
    /\ subs' = subs + 1 /\ held' = TRUE
    /\ Await(t, "register")
    /\ UNCHANGED <<hookVars, engineVars, storeVars, tracker, attached, bg,
                   fetches, plays, audioVars, reported, faults, noteVars>>

TaskRegistered(t) ==
    /\ taps[t] = "register"
    /\ bg' = TRUE
    /\ Await(t, "done")
    /\ UNCHANGED <<hookVars, engineVars, storeVars, tracker, held, attached,
                   subs, fetches, plays, audioVars, reported, faults, noteVars>>

\* An await of start() rejects: the screen drops the pipeline as it is.
StartFails(t) ==
    /\ taps[t] \in {"init", "perm", "watch", "register"} /\ Fault
    /\ ref' = FALSE
    /\ Await(t, "done")
    /\ UNCHANGED <<running, isWalking, hooked, engineVars, storeVars, placeVars,
                   fetches, plays, audioVars, reported, noteVars>>

-----------------------------------------------------------------------------
(***************************************************************************)
(* The walk toggle: stop.                                                  *)
(***************************************************************************)
StateRead(t) ==
    /\ taps[t] = "halt"
    /\ Interrupt
    /\ Await(t, "reset")
    /\ broken' = (broken \/ story' # None)      \* it still loads
    /\ UNCHANGED <<hookVars, active, placeVars, fetches, plays, audioVars, faults,
                   rushed, overlapped>>

\* Mutant: the player store is not told.
LeaveKeepsPlaying == /\ hooked' = FALSE /\ isWalking' = FALSE
                     /\ shown' = None /\ isPlaying' = isPlaying

\* What stop() does last.
Leave == /\ hooked' = FALSE /\ isWalking' = FALSE
         /\ shown' = None /\ isPlaying' = FALSE

\* Mutant: the subscription is forgotten but not removed.
LetGoLeaks   == held' = FALSE /\ UNCHANGED subs
LetGo      == held' = FALSE /\ subs' = IF held THEN subs - 1 ELSE subs

\* The reset is done: LocationTracker.stop up to its first await.
PlayerReset(t) ==
    /\ taps[t] = "reset"
    /\ ResetNative
    /\ IF tracker = "idle"
       THEN /\ Leave /\ Await(t, "done")
            /\ UNCHANGED <<tracker, held, subs>>
       ELSE /\ tracker' = "idle" /\ LetGo
            /\ Await(t, "unregister")
            /\ UNCHANGED <<hooked, isWalking, shown, isPlaying>>
    /\ UNCHANGED <<ref, running, engineVars, attached, bg, fetches, plays,
                   resets, reported, faults, noteVars>>

TaskUnregistered(t) ==
    /\ taps[t] = "unregister"
    /\ bg' = FALSE /\ attached' = FALSE
    /\ Leave
    /\ Await(t, "done")
    /\ UNCHANGED <<ref, running, engineVars, tracker, held, subs, fetches,
                   plays, audioVars, reported, faults, noteVars>>

\* An await of stop() rejects: the rest of it is skipped.
StopFails(t) ==
    /\ taps[t] \in {"halt", "reset", "unregister"} /\ Fault
    /\ Await(t, "done")
    /\ UNCHANGED <<hookVars, engineVars, storeVars, placeVars, fetches, plays,
                   audioVars, reported, noteVars>>

-----------------------------------------------------------------------------
(***************************************************************************)
(* Location updates, story selection, playback.                            *)
(***************************************************************************)
\* Mutant: no cooldown.
CanPlayNextAtOnce == pacing # "playing"
CanPlayNext == pacing = "ready"

\* Whatever subscription is alive calls back; updates that ask for nothing
\* are left out.
LocationUpdate ==
    /\ subs > 0 \/ (bg /\ attached)
    /\ active /\ CanPlayNext
    /\ fetches < MaxFetches
    /\ fetches' = fetches + 1 /\ overlapped' = (overlapped \/ fetches > 0)
    /\ UNCHANGED <<hookVars, taps, engineVars, storeVars, placeVars, plays,
                   audioVars, reported, faults, rushed, broken>>

Unheard == {s \in Stories : reported[s] = 0}

\* The server answers with a story that is played, or with nothing to play;
\* neither the pacing nor isActive is looked at again.
Trigger(s) ==
    /\ s \in Unheard /\ Len(plays) < MaxPlays
    /\ story' = s /\ pacing' = "playing"
    /\ plays' = Append(plays, [story |-> s, stage |-> "path"])
    /\ shown' = s /\ isPlaying' = TRUE
    /\ broken' = (broken \/ ~running \/ ~hooked)    \* for a walk that is over

FetchAnswered ==
    /\ fetches > 0 /\ fetches' = fetches - 1
    /\ \/ \E s \in Stories : Trigger(s)
       \/ UNCHANGED <<story, pacing, plays, shown, isPlaying, broken>>
    /\ UNCHANGED <<hookVars, taps, active, placeVars, audioVars, reported, faults,
                   rushed, overlapped>>

\* The minute outlasts a pending reset of the native player.
CooldownElapses ==
    /\ pacing = "cooldown" /\ pacing' = "ready"
    /\ resets = 0 /\ \A t \in DOMAIN taps : taps[t] # "reset"
    /\ UNCHANGED <<hookVars, taps, active, story, storeVars, placeVars, fetches,
                   plays, audioVars, reported, faults, noteVars>>

Advance(p, stage) == plays' = [plays EXCEPT ![p].stage = stage]

\* The cache answered with a file or with null; without audio, onError.
PathFound(p) ==
    /\ plays[p].stage = "path"
    /\ IF plays[p].story \in Silent
       THEN /\ Advance(p, "done")
            /\ isPlaying' = (isPlaying /\ ~hooked)
       ELSE Advance(p, "reset") /\ UNCHANGED isPlaying
    /\ UNCHANGED <<hookVars, taps, engineVars, shown, placeVars, fetches,
                   audioVars, reported, faults, noteVars>>

QueueReset(p) ==
    /\ plays[p].stage = "reset"
    /\ ResetNative
    /\ Advance(p, "add")
    /\ UNCHANGED <<hookVars, taps, engineVars, storeVars, placeVars, fetches,
                   resets, reported, faults, noteVars>>

TrackAdded(p) ==
    /\ plays[p].stage = "add"
    /\ queue' = Append(queue, plays[p].story)
    /\ Advance(p, "play")
    /\ UNCHANGED <<hookVars, taps, engineVars, storeVars, placeVars, fetches,
                   native, resets, reported, faults, noteVars>>

PlayIssued(p) ==
    /\ plays[p].stage = "play"
    /\ NativePlay
    /\ Advance(p, "done")
    /\ UNCHANGED <<hookVars, taps, engineVars, storeVars, placeVars, fetches,
                   queue, resets, reported, faults, noteVars>>

\* The cache or the native player rejects; nobody awaits the result.
PlayFails(p) ==
    /\ plays[p].stage # "done" /\ Fault
    /\ Advance(p, "done") /\ broken' = TRUE
    /\ UNCHANGED <<hookVars, taps, engineVars, storeVars, placeVars, fetches,
                   audioVars, reported, rushed, overlapped>>

-----------------------------------------------------------------------------
(***************************************************************************)
(* The native player and what acts on it from outside.                     *)
(***************************************************************************)
TrackLoaded ==
    /\ native = "loading" /\ native' = "playing"
    /\ UNCHANGED <<hookVars, taps, engineVars, storeVars, placeVars, fetches,
                   plays, queue, resets, reported, faults, noteVars>>

\* A track ends; after the last one the player says so.
TrackEnds ==
    /\ native = "playing"
    /\ IF Len(queue) > 1
       THEN /\ queue' = Tail(queue) /\ native' = "loading"
            /\ UNCHANGED <<story, pacing, storeVars, reported>>
       ELSE native' = "ended" /\ Complete /\ UNCHANGED queue
    /\ UNCHANGED <<hookVars, taps, active, placeVars, fetches, plays, resets, faults, noteVars>>

\* The stream breaks: an event nothing subscribes to.
PlaybackError ==
    /\ native \in {"loading", "playing"} /\ Fault
    /\ native' = "ended" /\ broken' = TRUE
    /\ UNCHANGED <<hookVars, taps, engineVars, storeVars, placeVars, fetches,
                   plays, queue, resets, reported, rushed, overlapped>>

\* Lock screen and interruptions (RemotePlay, RemotePause, RemoteDuck), and
\* the mini player's button.
PauseOrPlay ==
    /\ Controls
    /\ \/ native \in {"loading", "playing"} /\ native' = "paused"
       \/ NativePlay /\ native' # native
    /\ UNCHANGED <<hookVars, taps, engineVars, storeVars, placeVars, fetches,
                   plays, queue, resets, reported, faults, noteVars>>

RemoteStop ==
    /\ Controls /\ resets = 0 /\ plays # <<>>
    /\ Interrupt
    /\ resets' = 1
    /\ UNCHANGED <<hookVars, taps, active, placeVars, fetches, plays, queue,
                   native, faults, noteVars>>

RemoteReset ==
    /\ resets = 1 /\ resets' = 0
    /\ ResetNative
    /\ UNCHANGED <<hookVars, taps, engineVars, storeVars, placeVars, fetches,
                   plays, reported, faults, noteVars>>

-----------------------------------------------------------------------------
TapStep(t) == \/ Authenticated(t) \/ CacheOpened(t) \/ PermissionsRead(t)
              \/ PositionWatched(t) \/ TaskRegistered(t) \/ StartFails(t)
              \/ StateRead(t) \/ PlayerReset(t) \/ TaskUnregistered(t) \/ StopFails(t)
PlayStep(p) == PathFound(p) \/ QueueReset(p) \/ TrackAdded(p) \/ PlayIssued(p) \/ PlayFails(p)
Native == TrackLoaded \/ TrackEnds

Next == \/ Press \/ LocationUpdate \/ FetchAnswered \/ CooldownElapses
        \/ \E t \in DOMAIN taps : TapStep(t)
        \/ \E p \in DOMAIN plays : PlayStep(p)
        \/ Native \/ PlaybackError \/ PauseOrPlay \/ RemoteStop \/ RemoteReset

Spec == Init /\ [][Next]_vars

\* Awaited calls settle and tracks play to their end; users, locations and
\* failures owe nothing.
FairSpec ==
    /\ Spec /\ WF_vars(FetchAnswered) /\ WF_vars(CooldownElapses)
    /\ WF_vars(Native) /\ WF_vars(RemoteReset)
    /\ \A t \in 1..MaxTaps : WF_vars(t \in DOMAIN taps /\ TapStep(t))
    /\ \A p \in 1..MaxPlays : WF_vars(p \in DOMAIN plays /\ PlayStep(p))

-----------------------------------------------------------------------------
TapStages  == {"auth", "init", "perm", "watch", "register",
               "halt", "reset", "unregister", "done"}
PlayStages == {"path", "reset", "add", "play", "done"}

TypeOK ==
    /\ {ref, running, isWalking, hooked, active, isPlaying, held, attached, bg,
        rushed, overlapped, broken} \subseteq BOOLEAN
    /\ taps \in Seq(TapStages) /\ Len(taps) <= MaxTaps
    /\ story \in Stories \cup {None} /\ shown \in Stories \cup {None}
    /\ pacing \in {"ready", "playing", "cooldown"}
    /\ tracker \in {"idle", "active"} /\ subs \in Nat
    /\ fetches \in 0..MaxFetches
    /\ plays \in Seq([story : Stories, stage : PlayStages]) /\ Len(plays) <= MaxPlays
    /\ queue \in Seq(Stories)
    /\ native \in {"idle", "loading", "playing", "paused", "ended"} /\ resets \in 0..1
    /\ reported \in [Stories -> Nat] /\ faults \in 0..MaxFaults

\* A story is reported at most as often as it was triggered, and less while it
\* is still the engine's story, however stops, ends, fetches and failures
\* interleave.
Triggered(s) == Cardinality({p \in DOMAIN plays : plays[p].story = s})
ReportedOncePerTrigger ==
    \A s \in Stories : reported[s] + (IF story = s THEN 1 ELSE 0) <= Triggered(s)

\* The engine holds a story exactly while its pacing blocks the next one, so
\* whatever clears the one clears the other.
PacingMatchesStory == (pacing = "playing") <=> (story # None)

\* Unless a start failed and the screen built another pipeline, the player
\* store never names or animates a story other than the engine's.
StoreNamesStory == faults = 0 => /\ shown # None => shown = story
                                 /\ isPlaying => shown # None

\* Taps that waited for each other and calls that succeeded leave a walk that
\* was stopped without any location subscription, and one that runs tracked,
\* triggering stories, hearing their ends and shown on the screen.
Undisturbed == Quiet /\ ~rushed /\ faults = 0 /\ ref
StopStops == Undisturbed /\ ~running => /\ subs = 0 /\ ~bg
                                        /\ tracker = "idle" /\ ~active
WalkReady == Undisturbed => /\ isWalking = running
                            /\ running => tracker = "active" /\ held /\ attached
                                          /\ bg /\ active /\ hooked

\* Engine, pacing, store and screen tell of one walk: the engine's story is the one
\* that blocks the pacing and the only one on show, and a walk that settled down is
\* as the screen says.
WalkSound == TypeOK /\ PacingMatchesStory /\ StoreNamesStory /\ WalkReady

\* As long as fetches do not overlap and no call fails, a story only starts
\* after the cooldown and never over another story, and the end of a track
\* reports that track, however hastily the user taps.
PacingKept ==
    [][Len(plays') > Len(plays) => overlapped \/ faults > 0 \/ pacing = "ready"]_vars
EndReportsTrack ==
    [][TrackEnds => overlapped \/ faults > 0
          \/ \A s \in Stories : reported'[s] # reported[s] => s = Head(queue)]_vars

\* Stories come and go in their order: both of the above.
StoriesInTurn == PacingKept /\ EndReportsTrack

\* As long as taps wait for each other and nobody pauses, a triggered story that
\* has audio ends, so the next one can be triggered: also when fetches overlap
\* and one story cuts the other short, when the walk is stopped while it plays,
\* even if that stop fails, and in the walk after a stop or a failed start.  It says
\* nothing once a story was cut off (broken): by a playback that failed, by a stop
\* while it was loading, or triggered by an answer that came after the stop.
\* There the engine does keep its story for ever.
StoryEnds ==
    story # None ~> story = None \/ story \in Silent \/ rushed \/ broken

\* PacingManager.getIsPlaying: "Returns true if a story is currently playing",
\* or is about to.
PacingHonest ==
    pacing = "playing" => \/ native \in {"loading", "playing", "paused"}
                          \/ \E p \in DOMAIN plays : plays[p].stage # "done"
=============================================================================
