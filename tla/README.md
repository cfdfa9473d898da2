# City Stories Guide: a TLA+ model

The repository is an audio guide: a phone app that tells a story when its owner
walks past a point of interest (`mobile/`), an API server and a worker process
over PostgreSQL and an object store (`backend/`), and an admin site (`admin/`).
This directory models the parts of it in which several things happen at once,
out of order or half way.  Every definition is translated from the source;
`PROJECT.json` names the lines (`map`), what each run checks (`runs`), a change
of the code that each property would catch (`mutants`), the hazards the
properties are for, and the theorems.

    tlc -workers 2 -config MCInflationWorker_safe.cfg MCInflationWorker
    tlapm InflationWorkerProofs.tla

## 1. Inventory

Backend, all in PostgreSQL, any number of API and worker processes:

| Component | State | Operations | Hard because of |
|---|---|---|---|
| Inflation worker (`worker/inflation_worker.go`, `repository/inflation_repo.go`) | `inflation_job` rows, story rows, audio objects, each worker's position and deadline | inflate request, claim, heartbeat, the eight calls of `processJob`, compensation, reclaim | leases without owner checks, clocks of different hosts, crashes between any two calls |
| Stories, points, reports (`handler/`, `service/audio_cleanup_service.go`, `repository/`) | rows, audio addresses, report status, row locks | create, update, delete, cascade, moderation with one retry | three statements without a transaction, locks in opposite orders, whole-row writes |
| Cleanup worker (`worker/cleanup_worker.go`) | `orphan_cleanup_job` | claim, delete, mark, reclaim | jobs that are not owned, deletes that fail after they worked |
| Purchases (`service/purchase_service.go`) | purchase rows, unique by receipt | verify, status | look-up and insert in two statements, duplicate deliveries |
| Auth, accounts, push, cities | users, device tokens, soft-deleted cities | single statements, some check-then-act | tokens that outlive accounts, answers that get lost |
| Nearby and scoring, lists | none | pure | real-valued geometry; keyset cursors |

Phone, one JavaScript thread, handlers interleave at each `await`:

| Component | State | Operations | Hard because of |
|---|---|---|---|
| Launch (`_layout.tsx`, `CacheSchemaVersion.ts`, the stores' `persist`) | AsyncStorage and its queue of writes, two SQLite files, four stores, the router's stack | hydration, bootstrap, opening of the queue, cache migration, onboarding | effects side by side, deaths between two writes, reads that fail |
| Session (`authBootstrap`, `api/client.ts`) | tokens in the store, on disk and in the client; the queue of waiting requests | bootstrap, refresh, retry of a 401 and of a 429, boundary resets | two refreshes that know nothing of each other, answers after the session changed |
| Push registration (`NotificationManager`) | two fields of the settings, the manager's token, the server's row | register, unregister, reconcile, reset at a boundary | three operations that overlap, a user who changes between two awaits |
| Walking pipeline (`useHomeScreen`, `WalkingPipeline`, `StoryEngine`, `PacingManager`, `AudioPlayer`, `LocationTracker`) | toggle, engine, pacing, stores, subscriptions, native player | tap, location, fetch, trigger, native events, remote control | taps during start and stop, answers after a stop, events from a reset player |
| Offline queue (`SyncQueue`, `ConnectivityMonitor`, `api/client.ts`) | SQLite table, the loop's snapshot, debounce timer | enqueue, replay, retry, clear at a session change | lost answers, deaths, overlapping enqueues, a session that changes under the loop |
| Audio cache (`StoryCacheManager`, `useDownloadCity`, `DownloadReconciler`) | table, files, download store, the hook's refs | play, prefetch, download a city, cancel, switch, clear, reconcile | table and files are not written together, shared refs, purges by the system |
| Screens (`Paywall`, `ReportSheet`, `city.tsx`, `settings.tsx`) | what a sheet was opened for, the answer it waits for | buy, report, load a city, delete the account | the story, the user or the city changes before the answer comes |

Admin site, one thread per tab, tabs share `localStorage`:

| Component | State | Operations | Hard because of |
|---|---|---|---|
| Session, queries and changes (`authStore`, `authReset.ts`, `hooks/use*.ts`, pages) | session in storage and store, React Query cache, fetches and mutations in flight, drawers | login, logout, navigate, fetch, save, toggle | answers after a logout, storage events, rows edited by another admin |
| Cursor tables (`useCursorTableState`, reports, audit log, cities) | URL with the history, a ref of cursors, cached pages | filter, page, change a row, back and forward | URL, ref and cache are updated at different moments |

They interact thus: the worker publishes the stories whose audio the cleanup
service later removes (`Content` takes the publication as one of its requests);
the pipeline reports listenings through the offline queue; the player and the
prefetcher fill the cache that the city download shares; a session change clears
the queue, the downloads, the purchases and the registration; the launch opens
and migrates what all of them store; the admin site edits the rows the phone
lists.  What makes each correct is what its run checks, below.

## 2. Modules

| Module | Models | Extends / uses |
|---|---|---|
| `JobLifecycle` | abstract: the life of one inflation job | |
| `InflationWorker` | requests, workers, reclaim, compensation, clocks | `INSTANCE JobLifecycle` |
| `WalkingPipeline` | toggle, pipeline, engine, pacing, player, tracker | |
| `SyncQueue` | interceptor, queue, monitor, loop, session | |
| `StoryCache` | table and files, the operations on them, download hook and store | |
| `Content` | stories, points, reports, locks, audio objects, cleanup | |
| `RefreshGate` | abstract: what the client promises about expired tokens | |
| `Session` | auth store, bootstrap, the client's interceptors, boundary resets | `INSTANCE RefreshGate` |
| `PushRegistration` | the registration of the device over that session | `Session` |
| `MobileApi`, `AdminApi` | contracts: the statuses of each operation the app, the site use, and what their callers get to see of them | |
| `ReceiptLedger` | abstract: a receipt is credited once | |
| `Purchases` | paywall, purchase store, verification | `MobileApi`, `INSTANCE ReceiptLedger` |
| `AppScreens` | report sheet, map of a city, account deletion | `Purchases` |
| `CursorTable` | the three tables with cursor paging | |
| `AdminSite` | session, pages, cache, changes of the admin site | `AdminApi` |
| `Startup` | the launch of the app and the cache schema | |
| `AdminProofs` | theorems of `AdminSite` and `CursorTable` | `TLAPS` |
| `AppScreensProofs` | theorems of `Purchases`, `AppScreens` and `Startup` | `TLAPS` |
| `SessionProofs` | theorems of `Session` and `PushRegistration` | `TLAPS` |
| other `...Proofs` | theorems of the module of that name | `TLAPS` |
| `MC...` | instances for TLC | the module of that name |

**InflationWorker.**  A worker's `pc` is the call it makes next; each call
succeeds, fails, or (a fault) is done although the worker sees an error, and
its context makes every later call fail once `elapsed` reaches `JobTimeout`.
Ages are relative to the heartbeat and stop growing where no guard tells them
apart, so no clock needs a bound.  `skew` is how far each host's clock is
ahead.  A crash takes the worker to `down`; a restart runs the reclaim pass.
The claim is the whole `UPDATE ... SKIP LOCKED` statement.  Assumed: nothing
suspends a worker past its deadline without its context noticing.

**WalkingPipeline.**  `taps`, `fetches` and `plays` are the handlers in flight;
an action is the code between two awaits.  The native player's events may come
at any time.  Left out: `destroy()` at unmount, a user id lost during a walk,
volume fades.  A new pipeline is built only when nothing of the old one is in
flight, and the 60 s cooldown outlasts the player's reset.

**SyncQueue.**  A request goes `new`, `sent`, the two statements of `enqueue`
(the count and the insertion), and an answer.  The look for a listening of the
same story stands in the code between the two and is never reached: the body is
JSON text by then, and `typeof body.story_id` of a text is not `'number'`.
SQLite runs statements one at a time in the order they were issued.  Only
network errors reach the interceptor: the generated client accepts every HTTP
status (`validateStatus`).  The 401 refresh of a replay is in `Session`, the
migration that drops the table in `Startup`.

**StoryCache.**  `jobs` are operations in flight with the `await` they are at;
`files` tells a partial file from a whole one; `hook` holds the refs that
outlive an effect.  A path is returned when the last statement its operation
waits for is done, which is after its file was checked or landed.  Which row an
eviction takes is left open, because `last_accessed_at` is a wall clock read
before the download.  The end of a native download and the insertion of its row
are one action (nothing waits in between but the statement).  A manifest does
not change during a run and zustand's persistence is immediate.

**Content.**  A request is a record with the statement it makes next (`at`);
`lock` holds the rows a transaction has locked; a deletion takes the locks of
its row (and of the stories below a point) and then those of the reports, so
that the deadlock with the moderation, which goes the other way, is in the
model.  Addresses an admin may type are those of objects that exist, or none.

**Session.**  A pair of tokens is known by its account and the epoch it was
issued in; an access token is good in its epoch, a refresh token for as long as
the account exists.  The store's subscriber runs inside `SetStore`, as it does
inside zustand's `set()`.  `call` holds the two requests to `/auth` that may be
in flight, the bootstrap's and the interceptor's.  The server is environment:
it issues, refuses, or loses the answer.

**PushRegistration** extends it: each of its steps is a step of the session
with what that does to the registration (`During`), or leaves the session alone.
`op` is where `reset`, `reconcile` and `toggle` are.  The two switches are one.

**Purchases, AppScreens.**  `delivery` are the server's handlers, of any client;
the paywall's own is one of them.  A tap records what it closed over (`tapped`,
`call`), so that the properties can compare what is said with what was tapped.
An insertion that commits may still be answered 500 (`Create`).  A report the
network lost is taken by the sync queue, refused by a full one, or fails with
it; the interceptor resolves the call in the first two cases.  One behaviour is
about one screen.  `MobileApi!Outcomes` is what `throwApiError` leaves of a
status.

**CursorTable.**  The URL's history, the ref of cursors and React Query's cache
are three variables; the effects that tie them together are actions of their
own, since a user may click before they run.  A row is its place in the list's
order: the audit log has the newest first, so a row logged meanwhile is the first.

**AdminSite.**  Queries are named with the page that shows them and what
invalidates them; a mutation is a record in `flights` with where it is.  A row
is the number of its last edit and whether it is on.  A reload ends the page, not
the request that is on its way: its answer is of no use to anybody (`sent`), what
it writes stays written.

`Startup` and `CursorTable` name their `Init`, `Next` and `vars` after themselves
(`LaunchInit`, `TableNext`, `pagerVars`), so that they can be extended beside
another module: their theorems stand with those of the screens they are part of.

**Startup.**  AsyncStorage performs writes in the order they were asked for and
loses those that wait when the process ends; the stores read it once.  `Order`
is the migration's sequence of steps.  Each call that is awaited may reject, and
then what comes after it in its effect does not run: the stamp, the opening of
the queue's database, the reconciliation.

History variables mark the cases in which the code keeps no promise (section 6)
or remember what a property compares: `held`, `mixed`, `reused`, `lost`
(`Content`), `crossed`, `late`, `rounds` (`Session`), `raced`
(`PushRegistration`), `seen`, `mine`, `old`, `travelled` (`CursorTable`), `ignored`,
`undone`, `edits` (`AdminSite`), `mishaps`, `late` (`Startup`), `refused`
(`AppScreens`), `widest` (`SyncQueue`), `taken`, `stale`, `abandoned`, `hasty`
(`StoryCache`), `rushed`, `overlapped`, `broken` (`WalkingPipeline`), `disturbed`
elsewhere.

## 3. Runs

Every property has a mutant in `PROJECT.json`: a plausible bug of a mapped
definition with which TLC finds it violated under the same configuration.

**inflation_safe** — two jobs of one point, two workers with clocks up to one
unit apart, one fault of any kind, two attempts, fair scheduling.  `LeaseSafe`:
types; a worker inside its deadline has its row, running, under its name and
attempt, and nobody's clock calls it stale (`LeaseHeld`); no two such workers on
one job (`LeaseExclusive`).  `SegmentCap`: completed jobs stay below the limit
although requests check and insert in two statements and workers check side by
side.  `StoriesWhole`: a completed job has a story with audio, a failed one
leaves neither unless its attempt was disturbed.  `LifecycleSpec`: refinement of
`JobLifecycle`.  `EveryJobSettles`.  Two of each are enough to have one worker
reclaim what the other one holds; `JobTimeout` 2, `MaxSkew` 1 and `LeaseWindow`
3 are the tightest that `LeaseAssumption` allows.

**walk_safe** — two stories, one without audio, three taps, two plays, two
fetches, one failing call, all controls.  `ReportedOncePerTrigger`; `StopStops`
(when all taps are handled and the walk is off, nothing plays, listens or is
registered); `WalkSound` (types, engine, pacing, store and screen tell of one
walk); `StoriesInTurn` (no trigger inside the cooldown unless fetches
overlapped, and an end reports the track that ended).  Three taps give start,
stop, start with each await interrupted; two plays a story and its successor.

**walk_live** — two stories, one without audio, three taps (start, stop, start),
no controls, one failing call, fair.  `StoryEnds`: a triggered story with audio
ends, also when fetches overlap, when the walk is stopped while it plays, even by
a stop that fails, and in the next walk.  It says nothing of taps that did not wait
for each other (`rushed`) nor once a story was cut off (`broken`): its playback
failed, it was stopped while it loaded, or it was triggered by an answer that
came when no walk was running.  There the code gets stuck (section 5).

**sync_safe** — two mutations, room for one, two retries, and two troubles out of a
death, a session change and a failing statement; fair.  `AcceptedSurvives`: a
mutation that was taken in is in the table until performed, given up after its
retries or cleared; `DuplicatesExplained`: it is performed once, plus once for
each lost answer, death or failed statement; `RetriesBounded`; `QueueBounded`:
the table exceeds its limit by no more rows than calls of `enqueue` overlapped,
less one; `Drains`: the table is empty again and again.  Room for one is the
least at which two calls can find the same room.

**cache_safe** — two cities with a story each, of different sizes, room for two
units (so that caching the one evicts the other), two operations beside the
reconciliation, one death, purge or failing statement.  `LimitKept`;
`CacheSound`: types, rows have files, files have rows, a city shown as
downloading has a loop that works on it; `ServedWhole`: when a path is returned,
its file is there and whole, unless two operations worked on the story
(`crossed`), or an eviction or the system took the file after its check (`taken`);
`MarkedUncut`: a city is marked downloaded only by a loop none of
whose downloads was cancelled.

**content_safe** — a story at a point, a report, two objects, two requests of
any kind, two cleanup workers, one fault, two attempts, fair scheduling.
`LiveAudioKept` (an object that a story shows exists), `OrphansQueued` (one that
no story shows any more is scheduled), `CompletedMeansGone`, `ModerationSound`,
`AllComesToEnd` (requests and cleanup jobs).  Two requests are the least in
which one meets another at every statement.  With one story no address comes to
belong to another one: `MCContent_audio` checks the first two on two stories,
and the theorems of section 4 for any number.

**session_safe** — two requests, one of which may be repeated, or the push
registration with one tap on its switch and a request beside it (a behaviour is
about one of the two: TLC explores their sum); one purge, one expiry, one death of the process; fair.
`OneUser`: the store's tokens are its user's, the client speaks for nobody else,
what is on the screen is his; `RegistrationSound`: phone and server agree on who
gets the pushes, and it is who is signed in; `ImplementsGate`: refinement of
`RefreshGate`; `PhoneSettles`: whatever was begun ends.

**table_safe** — the three kinds of table, three rows, pages of one, a filter,
two entries of history, three keys, one refetch, one change.  `NoRowSkipped`:
what comes before the page shown has been shown; `PagerSound`: the next page
that is offered can be opened and is the next; `OwnChangeShown`: no page kept from
before an admin's own change passes for fresh after it.  That excuses the answer
the server had given before the change and that comes after it (`old`): nothing
cancels or marks it, and the table shows the row as it was (section 5).

**site_safe** — two admins, pages dashboard, cities and detail, two queries,
a drawer and a switch, one of each fault.  `SiteSound`: nothing in the cache was
fetched for another admin; `StoryEditsKept`: the switch of a story does not
undo an edit made before it was used, until an edit has been lost (`undone`).
That it holds with several switches of one story on their way is proved.

**startup_safe** — launches of old, new and current installations with one death
or one failing call, two pages besides the first, three pending writes; fair.
`LaunchSound`: a stamped version is a migrated one: no old downloads, no old
tables unless their DROP failed (`mishaps`), no old purchases unless they were
read after the stores were cleared (`late`).  `OnboardedOnce`.  `LaunchEnds`: the
first page is left, the migration and the reconciliation come to their end unless
the stamp or a statement of theirs rejects, and the queue's handler is wired unless
its database would not open: one failing call stops what it is a part of, no more.

**screens_safe** — two users, one receipt with three deliveries, two stories, two
types, two taps on Submit, four points in pages of two.  `ReportsAsTapped`: what
is stored or queued is what stood on the screen at the tap; `ToldTrue`: "Purchase
Successful" and "Account Scheduled" are said only of what happened, and "Report
Sent" of a report that is stored or queued, unless the full queue refused it
(`refused`, section 5); `ImplementsLedger`: refinement of `ReceiptLedger`; `LoadedWhole`: a point that
was there throughout a load is in it exactly once.

**start_queue** (finding) — `OfflineQueued`, section 5.

Further configurations that find counterexamples and are not among the runs:
`MCInflationWorker_attempts`, `MCStoryCache_switch`, `MCStoryCache_served`,
`MCWalkingPipeline_stuck`, `MCAdminSite_silent`, `MCCursorTable_chain`,
`MCCursorTable_late`, `MCAppScreens_full`, `MCStartup_purchases`; see section 5.
Two more pass on instances their runs have no room for: `MCContent_audio`, and
`MCInflationWorker_again`, where the attempts of one job fail four times.

### Bounds

The `Max...` constants bound what the environment does.  They are guards of the
actions that introduce a fault or an input, never of the code's own steps, so a
started operation always runs to its end.  The exceptions are named where they
stand (one DELETE of a registration at a time, one mutation of an admin at a
time).  One fault is enough to reach every error path from every step.
Combinations of faults are what the theorems of section 4 are for: they hold for
any number of them.

Deadlock is checked except where the system may stop: `CHECK_DEADLOCK FALSE`
stands in the runs whose users simply do nothing more once their bounds are
reached.

### Fairness

* Workers: a supervisor restarts them (`docker-compose.prod.yml`), goroutines of
  a live process are scheduled, tickers fire and every call carries a deadline.
* Phone: an awaited call settles (each has a timeout), storage answers, in
  `SyncQueue` without rejecting the opening of the queue (`Startup` has that), effects
  run and a track that plays reaches its end.  Users, locations and the death of
  the process owe nothing, so no property relies on a second tap.
* Network: it comes back again and again, each time for longer than the 3 s
  debounce.  That is all `Drains` asks for.
* PostgreSQL ends each statement, aborts one of two transactions in a deadlock,
  and the cleanup worker's tickers fire.

Liveness is stated as `[]<>` of "nothing waits": what may begin is bounded, so
that is "whatever was begun ends", and TLC has one branch to check.

## 4. Proofs

The theorems hold for every value of the constants that satisfies the named
assumptions: any number of jobs, workers, users, stories, taps and faults.  Each
invariant was first checked by TLC on the instance of its run, and on larger
ones where they fit, and then shown to hold initially, to be kept by each action
and to imply the property.

| Theorem | Property of the runs | Inductive invariant |
|---|---|---|
| `InflationWorkerProofs!LeaseSafety` | `LeaseSafe` | `LeaseInv` |
| `...!ImplementsLifecycle` | `LifecycleSpec` | `LeaseInv` |
| `...!PointsKeepTheirLimit` | `SegmentCap` | `LeaseInv`, `CapInv` |
| `...!StoriesWholeOrGone` | `StoriesWhole` | `LeaseInv`, `TraceInv` |
| `SyncQueueProofs!NothingLost`, `RetriesLimited` | `AcceptedSurvives`, `RetriesBounded` | `DeliveryInv` |
| `...!DuplicatesHaveCauses` | `DuplicatesExplained` | `DeliveryInv` |
| `...!QueueStaysBounded` | `QueueBounded` | `EnqueueInv` |
| `ContentProofs!ModerationIsSound` | `ModerationSound` | `LockInv` |
| `...!CompletedIsGone` | `CompletedMeansGone` | `CleanInv` |
| `...!LiveAudioIsKept`, `OrphansAreQueued` | `LiveAudioKept`, `OrphansQueued` | `AudioInv` |
| `AppScreensProofs!TableIsLedger`, `AppKeepsLedger` | `ImplementsLedger` | `IInv` |
| `...!ReportsFaithful` | `ReportsAsTapped` | `SheetInv` |
| `...!WhatIsSaidIsTrue` | `ToldTrue` | `SheetInv`, `DeletionHolds`, `TapHolds` |
| `...!MapsAreWhole` | `LoadedWhole` | `LoadInv` |
| `...!LaunchIsSound` | `LaunchSound` | `LaunchInv` (`Migrates`) |
| `...!OnboardingIsKept` | `OnboardedOnce` | `LaunchInv` (`Remembers`) |
| `SessionProofs!SessionOfOneUser` | `OneUser` | `SessionInv` |
| `...!GateKept` | `ImplementsGate` | `OneRound` |
| `...!PhoneAndServerAgree` | `RegistrationSound` | `RegistrationInv` |
| `WalkingPipelineProofs!ReportsFollowTriggers` | `ReportedOncePerTrigger` | itself, with `TypeInv` |
| `...!WalkIsSound`, `StopLeavesNothing` | `WalkSound`, `StopStops` | `WalkInv`, `TapsInTurn` |
| `...!StoriesKeepTheirTurn` | `StoriesInTurn` | `WalkInv`, `OneVoice` |
| `StoryCacheProofs!CacheIsSound` | `CacheSound` | `Base`, `CacheInv`, `LoopInv` |
| `...!CachedIsWhole` | `ServedWhole` | `CacheInv`, `HoldInv` |
| `...!OnlyWholeMarked` | `MarkedUncut` | `Base`, `LoopInv` |
| `...!LimitIsKept` | `LimitKept` | `Base`, `InHand` |
| `AdminProofs!SiteIsSound` | `SiteSound` | `SiteInv` |
| `...!StoryEditsAreKept` | `StoryEditsKept` | `EditsInv` |
| `...!NoRowIsSkipped`, `PagerIsSound` | `NoRowSkipped`, `PagerSound` | `TableInv` |
| `...!OwnChangeIsShown` | `OwnChangeShown` | `TableInv` |

### Why the invariants are what they are

**InflationWorker.**  `LeaseHeld` is inductive because it also bounds the age of
a row by the worker's elapsed time and its skew; with `LeaseAssumption`
(`JobTimeout + MaxSkew <= LeaseWindow`; the defaults are 60 s and 5 min) no
other worker finds the row stale.  Since no write checks the owner, time is all
that excludes a second claim.  *The limit*: that completed jobs stay below it is
not inductive, for two workers may have passed the check; `CapInv` counts
`Places`, the completed jobs and those past the check, all of which were active
when the last one counted.  *Compensation*: `TraceInv` says that no two workers
build the same story (`Numbered`), what an undisturbed attempt has left behind
at each of its calls (`Staged`), and that what is torn is disturbed or in the
hands of a worker (`Abandoned`).

**SyncQueue.**  `DeliveryInv` counts for each mutation what the loop sent, what
the server performed and what the table remembers; the difference is what lost
answers, deaths and failed statements account for.  `EnqueueInv` counts the rows
together with the calls that are past their check (each found room, so the sum
stays below the limit and the most calls that ever overlapped).

**Content.**  `LockInv` says what a transaction holds: a moderation the report
it has read and then the story it has seen, a deletion every row it is about to
delete.  Nobody takes a lock from another request (`LockStays`), and a locked
point gains no story (`NoStoryMovesIn`), since an insertion and a move wait for
its foreign key; without that a deletion could cascade to a story it has not
locked.  `CleanInv` excludes that an object comes back between the moment a
cleanup worker sees it gone and the moment it marks the job: an object is
uploaded once, before anything knows its address (`NothingLearned`, which rests
on `Home` being injective, as `s3.AudioKey` is in the story's id).
`AudioInv` accounts for every object by who may still remove it or lose it: a
story that shows it is among those that ever held it (`Born`, `Holding`); two
requests that concern one story are known to have met (`Met`); a request has
gathered every address that what it deletes or replaces may drop (`Gathered`),
publishes under an address nobody else uses (`Publishing`), and writes back an
address it was given only if that one is in use or known to be given twice
(`Typing`); and what a request has let go, no story shows (`LetGo`).  That a
batch of the cleanup worker covers all that is claimed is a pigeonhole
(`WholeBatch`).

**Purchases, AppScreens.**  At most one delivery of a receipt is told that it
bought something, and the table credits its user (`CreditedOnce`); with the
types that is inductive, since the insertion goes by the unique index and not by
the look-up before it.  For the report sheet, the submission's closure is what
was tapped while the request is on its way, and an answer comes after the row or
the entry in the queue.  *The map*: what a load has gathered ascends, lies at or
before its cursor, and has all that stayed and lies there (`LoadSound`).  The
page's order is `InOrder`, a function of the model's own, since the provers
cannot expand TLC's `SortSeq`; that it exists for every finite set comes from
counting ranks (`OrderExists`).  It needs ids above 0, as the server's are: a
load begins behind cursor 0.

**Startup.**  Disk, queue of writes and stores are read as one sequence: what a
key will be once everything before a given write has reached the disk.
`Remembers` says that from the moment the onboarding is done on disk every later
write of it, and the store once it has hydrated, says so; `Migrates`, that how far
the migration's `Order` has come (`stage`) tells which tables are gone and which
lists will be forgotten by then, and that a stamp waits behind them
(`Forgotten`).  Reads and drops that failed excuse the one and the other
(`mishaps`), and purchases read late themselves (`late`), as they do in the
properties.

**Session.**  The code gives a new pair of tokens to whoever is signed in when
the answer comes (`Adopt`), without asking whose it is.  That this is the owner
is `Owner`: whoever is signed in while an answer is on its way is nobody, the
owner of the pair that was sent, or the account the server has for the device,
unless answers crossed a change of account (`crossed`).  `Phases` and `Booting`
say what is in hand before and during the bootstrap, `Scope` that the screen
shows, or will show once it is rehydrated, what is the stored user's.  The mapping
to `RefreshGate` sees a request that waits out a 429 as still sent; that one
round at a time is open (`OneRound`) lets every step of the client be one of the
gate or a stutter.  `PushIsSession` shows each step of the app with
registration to be one of the session, so `SessionInv` holds there for free.
`RegistrationInv` then says what each of the three operations knows at each
`await`: that it works for whoever is signed in (`Users`), that a registration
of somebody else is about to be removed (`Holder`), and that while no two calls
raced one at a time speaks to the server and the row is what it said last
(`Row`).

**WalkingPipeline.**  `TypeOK` is not inductive: that the number of
subscriptions does not drop below zero needs that a held one is counted
(`Subscribed`).  `TapsInTurn` follows the one toggle that is being handled from
await to await (`ToggleAt`); between taps the walk is on with everything it
needs or off with nothing (`Settled`), which is `StopStops` and the rest of
`WalkSound`.  `OneVoice` is the protocol between engine, pacing and native
player: one fetch at a time and only while the pacing allows a story, no sound
while it is ready, the queue of the player holding the engine's track alone, and
a playback that still prepares being the last one.

**StoryCache.**  `Base` gives each operation its shape: what kind can wait where
and with what.  `CacheInv` says that no two operations work on one story that is
not `crossed`, that what each of them has read is still so (`Fits`), and that a
row has its whole file, or none and is stale; each operation that writes a row
or removes a file is then harmless.  A file without a row is being fetched or
will be seen by the reconciliation, which runs in the first slot of every start;
hence the assumption `1 \in JobIds`, without which the file of a killed download
would lie there for ever.  `LoopInv` says that a loop the hook lets go on has
had no download cut.  `HoldInv` follows a path from the check or the landing of
its file to its return (`HeldWhole`): whatever removes the file in between is
another operation on the story, an eviction or the system, and is noted.
`InHand` is the reason the limit is kept: the rows fit, or some operation is
going to ask for their size, or knows by how much the listed ones exceed it.
`Total` folds over a set in the order `CHOOSE` picks; that this is a sum in any
order (`TotalLess`, `TotalGrows`) is proved for all finite sets by well-founded
induction on the subsets, with the induction hypothesis as a set, since the
provers here cannot instantiate an operator.

**AdminSite.**  `SiteInv` says that nothing is fetched or kept without a session
(`NothingUnsigned`), so that a session can only begin with an empty cache, and
that every fetch carries the session it began with (`Fetched`).  `EditsInv` is
about a switch between its read and its write (`ReadSince`): the row it holds is
the server's, or an older one whose successor came after the click.

**CursorTable.**  Four things hold together.  A page's cursor leaves at least one
row behind for each page before it and one ahead (`CursorsSound`), so the pages
have an end.  Every result kept, shown or not, ends with its cursor before another
row and has all matching rows up to there that are as they were found (`Chained`),
which is what the server's keyset answer does (`PageAnswered`, by counting).
All such rows behind any recorded cursor have been shown (`ChainSeen`), so
recording one more is sound when what is shown is what ends at it.  And the cursor
after the result the effects last ran for is recorded (`NextRecorded`).  For the
admin's own changes: a result that is neither stale nor `old` has each row in at
least the version of his last accepted change (`UpToDate`).

### Only model-checked

* Everything under fairness (`EveryJobSettles`, `StoryEnds`, `Drains`,
  `AllComesToEnd`, `PhoneSettles`, `LaunchEnds`): liveness and
  `ENABLED` are out of the prover's reach.
* The counterexamples of section 5.

## 5. Findings

In `PROJECT.json`, with a run:

* `start_queue`: `client.ts:179` says that safe mutations are queued when the
  network fails, but a launch that migrates the cache drops every table of
  `sync_queue.db` (`CacheSchemaVersion.ts:86`) after `init()` has created it.
  Until the app is restarted each `enqueue` fails with "no such table".

Found on the way, with a configuration kept beside the runs:

1. `MCInflationWorker_attempts`: a job whose worker keeps missing its deadline
   is claimed beyond the attempt limit, because `ClaimNextJob` takes stale rows
   whatever their attempts (`inflation_repo.go:160`, comment at `:266`).
2. `MCWalkingPipeline_stuck`: stopping while a story loads leaves
   `PacingManager.isPlaying` true (`PacingManager.ts:51`); no story is triggered
   in later walks.
3. `MCStoryCache_switch`: the hook's `cancelledRef` is reset before the old loop
   has looked at it (`useDownloadCity.ts:72`); the old city goes on and is
   marked downloaded with a story missing.
4. `MCCursorTable_chain`: Back and Forward bring another filter's page with this
   filter's cursors; rows are skipped.
5. `MCCursorTable_late`: a fetch that the server answered before an admin's own
   change was accepted is delivered after the invalidation; the table shows the row
   as it was, not marked stale (`useReports.ts:32` cancels nothing).
6. `MCAppScreens_full`: "Resolve silently — the mutation is queued for later"
   (`client.ts:201`), but `enqueue` answers false when the queue is full
   (`SyncQueue.ts:80`) and nobody looks at it: "Report Sent" is said of a report
   that is neither stored nor queued.
7. `MCStartup_purchases`: "Must be called after Zustand stores have hydrated"
   (`CacheSchemaVersion.ts:49`), but the layout waits for the downloads only; old
   purchases that are read later are back under the current stamp.
8. `MCStoryCache_served`: "Returns the local URI if cached"
   (`StoryCacheManager.ts:85`), but between the check of the file (or its landing) and
   the return an eviction may delete it, also one that the operation runs itself.
9. `MCAdminSite_silent`: a change that fails with 401 is passed over in silence
   and "left to the refresh flow", which never hears of it, because the
   generated client accepts every status; the admin is not sent to the login.

## 6. What the models taught without a run of its own

Inflation and content
* Each request counts itself among the active jobs, so the third segment of a
  point is never produced (`inflation_repo.go:103`); retries may leave more
  stories than segments (`API.md:484`).
* Collecting, deleting and scheduling audio are not atomic; a death in between
  leaks the object.  `OrphansQueued` excuses it (`lost`).
* `UpdateStory` reads the old address outside its statement; overlapping
  updates leak an object or delete a live one (`mixed`).  A form opened
  earlier can write back an address that is about to be deleted (`reused`),
  against the comment at `city_handler.go:310` that audio files remain valid
  while points and stories exist.
* An address has one owner only as long as nobody types another's: when the
  object of a new story is uploaded and an admin gives its address to a second
  story before it is linked, the compensation of a failing link deletes it from
  under that one (`inflation_worker.go:366`).  The attempt to prove
  `LiveAudioKept` showed it; an instance with one story cannot.  `reused` counts it.
* `ClaimBatch` leaves its jobs `pending`, so "to allow concurrent workers"
  holds only because deleting twice is harmless.
* PUT without a status re-activates a disabled story, and so does the worker's
  write-back of the row it inserted.
* A deletion that loses the deadlock against a moderation fails; only the
  moderation is run again.
* City deletion is soft; `AudioCleanupService.DeleteCity` has no caller.

Walking
* A trigger may follow a stop (`StoryEngine.ts:93`), overlapping fetches break
  the pacing (`PacingManager.ts:15`), a tap during start leaks a subscription
  (`LocationTracker.ts:135`), the store disagrees with the player after a pause
  (`WalkingPipeline.ts:31`), a failed start leaves the toggle stuck, and no one
  listens to the player's error event.  A stop from the lock screen while the
  story loads leaves the pacing stuck as a tap does, which is why `StoryEnds` is
  checked without controls.  Three hasty taps can end with a walk that runs without
  its callbacks, whose stories never end (`rushed`).

Push registration
* An answer that comes after its user has left can register the phone for him
  once more; until the next bootstrap is over it is registered for him although
  another is signed in (`HolderSignedIn` waits for it).

Offline queue
* "Deduplicate listening events for the same story within 1 minute"
  (`SyncQueue.ts:84`) never applies: axios has made text of the body, and
  `typeof body.story_id` of a text is not `'number'`.  Two listenings of a story are
  both queued.  The tests of `SyncQueue` pass objects and do not see it.
* Rows stay when the app starts online; about half a minute of failures drops a
  row; what a full queue refuses is lost without a word.  When the badge's count
  throws after the insertion, the caller gets an error for a mutation that is queued.
* An enqueue in flight, or the loop's snapshot, survives `clearAll` and is sent
  with the next session's token (against `docs/mobile-state-audit.md:141`).
* A failed POST or DELETE of the device token is itself queued and replayed
  later, when it may no longer be wanted.

Cache
* Unmounting leaves a city at `fetching_manifest`; the manager is stored before
  it is initialised; a failing eviction deletes the new file; a city completes
  although files failed.

Launch
* The migration waits for the downloads to hydrate and for nothing else; home may
  show before it ends.  A stamp that rejects leaves the launch without its
  reconciliation, and the next one migrates again; a queue whose database does not
  open is never opened again in that process (`initSyncQueue` returns early).
* A DROP that fails is swallowed and the version stamped all the same.
* A read that fails during hydration makes the store write its defaults over
  what is on disk.  That AsyncStorage writes in order is an assumption.

Screens
* A type chosen for one story is reported about the next when the walk moves on
  between the choice and the tap (`PRD.md:193`); closing after a success closes
  a sheet that was opened again meanwhile; a report whose answer is lost is
  queued, too, and arrives twice; what is queued may be shown as an error.
* Account deletion: the branch for 'unauthorized' cannot be reached
  (`throwApiError` drops the status), a second DELETE is told 404, the settings
  it points to offer no restore, and the session goes on.
* A status in flight over a change of user is stored under the new one; of two
  loads of a city the last answer wins, and `isLoading` ends with the first.
* Unused by any screen: `FreemiumTracker`, `restoreAccount`, `fetchCities`, the
  `_language` of `fetchCityPOIs`; `listPOIs` has no `story_count`, so a city's
  `totalStories` is 0.

Admin site
* The switches of cities and points send the whole row of the page and undo
  others' edits; that of stories reads first.  With several switches of a story on
  their way that holds until an edit has been lost: a read after that finds a row
  older than the click, and writes it back.  The attempt to prove `StoryEditsKept`
  showed it; `undone` marks the case.  A save that succeeds closes
  whichever drawer is open.  Invalidation misses a point's reports, the map and
  the statistics.
* Creating a city on page 1 can offer a page 2 that cannot be opened
  (`NextKnown` excuses it).

## 7. Plan

Modelled and checked: all modules of section 2.  Proved: every safety property,
action property and refinement that a passing run checks (section 4).  Left, in
this order:

1. An abstract store of audio (an object exists as long as a story needs it)
   that `Content` implements when nothing overlaps.
2. `CursorTable` with the rows of Back and Forward: the promise that holds for
   them, in place of `FreshChain`, is not known.
3. The parts of section 8 that keep state: listenings, push sending.

## 8. Not modelled

Geometry and scores (any candidate may win), texts, prompts, formats and sizes
of requests, validation, sort orders other than a list's default, statistics, routing, rate
limit, metrics, logging and redaction, migrations of the server's schema, forms,
rendering, infrastructure and backups; sending pushes, which has no caller; the
free allowance, computed from a count; the upsert of listenings, one statement.
`PROJECT.json` gives the reason for each component.
