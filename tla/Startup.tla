------------------------------ MODULE Startup ------------------------------
(***************************************************************************)
(* The launch of the app: the root layout's effects, which hydrate the     *)
(* stores, open the sync queue and migrate the cache side by side, and the *)
(* pages up to home.  AsyncStorage writes in the order it is asked to and  *)
(* loses what is not written when the process ends; the stores read it     *)
(* once, when they are created.                                            *)
(***************************************************************************)
EXTENDS Naturals, Sequences, SequencesExt

CONSTANTS MaxCrashes,   \* bound: ends of the process
          MaxPages,     \* bound: pages on the router's stack
          MaxWrites     \* bound: writes that wait

Bounds == MaxCrashes \in Nat /\ MaxPages \in Nat \ {0} /\ MaxWrites \in Nat \ {0}
ASSUME StartupAssumption == Bounds

VARIABLES
    disk,       \* AsyncStorage: version, onboarded, downloads, purchases
    tables,     \* SQLite: the tables of story_cache.db and sync_queue.db
    writes,     \* AsyncStorage's queue of writes
    up,         \* the process runs
    mem,        \* the stores
    read,       \* what the stores read when they were created and did not merge yet
    hydrated,   \* stores whose _hasHydrated is set
    boot,       \* bootstrapStatus: "over" when it is 'ready' or 'error'
    syncer,     \* "off", "opening", "wired" when offlineEnqueue is set, or "failed"
    stage,      \* checkAndMigrateCacheSchema, then reconcileDownloadState
    pages,      \* the router's stack
    granted,    \* PermissionsScreen.locationGranted
    mishaps,    \* what failed: "read" of a store, "open" of the queue's database,
                \* "drop" of tables, "stamp" of the version, "reconcile"
    late,       \* history: the stores were cleared before the purchases were read
    crashes

storage == <<disk, tables, writes>>
process == <<mem, read, hydrated, boot, syncer, stage>>
route   == <<pages, granted>>
rest    == <<mishaps, late, crashes>>
launchVars    == <<storage, up, process, route, rest>>

Stores  == {"settings", "auth", "download", "purchase"}
BlankStores   == [onboarded |-> FALSE, downloads |-> "none", purchases |-> "none"]
Install(version, onboarded, data) ==
    [version |-> version, onboarded |-> onboarded, downloads |-> data, purchases |-> data]
Top     == Last(pages)

Write(key, value) == writes' = Append(writes, [key |-> key, value |-> value])
Room  == Len(writes) < MaxWrites
\* Bound: one thing goes wrong, a call or the process.
Sound == mishaps = {} /\ crashes = 0
Mishap(what) == Sound /\ mishaps' = {what}
Quiet == writes = <<>>     \* bound: the user is slower than the storage

\* CREATE TABLE IF NOT EXISTS
Created(table) == [tables EXCEPT ![table] = IF @ = "none" THEN "new" ELSE @]

-----------------------------------------------------------------------------
(***************************************************************************)
(* The storage below, and the process.                                     *)
(***************************************************************************)
Flush ==
    /\ writes # <<>>
    /\ disk' = [disk EXCEPT ![Head(writes).key] = Head(writes).value]
    /\ writes' = Tail(writes)
    /\ UNCHANGED <<tables, up, process, route, rest>>

\* The stores are created, and the first effects run: initSyncQueue among them.
Launch ==
    /\ ~up /\ up' = TRUE
    /\ read' = [key \in DOMAIN BlankStores |-> disk[key]] /\ syncer' = "opening"
    /\ UNCHANGED <<storage, mem, hydrated, boot, stage, route, rest>>

Crash ==
    /\ up /\ mishaps = {} /\ crashes < MaxCrashes /\ crashes' = crashes + 1
    /\ up' = FALSE /\ writes' = <<>>
    /\ mem' = BlankStores /\ read' = <<>> /\ hydrated' = {} /\ boot' = "idle"
    /\ syncer' = "off" /\ stage' = "waiting"
    /\ pages' = <<"index">> /\ granted' = FALSE
    /\ UNCHANGED <<disk, tables, mishaps, late>>

\* Mutant: a failed read leaves the store unhydrated.
OnlyIfRead(store, ok)    == IF ok THEN hydrated \cup {store} ELSE hydrated
\* onRehydrateStorage sets _hasHydrated either way.
HydratedAfter(store, ok) == hydrated \cup {store}

\* Mutant: the merge prefers what the store holds.
Defaults(key) == mem[key]
\* The merge takes what was read.
Merged(key)   == read[key]

\* A set of a persisted store writes all of it, and _hasHydrated is such a set: a
\* store that could not be read writes its defaults.
Hydrate(store, key) ==
    /\ up /\ key \in DOMAIN read /\ Room /\ read' = Restrict(read, DOMAIN read \ {key})
    /\ \/ /\ mem' = [mem EXCEPT ![key] = Merged(key)] /\ Write(key, Merged(key))
          /\ hydrated' = HydratedAfter(store, TRUE) /\ UNCHANGED mishaps
       \/ /\ Mishap("read") /\ Write(key, mem[key])
          /\ hydrated' = HydratedAfter(store, FALSE) /\ UNCHANGED mem
    /\ UNCHANGED <<disk, tables, up, boot, syncer, stage, route, late, crashes>>

HydrateAuth ==
    /\ up /\ "auth" \notin hydrated /\ hydrated' = hydrated \cup {"auth"}
    /\ UNCHANGED <<storage, up, mem, read, boot, syncer, stage, route, rest>>

\* bootstrapAnonymousAuth: it ends well or not, but it ends.
BootStarts ==
    /\ up /\ {"settings", "auth"} \subseteq hydrated /\ boot = "idle" /\ boot' = "loading"
    /\ UNCHANGED <<storage, up, mem, read, hydrated, syncer, stage, route, rest>>

BootEnds ==
    /\ up /\ boot = "loading" /\ boot' = "over"
    /\ UNCHANGED <<storage, up, mem, read, hydrated, syncer, stage, route, rest>>

-----------------------------------------------------------------------------
(***************************************************************************)
(* initSyncQueue.                                                          *)
(***************************************************************************)
\* The database is opened and has its table, then the handler is wired.  When one of
\* the two statements fails it never is: the module holds a queue and returns early.
InitQueue ==
    /\ up /\ syncer = "opening"
    /\ \/ syncer' = "wired" /\ tables' = Created("queue") /\ UNCHANGED mishaps
       \/ syncer' = "failed" /\ tables' \in {tables, Created("queue")} /\ Mishap("open")
    /\ UNCHANGED <<disk, writes, up, mem, read, hydrated, boot, stage, route, late, crashes>>

-----------------------------------------------------------------------------
(***************************************************************************)
(* checkAndMigrateCacheSchema and reconcileDownloadState.                  *)
(***************************************************************************)
\* The stored version is read; a read that fails counts as no version.
ReadVersion ==
    /\ up /\ stage = "waiting" /\ "download" \in hydrated
    /\ \/ stage' = IF disk.version = "current" THEN "reconcile" ELSE "clear"
       \/ stage' = "clear"
    /\ UNCHANGED <<storage, up, mem, read, hydrated, boot, syncer, route, rest>>

\* Mutant: the version is stamped before the tables are dropped.
StampFirst == <<"clear", "stamp", "stamping", "dropCache", "dropQueue", "reconcile">>
\* The order of the steps: the stamp comes last.
Order == <<"clear", "dropCache", "dropQueue", "stamp", "stamping", "reconcile">>
After(at) == Order[1 + CHOOSE i \in 1..5 : Order[i] = at]

\* clearAllDownloads, and the purchases' status set to null.
ClearStores ==
    /\ up /\ stage = "clear" /\ Len(writes) + 1 < MaxWrites /\ stage' = After("clear")
    /\ mem' = [mem EXCEPT !.downloads = "none", !.purchases = "none"]
    /\ writes' = writes \o <<[key |-> "downloads", value |-> "none"],
                             [key |-> "purchases", value |-> "none"]>>
    /\ late' = (late \/ "purchases" \in DOMAIN read)
    /\ UNCHANGED <<disk, tables, up, read, hydrated, boot, syncer, route, mishaps, crashes>>

\* clearSQLiteDatabase drops every table, and swallows whatever goes wrong.
Drop(at, table) ==
    /\ up /\ stage = at /\ stage' = After(at)
    /\ \/ tables' = [tables EXCEPT ![table] = "none"] /\ UNCHANGED mishaps
       \/ Mishap("drop") /\ UNCHANGED tables
    /\ UNCHANGED <<disk, writes, up, mem, read, hydrated, boot, syncer, route, late, crashes>>

\* stampCacheVersion, awaited.  When it rejects, so does the effect: the version stays
\* as it was, and the launch does without the reconciliation.
Stamp ==
    /\ up /\ stage = "stamp"
    /\ \/ Room /\ stage' = After("stamp") /\ Write("version", "current") /\ UNCHANGED mishaps
       \/ stage' = "failed" /\ Mishap("stamp") /\ UNCHANGED writes
    /\ UNCHANGED <<disk, tables, up, mem, read, hydrated, boot, syncer, route, late, crashes>>

Stamped ==
    /\ up /\ stage = "stamping"
    /\ \A i \in DOMAIN writes : writes[i].key # "version"
    /\ stage' = After("stamping")
    /\ UNCHANGED <<storage, up, mem, read, hydrated, boot, syncer, route, rest>>

\* The cache's table is there again; a download none of whose files is left goes.
\* A statement that fails ends it wherever it is.
Reconcile ==
    /\ up /\ stage = "reconcile" /\ Room
    /\ \/ stage' = "done" /\ tables' = Created("cache") /\ UNCHANGED mishaps
       \/ stage' = "failed" /\ tables' \in {tables, Created("cache")} /\ Mishap("reconcile")
    /\ \/ mem' = [mem EXCEPT !.downloads = "none"] /\ Write("downloads", "none")
       \/ UNCHANGED <<mem, writes>>
    /\ UNCHANGED <<disk, up, read, hydrated, boot, syncer, route, late, crashes>>

-----------------------------------------------------------------------------
(***************************************************************************)
(* The pages: index, the onboarding, home.                                 *)
(***************************************************************************)
Show(page) == pages' = Append(Front(pages), page)
Push(page) == Len(pages) < MaxPages /\ pages' = Append(pages, page)
Pages(p)   == up /\ Top = p /\ UNCHANGED <<up, read, hydrated, boot, syncer, stage, rest>>

\* What the index page waits for before it redirects.
Ready == {"settings", "auth"} \subseteq hydrated

Index ==
    /\ Pages("index") /\ Ready /\ boot \notin {"idle", "loading"}
    /\ Show(IF mem.onboarded THEN "home" ELSE "welcome")
    /\ UNCHANGED <<storage, mem, granted>>

Welcome == Pages("welcome") /\ Push("language") /\ UNCHANGED <<storage, mem, granted>>

\* setLanguage writes all of the settings.
SetLanguage == /\ Pages("language") /\ Quiet /\ Write("onboarded", mem.onboarded)
               /\ UNCHANGED <<disk, tables, mem, route>>

Language == /\ Pages("language") /\ Push("permissions") /\ granted' = FALSE
            /\ UNCHANGED <<storage, mem>>

requestLocationPermission ==
    /\ Pages("permissions") /\ granted' = TRUE /\ UNCHANGED <<storage, mem, pages>>

\* completeOnboarding, and home in the place of this page.
handleGetStarted ==
    /\ Pages("permissions") /\ granted /\ Quiet
    /\ mem' = [mem EXCEPT !.onboarded = TRUE] /\ Write("onboarded", TRUE)
    /\ Show("home") /\ granted' = FALSE /\ UNCHANGED <<disk, tables>>

GoBack == /\ up /\ Len(pages) > 1 /\ pages' = Front(pages) /\ granted' = FALSE
          /\ UNCHANGED <<storage, up, process, rest>>

\* A tap on a notification of the type geo.
NotificationTap == /\ up /\ Top # "home" /\ Push("home") /\ UNCHANGED <<storage, up, process, granted, rest>>

-----------------------------------------------------------------------------
\* A first install, an update from before versions were stamped, or an up-to-date
\* installation; the process is not running yet.
LaunchInit ==
    /\ \E onboarded \in BOOLEAN :
         \/ /\ disk = Install("stale", FALSE, "none")
            /\ tables = [cache |-> "none", queue |-> "none"]
         \/ /\ disk = Install("stale", onboarded, "old")
            /\ tables = [cache |-> "old", queue |-> "old"]
         \/ /\ disk = Install("current", onboarded, "new")
            /\ tables = [cache |-> "new", queue |-> "new"]
    /\ writes = <<>> /\ up = FALSE
    /\ mem = BlankStores /\ read = <<>> /\ hydrated = {} /\ boot = "idle"
    /\ syncer = "off" /\ stage = "waiting"
    /\ pages = <<"index">> /\ granted = FALSE
    /\ mishaps = {} /\ late = FALSE /\ crashes = 0

Hydration == \/ Hydrate("settings", "onboarded") \/ Hydrate("download", "downloads")
             \/ Hydrate("purchase", "purchases") \/ HydrateAuth

Migration == \/ ReadVersion \/ ClearStores \/ Drop("dropCache", "cache")
             \/ Drop("dropQueue", "queue") \/ Stamp \/ Stamped \/ Reconcile

Onboarding == Index \/ Welcome \/ SetLanguage \/ Language \/ requestLocationPermission
                \/ handleGetStarted \/ GoBack \/ NotificationTap

Launching == Flush \/ Launch \/ Hydration \/ BootStarts \/ BootEnds \/ InitQueue \/ Migration

LaunchNext == Launching \/ Onboarding \/ Crash

\* The storage answers, the effects run, and the bootstrap ends; writes, of which
\* there may always be one more, keep none of the rest waiting.
FairSpec ==
    /\ LaunchInit /\ [][LaunchNext]_launchVars
    /\ WF_launchVars(Flush)
    /\ WF_launchVars(Launch \/ Hydration \/ BootStarts \/ BootEnds \/ InitQueue \/ Migration \/ Index)

-----------------------------------------------------------------------------
\* Once the version is stamped, nothing of the old schema is left, wherever the
\* process ended meanwhile: no downloads; no tables, unless a database would not let
\* them go; no purchases, unless their store was cleared before it was read, for then
\* it merges and writes what it read.  The migration waits for the downloads only.
StampedMeansMigrated ==
    disk.version = "current" =>
        /\ disk.downloads # "old"
        /\ "drop" \notin mishaps => tables.cache # "old" /\ tables.queue # "old"
        /\ ~late => disk.purchases # "old"

\* "Must be called after Zustand stores have hydrated": a stamped installation has
\* none of the old purchases.  It fails for purchases that are read late.
PurchasesMigrated == disk.version = "current" => disk.purchases # "old"

LaunchTypeOK ==
    /\ disk.version \in {"stale", "current"} /\ disk.onboarded \in BOOLEAN
    /\ {disk.downloads, disk.purchases, mem.downloads, mem.purchases} \subseteq {"none", "old", "new"}
    /\ {tables.cache, tables.queue} \subseteq {"none", "old", "new"}
    /\ Len(writes) <= MaxWrites /\ up \in BOOLEAN /\ mem.onboarded \in BOOLEAN
    /\ DOMAIN read \subseteq DOMAIN BlankStores /\ hydrated \subseteq Stores
    /\ boot \in {"idle", "loading", "over"} /\ syncer \in {"off", "opening", "wired", "failed"}
    /\ stage \in Range(Order) \cup {"waiting", "done", "failed"}
    /\ Len(pages) \in 1..MaxPages /\ granted \in BOOLEAN
    /\ mishaps \subseteq {"read", "open", "drop", "stamp", "reconcile"}
    /\ late \in BOOLEAN /\ crashes \in 0..MaxCrashes

\* The launch keeps to its stages, and a stamped version tells the truth.
LaunchSound == LaunchTypeOK /\ StampedMeansMigrated

\* Who finished the onboarding never has to again, whatever the settings are told
\* during a later launch, unless they could not be read.
OnboardedOnce ==
    [][disk.onboarded /\ "read" \notin mishaps' => disk'.onboarded]_launchVars

\* The launch leaves its first page, the migration comes to its end and the sync
\* queue is wired, however the stores, the effects and one end of the process
\* interleave; and one call that fails stops no more than what it is a part of: the
\* stamp or the reconciliation the migration, a statement of the queue's the queue.
LaunchEnds ==
    []<>(up => /\ Top # "index"
               /\ stage = "done" \/ mishaps \cap {"stamp", "reconcile"} # {}
               /\ syncer = "wired" \/ "open" \in mishaps)

\* "Queue safe mutations that fail due to network errors": once the launch is over
\* the handler that is wired has a table to put them in.
OfflineQueued == (up /\ syncer = "wired" /\ stage = "done") => tables.queue # "none"
=============================================================================
