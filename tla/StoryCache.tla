----------------------------- MODULE StoryCache -----------------------------
(***************************************************************************)
(* Audio on the phone: the table of cached stories and the files it names, *)
(* the player and the prefetcher that fill it, the city download of the    *)
(* city screen, the settings screen that clears it, the reconciliation at  *)
(* start-up, the system that purges it, and the death of the process.      *)
(*                                                                         *)
(* One JavaScript thread and one SQLite connection that executes           *)
(* statements in the order they were issued: an action is the code between *)
(* two awaits, with the statement it issues at its end.                    *)
(***************************************************************************)
EXTENDS Integers, Sequences, FiniteSetsExt, Functions

CONSTANTS Cities, Stories,
          Items,        \* [Cities -> Seq(Stories)], a manifest's stories with audio
          NoStory,
          Size,         \* [Stories -> Nat], bytes of the audio
          MaxCache,     \* maxCacheBytes
          JobIds,       \* model bound: operations in flight
          MaxStarts,    \* model bound: operations the user starts
          MaxFaults     \* model bound: deaths, purges and failing statements

ASSUME StoryAssumption ==
    /\ Cities # {} /\ Items \in [Cities -> Seq(Stories)] /\ NoStory \notin Stories
    /\ Size \in [Stories -> Nat] /\ MaxCache \in Nat
ASSUME BoundAssumption == /\ JobIds \subseteq Nat \ {0} /\ 1 \in JobIds
                          /\ {MaxStarts, MaxFaults} \subseteq Nat

VARIABLES
    rows,       \* stories with a row in cached_stories
    files,      \* [Stories -> FileStates], the file at the story's path
    jobs,       \* [JobIds -> job], the asynchronous operations in flight
    hook,       \* the refs of the mounted useDownloadCity
    status,     \* [Cities -> Statuses], downloadsByCityId
    downloaded, \* cities in downloadedCities, which is persisted
    crossed,    \* stories two operations worked on at once
    stale,      \* stories whose file went without its row: stale by the
                \* system, or deleted by the catch of a failing eviction
    abandoned,  \* cities whose hook was unmounted, or cancelled for another
                \* city, during their download
    taken,      \* stories whose file an eviction or the system took from an
                \* operation that is to return its path
    starts, faults

cacheVars == <<rows, files>>
storeVars == <<status, downloaded>>
noteVars  == <<crossed, stale>>
countVars == <<starts, faults>>
vars == <<cacheVars, jobs, hook, storeVars, noteVars, abandoned, taken, countVars>>

FileStates == {"none", "part", "whole"}
Statuses   == {"idle", "fetching", "downloading", "completed", "error"}
Fetchers   == {"fetch", "city"}      \* operations that may download
Keepers    == {"remove", "reconcile"}           \* operations that only delete

\* An operation and where it waits.  `here': the hook that started it is still
\* mounted; `cut', `lost': its download, or an earlier one of the loop, was
\* cancelled; `hasty': the hook started or switched to another one meanwhile.
Free == [kind |-> "none", at |-> "done", city |-> CHOOSE c \in Cities : TRUE,
         story |-> NoStory, todo |-> <<>>, found |-> FALSE, listed |-> {},
         excess |-> 0, left |-> {}, here |-> FALSE, cut |-> FALSE, lost |-> FALSE,
         hasty |-> FALSE]

Live(j)      == jobs[j].kind # "none"
Put(j, job)  == jobs' = [jobs EXCEPT ![j] = job]
Goto(j, at)  == jobs' = [jobs EXCEPT ![j].at = at]
Release(j)   == Put(j, Free)

\* The first free slot takes a new operation.
Slot(j) == /\ ~Live(j) /\ \A i \in JobIds : i < j => Live(i)
           /\ starts < MaxStarts /\ starts' = starts + 1

NoHook == [mounted |-> FALSE, city |-> CHOOSE c \in Cities : TRUE,
           cancelled |-> FALSE, active |-> 0, manager |-> "none"]

Reconciling == [Free EXCEPT !.kind = "reconcile", !.at = "rows"]
Booting == [j \in JobIds |-> IF j = 1 THEN Reconciling ELSE Free]

Init ==
    /\ rows = {} /\ files = [s \in Stories |-> "none"]
    /\ jobs = Booting /\ hook = NoHook
    /\ status = [c \in Cities |-> "idle"] /\ downloaded = {}
    /\ crossed = {} /\ stale = {} /\ abandoned = {} /\ taken = {}
    /\ starts = 0 /\ faults = 0

Fault == faults < MaxFaults /\ faults' = faults + 1

\* The operation has a path, and has yet to return it.
Holding(j) == jobs[j].kind \in Fetchers /\ jobs[j].at \in {"touch", "stats", "list", "evict"}
\* The file of s goes, from under whoever holds its path.
Lose(s) == taken' = IF \E j \in JobIds : Holding(j) /\ jobs[j].story = s
                    THEN taken \cup {s} ELSE taken

Working(j)     == IF jobs[j].kind \in Fetchers THEN {jobs[j].story} \ {NoStory} ELSE {}
Keeping        == \E j \in JobIds : jobs[j].kind \in Keepers
Contest(j, s)  == crossed' = crossed \cup
                    IF Keeping \/ \E i \in JobIds \ {j} : s \in Working(i)
                    THEN {s} ELSE {}

\* Mutant: a row is believed without looking for its file.
Believed(s) == TRUE
Present(s)  == files[s] # "none"
Erase(S)    == files' = [s \in Stories |-> IF s \in S THEN "none" ELSE files[s]]
Total(S)    == MapThenSumSet(LAMBDA s : Size[s], S)

-----------------------------------------------------------------------------
(***************************************************************************)
(* The item loop of startDownload.                                         *)
(***************************************************************************)
\* Mutant: an unmounted hook does not cancel its loop.
CancelledIfHere(j) == jobs[j].here /\ hook.cancelled
Cancelled(j) == ~jobs[j].here \/ hook.cancelled

SetStatus(c, s) == status' = [status EXCEPT ![c] = s]

\* The loop goes to its next item; h is the hook when it is reached.
TakeItem(j, h) ==
    /\ Put(j, [jobs[j] EXCEPT !.at = "lookup", !.story = Head(jobs[j].todo),
                              !.todo = Tail(jobs[j].todo), !.listed = {},
                              !.excess = 0, !.found = FALSE,
                              !.cut = FALSE, !.lost = jobs[j].lost \/ jobs[j].cut])
    /\ hook' = [h EXCEPT !.active = j]
    /\ Contest(j, Head(jobs[j].todo))

Complete(j) ==
    /\ Release(j) /\ SetStatus(jobs[j].city, "completed")
    /\ downloaded' = downloaded \cup {jobs[j].city} /\ UNCHANGED crossed

\* The head of the loop.
NextItem(j, h) ==
    \/ /\ Cancelled(j) /\ Release(j) /\ hook' = h
       /\ IF jobs[j].here THEN SetStatus(jobs[j].city, "idle") ELSE UNCHANGED status
       /\ UNCHANGED <<downloaded, crossed>>
    \/ ~Cancelled(j) /\ jobs[j].todo = <<>> /\ Complete(j) /\ hook' = h
    \/ ~Cancelled(j) /\ jobs[j].todo # <<>> /\ TakeItem(j, h) /\ UNCHANGED storeVars

\* The loop forgets the active handle, its own or not.
Inactive(j) == IF jobs[j].here THEN [hook EXCEPT !.active = 0] ELSE hook

\* A fetch is over, with a path or without.
ItemDone(j) ==
    IF jobs[j].kind = "city" THEN NextItem(j, Inactive(j))
    ELSE Release(j) /\ UNCHANGED <<hook, storeVars, crossed>>

\* The catch of startDownload; an error 401 ends the session, which clears
\* the download store.
LoopFails(j) ==
    /\ Release(j) /\ hook' = (IF hook.active = j THEN [hook EXCEPT !.active = 0] ELSE hook)
    /\ UNCHANGED crossed
    /\ \/ Cancelled(j) /\ UNCHANGED storeVars
       \/ ~Cancelled(j) /\ SetStatus(jobs[j].city, "error") /\ UNCHANGED downloaded
       \/ /\ ~Cancelled(j) /\ downloaded' = {}
          /\ status' = [c \in Cities |-> IF c = jobs[j].city THEN "error" ELSE "idle"]

-----------------------------------------------------------------------------
(***************************************************************************)
(* The hook: start, cancel, another city, another screen.                  *)
(***************************************************************************)
\* startDownload, from the buttons of DownloadCitySheet.
Start(j) ==
    /\ Slot(j) /\ hook.mounted
    /\ hook.city \notin downloaded /\ status[hook.city] \in {"idle", "error"}
    /\ hook' = [hook EXCEPT !.cancelled = FALSE]
    /\ jobs' = [i \in JobIds |->
                  IF i = j
                  THEN [Free EXCEPT !.kind = "city", !.at = "manifest", !.here = TRUE,
                                    !.city = hook.city, !.todo = Items[hook.city]]
                  ELSE [jobs[i] EXCEPT !.hasty = @ \/ jobs[i].here]]
    /\ SetStatus(hook.city, "fetching")
    /\ UNCHANGED <<cacheVars, downloaded, noteVars, abandoned, taken, faults>>

\* Cancels the download of the active handle, not its loop.
CutActive == IF hook.active = 0 THEN jobs ELSE [jobs EXCEPT ![hook.active].cut = TRUE]

\* Cities with a loop of the mounted hook.
Running == {jobs[j].city : j \in {i \in JobIds : jobs[i].here}}

Cancel ==
    /\ hook.mounted /\ status[hook.city] = "downloading"
    /\ jobs' = CutActive
    /\ hook' = [hook EXCEPT !.cancelled = TRUE, !.active = 0]
    /\ SetStatus(hook.city, "idle")
    /\ abandoned' = abandoned \cup (Running \ {hook.city})
    /\ UNCHANGED <<cacheVars, downloaded, noteVars, taken, countVars>>

\* The hook is reused for city c: the effect's cleanup sets cancelledRef, and
\* the effect itself resets it before any loop has looked.
Switch(c) ==
    /\ hook.mounted /\ c # hook.city
    /\ jobs' = [j \in JobIds |-> [CutActive[j] EXCEPT !.hasty = @ \/ jobs[j].here]]
    /\ hook' = [hook EXCEPT !.cancelled = FALSE, !.active = 0, !.city = c]
    /\ UNCHANGED <<cacheVars, storeVars, noteVars, abandoned, taken, countVars>>

Mount(c) ==
    /\ ~hook.mounted
    /\ hook' = [NoHook EXCEPT !.mounted = TRUE, !.city = c]
    /\ UNCHANGED <<cacheVars, jobs, storeVars, noteVars, abandoned, taken, countVars>>

Unmount ==
    /\ hook.mounted /\ hook' = NoHook
    /\ jobs' = [j \in JobIds |-> [CutActive[j] EXCEPT !.here = FALSE]]
    /\ abandoned' = abandoned \cup Running
    /\ UNCHANGED <<cacheVars, storeVars, noteVars, taken, countVars>>

ManifestAnswered(j) ==
    /\ jobs[j].at = "manifest"
    /\ \/ Cancelled(j) /\ Release(j) /\ UNCHANGED <<hook, storeVars, crossed>>
       \/ ~Cancelled(j) /\ jobs[j].todo = <<>> /\ Complete(j) /\ UNCHANGED hook
       \/ /\ ~Cancelled(j) /\ jobs[j].todo # <<>> /\ UNCHANGED downloaded
          /\ \/ /\ hook.manager = "none" /\ hook' = [hook EXCEPT !.manager = "opening"]
                /\ Goto(j, "open") /\ UNCHANGED crossed
             \/ hook.manager = "open" /\ TakeItem(j, hook)
          /\ SetStatus(jobs[j].city, "downloading")
       \* init() of an earlier start is not done, or failed.
       \/ ~Cancelled(j) /\ jobs[j].todo # <<>> /\ hook.manager = "opening" /\ LoopFails(j)
    /\ UNCHANGED <<cacheVars, stale, abandoned, taken, countVars>>

ManifestFails(j) ==
    /\ jobs[j].at = "manifest" /\ LoopFails(j)
    /\ UNCHANGED <<cacheVars, stale, abandoned, taken, countVars>>

ManagerOpens(j) ==
    /\ jobs[j].at = "open"
    /\ NextItem(j, IF jobs[j].here THEN [hook EXCEPT !.manager = "open"] ELSE hook)
    /\ UNCHANGED <<cacheVars, stale, abandoned, taken, countVars>>

ManagerFails(j) ==
    /\ jobs[j].at = "open" /\ Fault /\ LoopFails(j)
    /\ UNCHANGED <<cacheVars, stale, abandoned, taken, starts>>

-----------------------------------------------------------------------------
(***************************************************************************)
(* One fetch: look the story up, download it, insert it, evict.            *)
(***************************************************************************)
\* getAudioPath for the player and prefetchOne.  The set of prefetches in
\* progress keeps a story from being prefetched twice at once, but not from
\* being prefetched and played, so it excludes no behaviour.
Fetch(j, s) ==
    /\ Slot(j)
    /\ Put(j, [Free EXCEPT !.kind = "fetch", !.at = "lookup", !.story = s])
    /\ Contest(j, s)
    /\ UNCHANGED <<cacheVars, hook, storeVars, stale, abandoned, taken, faults>>

Lookup(j) ==
    /\ jobs[j].at = "lookup"
    /\ Put(j, [jobs[j] EXCEPT !.at = "check", !.found = jobs[j].story \in rows])
    /\ taken' = taken \ {jobs[j].story}
    /\ UNCHANGED <<cacheVars, hook, storeVars, noteVars, abandoned, countVars>>

\* The download begins, in place or in a temporary file.
BeginTransfer(j) ==
    \/ /\ jobs[j].cut /\ ItemDone(j) /\ UNCHANGED files
    \/ /\ ~jobs[j].cut /\ Goto(j, "transfer") /\ UNCHANGED <<hook, storeVars, crossed>>
       /\ \/ files' = [files EXCEPT ![jobs[j].story] = "part"]
          \/ UNCHANGED files

\* A row counts only if its file exists; a stale one is removed.
Check(j) ==
    /\ jobs[j].at = "check" /\ jobs[j].kind \in Fetchers
    /\ \/ ~jobs[j].found /\ BeginTransfer(j) /\ UNCHANGED rows
       \/ /\ jobs[j].found /\ Present(jobs[j].story)
          /\ Goto(j, "touch") /\ UNCHANGED <<cacheVars, hook, storeVars, crossed>>
       \/ /\ jobs[j].found /\ ~Present(jobs[j].story)
          /\ rows' = rows \ {jobs[j].story} /\ Goto(j, "begin")
          /\ UNCHANGED <<files, hook, storeVars, crossed>>
    /\ UNCHANGED <<stale, abandoned, taken, countVars>>

\* The path of the cached file is returned.
Touched(j) ==
    /\ jobs[j].at = "touch" /\ ItemDone(j)
    /\ UNCHANGED <<cacheVars, stale, abandoned, taken, countVars>>

Begin(j) ==
    /\ jobs[j].at = "begin" /\ BeginTransfer(j)
    /\ UNCHANGED <<rows, stale, abandoned, taken, countVars>>

Land(j) ==
    /\ jobs[j].at = "transfer" /\ ~jobs[j].cut
    /\ files' = [files EXCEPT ![jobs[j].story] = "whole"]
    /\ rows' = rows \cup {jobs[j].story}
    /\ stale' = stale \ {jobs[j].story}
    /\ Goto(j, "stats")
    /\ UNCHANGED <<hook, storeVars, crossed, abandoned, taken, countVars>>

Discard(j) == Erase({jobs[j].story})

\* The download fails or was cancelled, or the INSERT throws.
TransferFails(j) ==
    /\ jobs[j].at = "transfer" /\ Discard(j) /\ ItemDone(j)
    /\ UNCHANGED <<rows, stale, abandoned, taken, countVars>>

\* Mutant: one byte over the limit is tolerated.
OverByOne(total) == total > MaxCache + 1
OverLimit(total) == total > MaxCache

SizeRead(j) ==
    /\ jobs[j].at = "stats"
    /\ \/ ~OverLimit(Total(rows)) /\ ItemDone(j)
       \/ /\ OverLimit(Total(rows)) /\ UNCHANGED <<hook, storeVars, crossed>>
          /\ Put(j, [jobs[j] EXCEPT !.at = "list", !.excess = Total(rows) - MaxCache])
    /\ UNCHANGED <<cacheVars, stale, abandoned, taken, countVars>>

RowsListed(j) ==
    /\ jobs[j].at = "list"
    /\ Put(j, [jobs[j] EXCEPT !.at = "evict", !.listed = rows])
    /\ UNCHANGED <<cacheVars, hook, storeVars, noteVars, abandoned, taken, countVars>>

\* Mutant: the eviction forgets the row.
EvictFile(s) == Erase({s}) /\ UNCHANGED rows
EvictStory(s) == Erase({s}) /\ rows' = rows \ {s}

\* Least recently accessed first, by a wall clock read before the download:
\* the order is left open.
Evict(j) ==
    /\ jobs[j].at = "evict" /\ jobs[j].excess > 0
    /\ \E s \in jobs[j].listed :
         /\ EvictStory(s) /\ Lose(s)
         /\ Put(j, [jobs[j] EXCEPT !.listed = @ \ {s}, !.excess = @ - Size[s]])
    /\ UNCHANGED <<hook, storeVars, noteVars, abandoned, countVars>>

EvictDone(j) ==
    /\ jobs[j].at = "evict" /\ (jobs[j].excess <= 0 \/ jobs[j].listed = {})
    /\ ItemDone(j)
    /\ UNCHANGED <<cacheVars, stale, abandoned, taken, countVars>>

\* A statement throws.  After the insertion the catch still deletes the file.
StatementFails(j) ==
    /\ jobs[j].kind \in Fetchers /\ Fault
    /\ \/ /\ jobs[j].at \in {"lookup", "check"} /\ (jobs[j].at = "check" => jobs[j].found)
          /\ IF jobs[j].kind = "city" THEN LoopFails(j)
             ELSE Release(j) /\ UNCHANGED <<hook, storeVars, crossed>>
          /\ UNCHANGED <<files, stale>>
       \/ /\ jobs[j].at \in {"stats", "list", "evict"}
          /\ ItemDone(j) /\ Discard(j) /\ stale' = stale \cup {jobs[j].story}
    /\ UNCHANGED <<rows, abandoned, taken, starts>>

-----------------------------------------------------------------------------
(***************************************************************************)
(* The settings screen: remove one city, clear everything.                 *)
(***************************************************************************)
CrossAll == crossed' = crossed \cup UNION {Working(i) : i \in JobIds}

StoriesOf(c) == Range(Items[c])

RemoveCity(j, c) ==
    /\ Slot(j) /\ c \in downloaded
    /\ Put(j, [Free EXCEPT !.kind = "remove", !.at = "select", !.city = c])
    /\ CrossAll
    /\ UNCHANGED <<cacheVars, hook, storeVars, stale, abandoned, taken, faults>>

CitySelected(j) ==
    /\ jobs[j].at = "select"
    /\ Put(j, [jobs[j] EXCEPT !.at = "wipe", !.listed = rows \cap StoriesOf(jobs[j].city)])
    /\ UNCHANGED <<cacheVars, hook, storeVars, noteVars, abandoned, taken, countVars>>

CityWiped(j) ==
    /\ jobs[j].at = "wipe"
    /\ Erase(jobs[j].listed) /\ rows' = rows \ StoriesOf(jobs[j].city)
    /\ Goto(j, "drop")
    /\ UNCHANGED <<hook, storeVars, noteVars, abandoned, taken, countVars>>

CityDropped(j) ==
    /\ jobs[j].at = "drop" /\ Release(j)
    /\ downloaded' = downloaded \ {jobs[j].city} /\ SetStatus(jobs[j].city, "idle")
    /\ UNCHANGED <<cacheVars, hook, noteVars, abandoned, taken, countVars>>

\* clearAll deletes the directory and issues its DELETE in one stretch.
ClearCache(j) ==
    /\ Slot(j) /\ Put(j, [Free EXCEPT !.kind = "remove", !.at = "dropAll"])
    /\ Erase(Stories) /\ rows' = {} /\ CrossAll
    /\ UNCHANGED <<hook, storeVars, stale, abandoned, taken, faults>>

AllDropped(j) ==
    /\ jobs[j].at = "dropAll" /\ Release(j)
    /\ downloaded' = {} /\ status' = [c \in Cities |-> "idle"]
    /\ UNCHANGED <<cacheVars, hook, noteVars, abandoned, taken, countVars>>

-----------------------------------------------------------------------------
(***************************************************************************)
(* reconcileDownloadState, once per process.                               *)
(***************************************************************************)
RowsRead(j) ==
    /\ jobs[j].at = "rows"
    /\ Put(j, [jobs[j] EXCEPT !.at = "sweep", !.listed = rows])
    /\ UNCHANGED <<cacheVars, hook, storeVars, noteVars, abandoned, taken, countVars>>

Sweep(j) ==
    /\ jobs[j].at = "sweep"
    /\ \E s \in jobs[j].listed :
         /\ rows' = IF Present(s) THEN rows ELSE rows \ {s}
         /\ Put(j, [jobs[j] EXCEPT !.listed = @ \ {s}])
    /\ UNCHANGED <<files, hook, storeVars, noteVars, abandoned, taken, countVars>>

ValidRead(j) ==
    /\ jobs[j].at = "sweep" /\ jobs[j].listed = {}
    /\ Put(j, [jobs[j] EXCEPT !.at = "orphans", !.listed = rows])
    /\ UNCHANGED <<cacheVars, hook, storeVars, noteVars, abandoned, taken, countVars>>

OrphansDeleted(j) ==
    /\ jobs[j].at = "orphans" /\ Erase(Stories \ jobs[j].listed)
    /\ Put(j, [jobs[j] EXCEPT !.at = "cities", !.listed = {}, !.left = downloaded])
    /\ UNCHANGED <<rows, hook, storeVars, noteVars, abandoned, taken, countVars>>

\* A city none of whose stories is cached is no longer downloaded.
CityReconciled(j) ==
    /\ jobs[j].at = "cities"
    /\ \/ jobs[j].left = {} /\ Release(j) /\ UNCHANGED downloaded
       \/ \E c \in jobs[j].left :
            LET job == [jobs[j] EXCEPT !.left = @ \ {c}]
            IN  IF Items[c] = <<>> THEN Put(j, job) /\ downloaded' = downloaded \ {c}
                ELSE /\ Put(j, [job EXCEPT !.at = "lookup", !.city = c,
                                           !.story = Head(Items[c]), !.todo = Tail(Items[c])])
                     /\ UNCHANGED downloaded
    /\ UNCHANGED <<cacheVars, hook, status, noteVars, abandoned, taken, countVars>>

\* isCached: a row whose file is gone is deleted, a row not found is not.
StoryReconciled(j) ==
    /\ jobs[j].at = "check" /\ jobs[j].kind = "reconcile"
    /\ LET cached == jobs[j].found /\ Present(jobs[j].story)
       IN  /\ rows' = IF jobs[j].found /\ ~cached THEN rows \ {jobs[j].story} ELSE rows
           /\ \/ cached /\ Goto(j, "cities") /\ UNCHANGED downloaded
              \/ /\ ~cached /\ jobs[j].todo = <<>> /\ Goto(j, "cities")
                 /\ downloaded' = downloaded \ {jobs[j].city}
              \/ /\ ~cached /\ jobs[j].todo # <<>> /\ UNCHANGED downloaded
                 /\ Put(j, [jobs[j] EXCEPT !.at = "lookup", !.story = Head(jobs[j].todo),
                                           !.todo = Tail(jobs[j].todo)])
    /\ UNCHANGED <<files, hook, status, noteVars, abandoned, taken, countVars>>

-----------------------------------------------------------------------------
(***************************************************************************)
(* The system.                                                             *)
(***************************************************************************)
Purge(s) ==
    /\ Fault /\ Present(s) /\ Erase({s}) /\ stale' = stale \cup {s} /\ Lose(s)
    /\ UNCHANGED <<rows, jobs, hook, storeVars, crossed, abandoned, starts>>

\* The process dies and the app is started again.
Kill ==
    /\ Fault /\ jobs' = Booting /\ hook' = NoHook
    /\ status' = [c \in Cities |-> "idle"] /\ abandoned' = {} /\ taken' = {}
    /\ UNCHANGED <<cacheVars, downloaded, noteVars, starts>>

-----------------------------------------------------------------------------
Screen == \/ \E j \in JobIds : Start(j) \/ ClearCache(j)
          \/ \E j \in JobIds, c \in Cities : RemoveCity(j, c)
          \/ Cancel \/ Unmount \/ \E c \in Cities : Switch(c) \/ Mount(c)
Walk   == \E j \in JobIds, s \in Stories : Fetch(j, s)

\* Every step of an operation that a settled await leads to.
Resume(j) ==
    \/ ManifestAnswered(j) \/ ManifestFails(j) \/ ManagerOpens(j)
    \/ Lookup(j) \/ Check(j) \/ Touched(j) \/ Begin(j) \/ Land(j) \/ TransferFails(j)
    \/ SizeRead(j) \/ RowsListed(j) \/ Evict(j) \/ EvictDone(j)
    \/ CitySelected(j) \/ CityWiped(j) \/ CityDropped(j) \/ AllDropped(j)
    \/ RowsRead(j) \/ Sweep(j) \/ ValidRead(j) \/ OrphansDeleted(j)
    \/ CityReconciled(j) \/ StoryReconciled(j)

Next == \/ Screen \/ Walk
        \/ \E j \in JobIds : Resume(j) \/ ManagerFails(j) \/ StatementFails(j)
        \/ \E s \in Stories : Purge(s)
        \/ Kill

Spec == Init /\ [][Next]_vars

-----------------------------------------------------------------------------
Stages == {"done", "manifest", "open", "lookup", "check", "touch", "begin",
           "transfer", "stats", "list", "evict", "select", "wipe", "drop",
           "dropAll", "rows", "sweep", "orphans", "cities"}

TypeOK ==
    /\ rows \subseteq Stories /\ files \in [Stories -> FileStates]
    /\ \A j \in JobIds :
         /\ jobs[j].kind \in Fetchers \cup Keepers \cup {"none"} /\ jobs[j].at \in Stages
         /\ jobs[j].city \in Cities /\ jobs[j].story \in Stories \cup {NoStory}
         /\ jobs[j].todo \in Seq(Stories) /\ jobs[j].listed \subseteq Stories
         /\ jobs[j].excess \in Int /\ jobs[j].left \subseteq Cities
         /\ Live(j) => jobs[j].at # "done"
    /\ hook.city \in Cities /\ hook.manager \in {"none", "opening", "open"}
    /\ hook.active # 0 => jobs[hook.active].kind = "city" /\ jobs[hook.active].here
    /\ status \in [Cities -> Statuses] /\ downloaded \subseteq Cities
    /\ crossed \cup stale \cup taken \subseteq Stories /\ abandoned \subseteq Cities
    /\ starts \in 0..MaxStarts /\ faults \in 0..MaxFaults

Evicting == \E j \in JobIds : jobs[j].at \in {"stats", "list", "evict"}

\* However many insertions and evictions overlap, once the evictions are done
\* the cache is within its limit.
LimitKept == faults = 0 /\ ~Evicting => Total(rows) <= MaxCache

\* A row names a complete file, except for what the system purged, a failing
\* eviction, and stories two operations worked on at once.
RowsHaveFiles == \A s \in rows \ (crossed \cup stale) : files[s] = "whole"

\* A file without a row is being downloaded, or waits for the reconciliation
\* of the present process.
NoOrphans ==
    \A s \in Stories \ (rows \cup crossed) : Present(s) =>
        \E j \in JobIds : \/ jobs[j].at = "transfer" /\ jobs[j].story = s
                          \/ jobs[j].at \in {"rows", "sweep", "orphans"}

\* getAudioPath and a download come back with a path: the statement they
\* waited for last is done.
Returns(j) == /\ Holding(j) /\ jobs[j].at # "list" /\ jobs'[j].at \in {"done", "lookup"}
              /\ faults' = faults

\* When a path is returned the file it names is there and whole, however long
\* ago the file was checked or landed and whatever ran since, unless two
\* operations worked on the story at once, or an eviction or the system took
\* the file from under this one.
ServedWhole ==
    [][\A j \in JobIds :
          Returns(j) /\ jobs[j].story \notin crossed \cup taken
            => files[jobs[j].story] = "whole"]_vars

\* "Returns the local URI if cached": not excusing the evictions.
ServedPresent ==
    [][\A j \in JobIds : Returns(j) /\ jobs[j].story \notin crossed
                           => files[jobs[j].story] = "whole"]_vars

Whole(j) == ~jobs[j].cut /\ ~jobs[j].lost
Finishes(c) == {j \in JobIds : jobs[j].kind = "city" /\ jobs[j].city = c /\ jobs[j].todo = <<>>}

\* A loop one of whose downloads was cancelled never marks its city, unless
\* the same hook started or switched to another download meanwhile.
MarkedUncut ==
    [][\A c \in downloaded' \ downloaded :
          \E j \in Finishes(c) : Whole(j) \/ jobs[j].hasty]_vars

\* A download the store shows as running has a loop that will end it, unless
\* its hook was unmounted, or cancelled for another city, meanwhile.
BusyMeansLoop ==
    \A c \in Cities \ abandoned : status[c] \in {"fetching", "downloading"} =>
        \E j \in JobIds : jobs[j].kind = "city" /\ jobs[j].city = c

\* Rows, files, statuses and loops agree: a row has its file, a file its row or a job
\* that will see to it, and a city that is busy a loop.
CacheSound == TypeOK /\ RowsHaveFiles /\ NoOrphans /\ BusyMeansLoop

\* "If the hook instance is reused for a different city, cancel the old city's
\* work": a loop whose download was cancelled marks no city.
CancelsOldWork ==
    [][\A c \in downloaded' \ downloaded : \E j \in Finishes(c) : Whole(j)]_vars
=============================================================================
