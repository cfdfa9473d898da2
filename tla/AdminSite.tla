----------------------------- MODULE AdminSite -----------------------------
(***************************************************************************)
(* The admin site: its session, kept by the browser for all its tabs, the  *)
(* pages a session opens, what they have fetched, and the changes made on  *)
(* them.  Every request goes through the generated client, which accepts   *)
(* every status: no answer reaches the interceptors of api/client.ts, and  *)
(* an expired token is met by the pages themselves.                        *)
(*                                                                         *)
(* A row is known by the number of its last edit and whether it is on:     *)
(* active, enabled, not deleted or still open.                             *)
(***************************************************************************)
EXTENDS AdminApi, FiniteSets, Sequences

CONSTANTS Admins, Pages, Looks, Uses,   \* the pages, queries and changes a run looks at
          MaxEpochs, MaxEdits, MaxFetches, MaxKept, MaxFlights      \* model bounds

ASSUME AdminAssumption == Admins \subseteq Nat \ {0} /\ IsFiniteSet(Admins)
ASSUME BoundAssumption == {MaxEpochs, MaxEdits, MaxFetches, MaxKept, MaxFlights} \subseteq Nat

VARIABLES
    epoch,     \* access tokens of earlier epochs have expired
    stored,    \* the session in localStorage
    store,     \* the session in the auth store of this tab
    hydrated,
    route,     \* the page, or "login"
    from,      \* where the login leads back to
    cache,     \* query -> what React Query has for it
    fetch,     \* query -> the session of its fetch on the way
    panel,     \* the drawer or the question that is open, with the row it shows
    flights,   \* the mutations on the way, in the order of their clicks
    server,    \* [Things -> row]
    edits,     \* edits ever made
    undone,    \* the story has lost an edit
    ignored    \* a failure was passed over, its 401 left to the refresh flow

sessionVars == <<epoch, stored, store, hydrated>>
pageVars    == <<route, from, panel>>
history     == <<undone, ignored>>
vars == <<sessionVars, pageVars, cache, fetch, flights, server, edits, history>>

Nobody    == 0
NoSession == [user |-> Nobody, epoch |-> 0]
Sessions  == [user : Admins \cup {Nobody}, epoch : 0..MaxEpochs]
Things    == {"city", "point", "story", "report"}
Rows      == [edit : 0..MaxEdits, on : BOOLEAN]
NoRow     == [edit |-> 0, on |-> FALSE]
Closed    == [change |-> "none", row |-> NoRow]

SignedIn == store.user # Nobody
Valid(s) == s.user # Nobody /\ s.epoch = epoch

-----------------------------------------------------------------------------
(***************************************************************************)
(* The pages, the queries they observe and where one gets from them.       *)
(***************************************************************************)
Query(operation, thing) == [operation |-> operation, thing |-> thing]

Queries ==
    [stats   |-> Query(adminGetStats, "report"),   cities  |-> Query(adminListCities, "city"),
     pois    |-> Query(adminListPOIs, "point"),    poi     |-> Query(getPOI, "point"),
     stories |-> Query(adminListStories, "story"), reports |-> Query(adminListReports, "report"),
     poiReports |-> Query(adminListReportsByPOI, "report"),
     jobs  |-> Query(adminListInflationJobsByPOI, "point"),
     audit |-> Query(adminListAuditLogs, "report")]

Menu == {"dashboard", "cities", "map", "reports", "audit"}

Links(page) == Menu \cup (IF page \in {"map", "reports"} THEN {"detail"} ELSE {})

Observed(page) ==
    {"stats"} \cup
    CASE page = "dashboard" -> {"cities"}
      [] page = "cities"    -> {"cities"}
      [] page = "map"       -> {"cities"} \cup (IF "cities" \in DOMAIN cache THEN {"pois"} ELSE {})
      [] page = "detail"    -> {"poi", "stories", "poiReports", "jobs"}
      [] page = "reports"   -> {"reports"}
      [] OTHER              -> {"audit"}

-----------------------------------------------------------------------------
(***************************************************************************)
(* The changes the pages offer: where, on a row of which query, the hook,  *)
(* the operation, and whether an error of it carries its status.           *)
(***************************************************************************)
Change(page, query, hook, operation, coded) ==
    [page |-> page, query |-> query, hook |-> hook, operation |-> operation, coded |-> coded]

Changes ==
    [createCity  |-> Change("cities", "cities", "createCity", adminCreateCity, TRUE),
     saveCity    |-> Change("cities", "cities", "updateCity", adminUpdateCity, TRUE),
     toggleCity  |-> Change("cities", "cities", "updateCity", adminUpdateCity, TRUE),
     deleteCity  |-> Change("cities", "cities", "deleteCity", adminDeleteCity, TRUE),
     restoreCity |-> Change("cities", "cities", "restoreCity", adminRestoreCity, TRUE),
     togglePOI   |-> Change("detail", "poi", "updatePOI", adminUpdatePOI, FALSE),
     toggleStory |-> Change("detail", "stories", "toggleStory", adminUpdateStory, FALSE),
     inflate     |-> Change("detail", "poi", "inflate", adminTriggerInflation, FALSE),
     closeReport |-> Change("reports", "reports", "updateStatus", adminUpdateReportStatus, FALSE),
     disableStory |-> Change("reports", "reports", "disableStory", adminDisableReportedStory, TRUE)]

ASSUME PartAssumption == /\ "dashboard" \in Pages
                         /\ Looks \subseteq DOMAIN Queries /\ Uses \subseteq DOMAIN Changes

\* A question to confirm or the drawer; the drawer stays until it is saved.
Panels  == {"createCity", "saveCity", "toggleCity", "deleteCity", "restoreCity"}
Drawers == {"createCity", "saveCity"}
Toggles == {"toggleCity", "togglePOI", "toggleStory"}
Offs    == {"deleteCity", "closeReport", "disableStory"}
Thing(c) == Queries[Changes[c].query].thing

-----------------------------------------------------------------------------
(***************************************************************************)
(* The session.                                                            *)
(***************************************************************************)
None == [q \in {} |-> NoRow]

\* Mutant: what has been fetched is left.
ForgetSession == UNCHANGED cache
ClearCache    == cache' = None

\* resetAuth: queries on the way are cancelled, the cache is cleared, then the
\* store and localStorage.
ResetAuth == /\ fetch' = None /\ ClearCache
             /\ stored' = NoSession /\ store' = NoSession

\* The page is left: what is open on it goes, its mutations are still answered.
Leave(page) == /\ route' = page /\ panel' = Closed
               /\ flights' = [i \in DOMAIN flights |-> [flights[i] EXCEPT !.here = FALSE]]

HydrateFromStorage ==
    /\ ~hydrated /\ hydrated' = TRUE
    /\ store' = stored
    /\ UNCHANGED <<epoch, stored, pageVars, cache, fetch, flights, server, edits, history>>

\* ProtectedRoute: without a session every page leads to the login.
Redirect ==
    /\ hydrated /\ ~SignedIn /\ route # "login"
    /\ Leave("login") /\ from' = route
    /\ UNCHANGED <<sessionVars, cache, fetch, server, edits, history>>

\* onFinish: the login answers 200, for an admin, and leads back.
LogIn(a) ==
    /\ hydrated /\ route = "login"
    /\ \E status \in login : Good(status)
    /\ stored' = [user |-> a, epoch |-> epoch] /\ store' = stored'
    /\ Leave(from) /\ UNCHANGED <<epoch, hydrated, from, cache, fetch, server, edits, history>>

handleLogout ==
    /\ hydrated /\ SignedIn /\ route # "login"
    /\ ResetAuth /\ Leave("login") /\ from' = "dashboard"
    /\ UNCHANGED <<epoch, hydrated, server, edits, history>>

\* Another tab of the site signs in or out: it shares localStorage only.
OtherTab(s) ==
    /\ s # stored /\ s.epoch = epoch
    /\ stored' = s
    /\ UNCHANGED <<epoch, store, hydrated, pageVars, cache, fetch, flights, server, edits, history>>

Expire ==
    /\ epoch < MaxEpochs /\ epoch' = epoch + 1
    /\ UNCHANGED <<stored, store, hydrated, pageVars, cache, fetch, flights, server, edits, history>>

\* A page is loaded anew, or the login after an error that broke the page.  A
\* change that is on its way is not called back: nobody waits for its answer.
Reload(page) ==
    /\ page \in {route, "login"}
    /\ store' = NoSession /\ hydrated' = FALSE /\ route' = page /\ panel' = Closed /\ from' = "dashboard"
    /\ cache' = None /\ fetch' = None
    /\ flights' = [i \in DOMAIN flights |-> [flights[i] EXCEPT !.here = FALSE,
                                                !.at = IF @ = "write" THEN "sent" ELSE "done"]]
    /\ UNCHANGED <<epoch, stored, server, edits, history>>

Visit(page) ==
    /\ SignedIn /\ route # "login" /\ panel = Closed
    /\ page \in (Pages \cap Links(route)) \ {route}
    /\ Leave(page)
    /\ UNCHANGED <<sessionVars, from, cache, fetch, server, edits, history>>

-----------------------------------------------------------------------------
(***************************************************************************)
(* Queries.                                                                *)
(***************************************************************************)
Add(f, q, v) == [p \in DOMAIN f \cup {q} |-> IF p = q THEN v ELSE f[p]]
Drop(f, qs)  == [p \in DOMAIN f \ qs |-> f[p]]
Entry(user, row) == [who |-> user, row |-> row]

\* Observed and missing or out of date; what nobody observes may be collected.
Fetch(q) ==
    /\ hydrated /\ SignedIn /\ route # "login" /\ q \in Observed(route) \ DOMAIN fetch
    /\ Cardinality(DOMAIN fetch) < MaxFetches
    /\ Cardinality(DOMAIN fetch \cup DOMAIN cache \cup {q}) <= MaxKept
    /\ fetch' = Add(fetch, q, store)
    /\ UNCHANGED <<sessionVars, pageVars, cache, flights, server, edits, history>>

Collect(q) ==
    /\ q \in DOMAIN cache \ Observed(route)
    /\ cache' = Drop(cache, {q})
    /\ UNCHANGED <<sessionVars, pageVars, fetch, flights, server, edits, history>>

\* The status is one of the contract; 401 comes exactly to those whose token
\* the server does not take, 0 stands for none.
Answer(operation, session, status) ==
    IF ~Public(operation) /\ ~Valid(session) THEN status \in {0, 401}
    ELSE status \in (operation \cup {0}) \ {401}

\* A good answer is shown, a bad one leaves what is there (and is repeated once).
FetchEnds(q, status) ==
    /\ q \in DOMAIN fetch /\ Answer(Queries[q].operation, fetch[q], status)
    /\ fetch' = Drop(fetch, {q})
    /\ cache' = IF Good(status) THEN Add(cache, q, Entry(fetch[q].user, server[Queries[q].thing]))
                ELSE cache
    /\ UNCHANGED <<sessionVars, pageVars, flights, server, edits, history>>

-----------------------------------------------------------------------------
(***************************************************************************)
(* Changes.  useMutation calls the callbacks of the click only for the     *)
(* latest call of a hook, and only while its page is there.                *)
(***************************************************************************)
HookOf(f)  == Changes[f.change].hook
Latest(i)  == flights[i].here /\ \A j \in DOMAIN flights :
                  j > i /\ flights[j].here => HookOf(flights[j]) # HookOf(flights[i])
Pending(hook) == \E i \in DOMAIN flights : flights[i].here /\ HookOf(flights[i]) = hook

\* The buttons that wait are disabled; that of the switch of a city does not.
Disabled(c) == IF c \in Drawers THEN Pending("createCity") \/ Pending("updateCity")
               ELSE c # "toggleCity" /\ Pending(Changes[c].hook)

Shown(c)   == cache[Changes[c].query].row
Offers(c)  == /\ SignedIn /\ route = Changes[c].page /\ Changes[c].query \in DOMAIN cache
              /\ ~Disabled(c)
              /\ c \in Offs => Shown(c).on
              /\ c = "restoreCity" => ~Shown(c).on

Begin(c, row) ==
    /\ Len(flights) < MaxFlights
    /\ flights' = Append(flights,
          [change |-> c, session |-> store, at |-> IF c = "toggleStory" THEN "read" ELSE "write",
           here |-> TRUE, row |-> IF c \in Toggles THEN [row EXCEPT !.on = ~@] ELSE row, clicked |-> edits])

\* The drawer or the question keeps the row as it was shown.
Open(c) ==
    /\ c \in Panels /\ panel = Closed /\ Offers(c)
    /\ panel' = [change |-> c, row |-> Shown(c)]
    /\ UNCHANGED <<sessionVars, route, from, cache, fetch, flights, server, edits, history>>

Close ==
    /\ panel # Closed /\ panel' = Closed
    /\ UNCHANGED <<sessionVars, route, from, cache, fetch, flights, server, edits, history>>

Confirm ==
    /\ panel # Closed /\ ~Disabled(panel.change)
    /\ Begin(panel.change, panel.row)
    /\ panel' = IF panel.change \in Drawers THEN panel ELSE Closed
    /\ UNCHANGED <<sessionVars, route, from, cache, fetch, server, edits, history>>

Click(c) ==
    /\ c \notin Panels /\ panel = Closed /\ Offers(c)
    /\ Begin(c, Shown(c))
    /\ UNCHANGED <<sessionVars, pageVars, cache, fetch, server, edits, history>>

Without(i) == [j \in 1..(Len(flights) - 1) |-> flights[IF j < i THEN j ELSE j + 1]]

\* handleMutationError: a 401 that is known to be one is passed over.
Fail(i, status, coded) ==
    /\ flights' = Without(i)
    /\ ignored' = (ignored \/ (status = 401 /\ coded))
    /\ UNCHANGED <<server, edits, undone>>

\* Mutant: the row of the page is sent back.
ReadNothing(f) == f.row
\* toggleStoryStatus reads the story before it writes it; what it writes as its
\* status is what the click asked for.
ReadStory(f) == [server["story"] EXCEPT !.on = f.row.on]

Read(i, status) ==
    /\ flights[i].at = "read" /\ Answer(getStory, flights[i].session, status)
    /\ IF Good(status)
       THEN /\ flights' = [flights EXCEPT ![i].at = "write", ![i].row = ReadStory(flights[i])]
            /\ UNCHANGED <<server, edits, history>>
       ELSE Fail(i, status, TRUE)
    /\ UNCHANGED <<sessionVars, pageVars, cache, fetch>>

\* What an accepted change makes of the rows.
Off(t) == [server EXCEPT ![t].on = FALSE]
Accept(f) ==
    CASE f.change = "saveCity" ->
            /\ edits < MaxEdits /\ edits' = edits + 1
            /\ server' = [server EXCEPT !["city"] = [edit |-> edits + 1, on |-> f.row.on]]
      [] f.change \in Toggles -> server' = [server EXCEPT ![Thing(f.change)] = f.row] /\ UNCHANGED edits
      [] f.change = "restoreCity" -> server' = [server EXCEPT !["city"].on = TRUE] /\ UNCHANGED edits
      [] f.change = "disableStory" ->
            server' = [Off("report") EXCEPT !["story"].on = FALSE] /\ UNCHANGED edits
      [] f.change \in Offs \ {"disableStory"} -> server' = Off(Thing(f.change)) /\ UNCHANGED edits
      [] OTHER -> UNCHANGED <<server, edits>>

\* The server's answer; an answer that is lost may be that to an accepted change.
Serve(i, status) ==
    /\ flights[i].at \in {"write", "sent"}
    /\ Answer(Changes[flights[i].change].operation, flights[i].session, status)
    /\ IF Good(status)
       THEN /\ Accept(flights[i])
            /\ \/ flights[i].at = "write" /\ flights' = [flights EXCEPT ![i].at = "done"]
               \/ flights' = Without(i)
            /\ undone' = (undone \/ server'["story"].edit < server["story"].edit)
            /\ UNCHANGED ignored
       ELSE Fail(i, status, flights[i].at = "write" /\ Changes[flights[i].change].coded)
    /\ UNCHANGED <<sessionVars, pageVars, cache, fetch>>

\* onSuccess of the click closes the drawer, whichever row it shows by now.
Succeed(i) ==
    /\ flights[i].at = "done" /\ flights' = Without(i)
    /\ panel' = IF flights[i].change \in Drawers /\ Latest(i) /\ panel.change \in Drawers
                THEN Closed ELSE panel
    /\ UNCHANGED <<sessionVars, route, from, cache, fetch, server, edits, history>>

\* Another admin edits a row.
OtherAdmin(t) ==
    /\ edits < MaxEdits /\ edits' = edits + 1
    /\ server' = [server EXCEPT ![t].edit = edits + 1]
    /\ UNCHANGED <<sessionVars, pageVars, cache, fetch, flights, history>>

-----------------------------------------------------------------------------
Init ==
    /\ epoch = 0 /\ stored \in [user : Admins \cup {Nobody}, epoch : {0}]
    /\ store = NoSession /\ hydrated = FALSE
    /\ route \in Pages /\ from = "dashboard" /\ panel = Closed
    /\ cache = None /\ fetch = None /\ flights = <<>>
    /\ server = [t \in Things |-> [edit |-> 0, on |-> TRUE]] /\ edits = 0
    /\ undone = FALSE /\ ignored = FALSE

Statuses == {0, 200, 201, 400, 401, 404}      \* one of each kind that matters

Next ==
    \/ HydrateFromStorage \/ Redirect \/ handleLogout \/ Expire
    \/ \E a \in Admins : LogIn(a)
    \/ \E s \in Sessions : OtherTab(s)
    \/ \E page \in Pages \cup {"login"} : Reload(page) \/ Visit(page)
    \/ \E q \in Looks : Fetch(q) \/ Collect(q)
                                \/ \E status \in Statuses : FetchEnds(q, status)
    \/ \E c \in Uses : Open(c) \/ Click(c)
    \/ Close \/ Confirm
    \/ \E i \in DOMAIN flights : \/ Succeed(i)
                                 \/ \E status \in Statuses : Read(i, status) \/ Serve(i, status)
    \/ \E t \in Things : OtherAdmin(t)

Spec == Init /\ [][Next]_vars

-----------------------------------------------------------------------------
TypeOK ==
    /\ epoch \in 0..MaxEpochs /\ {stored, store} \subseteq Sessions
    /\ {hydrated, undone, ignored} \subseteq BOOLEAN
    /\ route \in Pages \cup {"login"} /\ from \in Pages
    /\ panel.change \in Panels \cup {"none"} /\ panel.row \in Rows
    /\ DOMAIN cache \subseteq DOMAIN Queries /\ DOMAIN fetch \subseteq DOMAIN Queries
    /\ server \in [Things -> Rows] /\ edits \in 0..MaxEdits
    /\ \A i \in DOMAIN flights :
          /\ flights[i].change \in DOMAIN Changes /\ flights[i].at \in {"read", "write", "sent", "done"}
          /\ flights[i].row \in Rows /\ flights[i].here \in BOOLEAN

\* What an admin sees was fetched for him: after a logout, a login of another
\* admin or answers that come late nothing of the previous session is left.
CacheOfUser == \A q \in DOMAIN cache : cache[q].who = store.user

\* The site's state is well formed and its cache is the signed-in admin's.
SiteSound == TypeOK /\ CacheOfUser

\* The switch of a story never undoes what others had edited before it was used,
\* however old the story on the page is.
StoryEditsKept ==
    [][~undone /\ server'["story"].edit < server["story"].edit
         => \E i \in DOMAIN flights : /\ flights[i].change = "toggleStory"
                                      /\ flights[i].clicked < server["story"].edit]_vars

\* "401s are handled by the auth refresh flow": the session of a change that
\* failed with 401, and of which nothing is said, is renewed or ended.
LeftToRefresh == ignored => ~SignedIn \/ Valid(store)
=============================================================================
