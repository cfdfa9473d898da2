----------------------------- MODULE AdminProofs -----------------------------
(***************************************************************************)
(* Proofs about the admin site: its session with what was fetched under it *)
(* and the changes made on its pages, and the tables its pages show.       *)
(***************************************************************************)
EXTENDS AdminSite, CursorTable, TLAPS, FiniteSetTheorems, WellFoundedInduction, SequenceTheorems

-----------------------------------------------------------------------------
(***************************************************************************)
(* The site.  A tab that is not signed in, or is on its way to be, has     *)
(* fetched nothing, so that the session can only change when there is      *)
(* nothing of another one; and a fetch carries the session it began with.  *)
(***************************************************************************)
Flight == [change : DOMAIN Changes, session : Sessions, at : {"read", "write", "sent", "done"},
           here : BOOLEAN, row : Rows, clicked : 0..MaxEdits]

SessionType == /\ epoch \in 0..MaxEpochs /\ stored \in Sessions /\ store \in Sessions
               /\ hydrated \in BOOLEAN /\ undone \in BOOLEAN /\ ignored \in BOOLEAN

PageType == /\ route \in Pages \cup {"login"} /\ from \in Pages /\ from # "login"
            /\ panel \in {Closed} \cup [change : Panels, row : Rows]

ServerType == server \in [Things -> Rows] /\ edits \in 0..MaxEdits

FlightType == flights \in Seq(Flight)

\* What was fetched, and is being fetched, belongs to the session.
Fetched ==
    /\ DOMAIN cache \subseteq DOMAIN Queries /\ DOMAIN fetch \subseteq DOMAIN Queries
    /\ \A q \in DOMAIN cache : cache[q].row \in Rows /\ cache[q].who = store.user
    /\ \A q \in DOMAIN fetch : fetch[q].user = store.user

\* Without a session there is nothing.
NothingUnsigned ==
    route = "login" \/ ~hydrated \/ ~SignedIn => DOMAIN cache = {} /\ DOMAIN fetch = {}

SiteInv == SessionType /\ PageType /\ ServerType /\ FlightType /\ Fetched /\ NothingUnsigned

-----------------------------------------------------------------------------
\* The tables of queries and changes.
LEMMA Parts ==
  /\ \A q \in DOMAIN Queries : Queries[q].thing \in Things
  /\ \A c \in DOMAIN Changes : Changes[c].query \in DOMAIN Queries /\ Thing(c) \in Things
  /\ Panels \subseteq DOMAIN Changes /\ Toggles \subseteq DOMAIN Changes
  /\ \A c \in Toggles : Thing(c) = "story" => c = "toggleStory"
  /\ Thing("toggleStory") = "story"
<1>1. \A q \in DOMAIN Queries : Queries[q].thing \in Things
  BY DEF Queries, Query, Things
<1>2. \A c \in DOMAIN Changes : Changes[c].query \in DOMAIN Queries
  BY DEF Changes, Change, Queries
<1>3. Panels \subseteq DOMAIN Changes /\ Toggles \subseteq DOMAIN Changes
  BY DEF Panels, Toggles, Changes
<1>4. /\ Changes.toggleCity.query = "cities" /\ Changes.togglePOI.query = "poi"
      /\ Changes.toggleStory.query = "stories"
  BY DEF Changes, Change
<1>5. Queries.cities.thing = "city" /\ Queries.poi.thing = "point" /\ Queries.stories.thing = "story"
  BY DEF Queries, Query
<1>6. Thing("toggleCity") = "city" /\ Thing("togglePOI") = "point" /\ Thing("toggleStory") = "story"
  BY <1>4, <1>5 DEF Thing
<1>7. QED
  BY <1>1, <1>2, <1>3, <1>6 DEF Toggles, Thing

\* The bounds, and what needs no more than they do.
LEMMA SmallTypes ==
  /\ MaxEpochs \in Nat /\ MaxEdits \in Nat
  /\ NoSession \in Sessions /\ NoRow \in Rows /\ DOMAIN None = {}
  /\ \A a \in Admins \cup {Nobody}, e \in 0..MaxEpochs : [user |-> a, epoch |-> e] \in Sessions
  /\ \A s \in Sessions : s.user \in Admins \cup {Nobody} /\ s.epoch \in 0..MaxEpochs
  /\ \A e \in 0..MaxEdits, on \in BOOLEAN : [edit |-> e, on |-> on] \in Rows
  /\ \A r \in Rows : r.edit \in 0..MaxEdits /\ r.on \in BOOLEAN /\ r = [edit |-> r.edit, on |-> r.on]
BY BoundAssumption DEF NoSession, Sessions, NoRow, Rows, None, Nobody

LEMMA SiteBegins == Init => SiteInv
<1> SUFFICES ASSUME Init PROVE SiteInv
  OBVIOUS
<1>1. SessionType
  <2>1. 0 \in 0..MaxEpochs
    BY SmallTypes
  <2>2. [user : Admins \cup {Nobody}, epoch : {0}] \subseteq Sessions
    BY <2>1 DEF Sessions
  <2>3. QED
    BY <2>1, <2>2, SmallTypes DEF Init, SessionType
<1>2. PageType
  BY SmallTypes, PartAssumption DEF Init, PageType, Closed, Panels
<1>3. ServerType
  <2>1. [edit |-> 0, on |-> TRUE] \in Rows /\ 0 \in 0..MaxEdits
    BY SmallTypes DEF Rows
  <2>2. QED
    BY <2>1 DEF Init, ServerType
<1>4. FlightType /\ Fetched /\ NothingUnsigned
  BY SmallTypes DEF Init, FlightType, Fetched, NothingUnsigned
<1>5. QED
  BY <1>1, <1>2, <1>3, <1>4 DEF SiteInv

-----------------------------------------------------------------------------
\* A flight is changed in its place, or it goes; another one comes.
LEMMA FlightKept ==
  ASSUME FlightType, NEW i \in DOMAIN flights
  PROVE  /\ flights[i] \in Flight
         /\ \A at \in {"read", "write", "sent", "done"} : [flights EXCEPT ![i].at = at] \in Seq(Flight)
         /\ \A row \in Rows : [flights EXCEPT ![i].at = "write", ![i].row = row] \in Seq(Flight)
         /\ Without(i) \in Seq(Flight)
<1>1. flights[i] \in Flight
  BY DEF FlightType
<1>2. ASSUME NEW at \in {"read", "write", "sent", "done"}
      PROVE  [flights EXCEPT ![i].at = at] \in Seq(Flight)
  <2>1. [flights[i] EXCEPT !.at = at] \in Flight
    BY <1>1 DEF Flight
  <2>2. QED
    BY <2>1 DEF FlightType
<1>3. ASSUME NEW row \in Rows
      PROVE  [flights EXCEPT ![i].at = "write", ![i].row = row] \in Seq(Flight)
  <2>1. [[flights[i] EXCEPT !.at = "write"] EXCEPT !.row = row] \in Flight
    BY <1>1 DEF Flight
  <2>2. [flights EXCEPT ![i].at = "write", ![i].row = row]
          = [j \in DOMAIN flights |-> IF j = i THEN [[flights[i] EXCEPT !.at = "write"] EXCEPT !.row = row]
                                      ELSE flights[j]]
    BY DEF FlightType
  <2>3. QED
    BY <2>1, <2>2 DEF FlightType
<1>4. Without(i) \in Seq(Flight)
  <2>1. Len(flights) - 1 \in Nat
    BY DEF FlightType
  <2>2. \A j \in 1..(Len(flights) - 1) : flights[IF j < i THEN j ELSE j + 1] \in Flight
    BY <2>1 DEF FlightType
  <2>3. QED
    BY <2>1, <2>2 DEF Without
<1>5. QED
  BY <1>1, <1>2, <1>3, <1>4

LEMMA FlightsStay ==
  ASSUME FlightType
  PROVE  /\ [i \in DOMAIN flights |-> [flights[i] EXCEPT !.here = FALSE]] \in Seq(Flight)
         /\ [i \in DOMAIN flights |-> [flights[i] EXCEPT !.here = FALSE,
                !.at = IF @ = "write" THEN "sent" ELSE "done"]] \in Seq(Flight)
<1>1. \A i \in DOMAIN flights : flights[i] \in Flight
  BY DEF FlightType
<1>2. \A i \in DOMAIN flights : [flights[i] EXCEPT !.here = FALSE] \in Flight
  BY <1>1 DEF Flight
<1>3. \A i \in DOMAIN flights : [flights[i] EXCEPT !.here = FALSE,
                                    !.at = IF @ = "write" THEN "sent" ELSE "done"] \in Flight
  BY <1>1 DEF Flight
<1> DEFINE gone(f) == [f EXCEPT !.here = FALSE]
           left(f) == [f EXCEPT !.here = FALSE, !.at = IF @ = "write" THEN "sent" ELSE "done"]
<1> HIDE DEF gone, left
<1>4. /\ [i \in DOMAIN flights |-> gone(flights[i])] \in Seq(Flight)
      /\ [i \in DOMAIN flights |-> left(flights[i])] \in Seq(Flight)
  <2>1. \A i \in DOMAIN flights : gone(flights[i]) \in Flight /\ left(flights[i]) \in Flight
    BY <1>2, <1>3 DEF gone, left
  <2>2. QED
    BY <2>1 DEF FlightType
<1>5. QED
  BY <1>4 DEF gone, left

LEMMA FlightBegins ==
  ASSUME FlightType, SessionType, ServerType, NEW c \in DOMAIN Changes, NEW row \in Rows, Begin(c, row)
  PROVE  flights' \in Seq(Flight)
<1> DEFINE f == [change |-> c, session |-> store, at |-> IF c = "toggleStory" THEN "read" ELSE "write",
                 here |-> TRUE, row |-> IF c \in Toggles THEN [row EXCEPT !.on = ~@] ELSE row,
                 clicked |-> edits]
<1>1. [row EXCEPT !.on = ~@] \in Rows
  BY DEF Rows
<1>2. f \in Flight
  BY <1>1 DEF Flight, SessionType, ServerType
<1>3. flights' = Append(flights, f)
  BY DEF Begin
<1> HIDE DEF f
<1>4. QED
  BY <1>2, <1>3 DEF FlightType

\* What a change makes of the rows.
LEMMA WhatIsAccepted ==
  ASSUME NEW f, Accept(f)
  PROVE  /\ f.change = "saveCity" =>
              /\ edits < MaxEdits /\ edits' = edits + 1
              /\ server' = [server EXCEPT !["city"] = [edit |-> edits + 1, on |-> f.row.on]]
         /\ f.change \in Toggles =>
              edits' = edits /\ server' = [server EXCEPT ![Thing(f.change)] = f.row]
         /\ f.change = "restoreCity" => edits' = edits /\ server' = [server EXCEPT !["city"].on = TRUE]
         /\ f.change = "disableStory" =>
              edits' = edits /\ server' = [Off("report") EXCEPT !["story"].on = FALSE]
         /\ f.change \in Offs \ {"disableStory"} => edits' = edits /\ server' = Off(Thing(f.change))
         /\ f.change \notin {"saveCity", "restoreCity", "disableStory"} \cup Toggles \cup Offs =>
              edits' = edits /\ server' = server
<1>1. CASE f.change = "saveCity"
  <2>1. f.change \notin Toggles /\ f.change \notin Offs /\ f.change \notin {"restoreCity", "disableStory"}
    BY <1>1 DEF Toggles, Offs
  <2>2. QED
    BY <1>1, <2>1 DEF Accept
<1>2. CASE f.change \in Toggles
  <2>1. f.change \notin Offs /\ f.change \notin {"saveCity", "restoreCity", "disableStory"}
    BY <1>2 DEF Toggles, Offs
  <2>2. QED
    BY <1>2, <2>1 DEF Accept
<1>3. CASE f.change = "restoreCity"
  <2>1. f.change \notin Toggles /\ f.change \notin Offs /\ f.change \notin {"saveCity", "disableStory"}
    BY <1>3 DEF Toggles, Offs
  <2>2. QED
    BY <1>3, <2>1 DEF Accept
<1>4. CASE f.change = "disableStory"
  <2>1. f.change \notin Toggles /\ f.change \notin {"saveCity", "restoreCity"}
    BY <1>4 DEF Toggles
  <2>2. QED
    BY <1>4, <2>1 DEF Accept
<1>5. CASE f.change \in Offs \ {"disableStory"}
  <2>1. f.change \notin Toggles /\ f.change \notin {"saveCity", "restoreCity", "disableStory"}
    BY <1>5 DEF Toggles, Offs
  <2>2. QED
    BY <1>5, <2>1 DEF Accept
<1>6. CASE f.change \notin {"saveCity", "restoreCity", "disableStory"} \cup Toggles \cup Offs
  BY <1>6 DEF Accept
<1>7. QED
  BY <1>1, <1>2, <1>3, <1>4, <1>5, <1>6

LEMMA Accepted ==
  ASSUME ServerType, NEW f \in Flight, Accept(f)
  PROVE  ServerType'
<1>1. f.change \in DOMAIN Changes /\ f.row \in Rows /\ f.row.on \in BOOLEAN
  BY DEF Flight, Rows
<1>2. CASE f.change = "saveCity"
  <2>1. edits + 1 \in 0..MaxEdits /\ [edit |-> edits + 1, on |-> f.row.on] \in Rows
    BY <1>1, <1>2, WhatIsAccepted, SmallTypes DEF ServerType
  <2>2. QED
    BY <1>2, <2>1, WhatIsAccepted DEF ServerType
<1>3. CASE f.change \in Toggles
  BY <1>1, <1>3, WhatIsAccepted DEF ServerType
<1>4. ASSUME NEW t \in Things, NEW on \in BOOLEAN PROVE [server[t] EXCEPT !.on = on] \in Rows
  BY DEF ServerType, Rows
<1>5. \A t \in Things : [server EXCEPT ![t].on = FALSE] \in [Things -> Rows]
  BY <1>4 DEF ServerType
<1>6. CASE f.change = "restoreCity"
  <2>1. edits' = edits /\ server' = [server EXCEPT !["city"] = [@ EXCEPT !.on = TRUE]]
    BY <1>6, WhatIsAccepted
  <2>2. "city" \in Things /\ [server["city"] EXCEPT !.on = TRUE] \in Rows
    BY <1>4 DEF Things
  <2>3. QED
    BY <2>1, <2>2 DEF ServerType
<1>7. CASE f.change = "disableStory"
  <2>1. /\ edits' = edits
        /\ server' = [[server EXCEPT !["report"].on = FALSE] EXCEPT !["story"].on = FALSE]
    BY <1>7, WhatIsAccepted DEF Off
  <2>2. "story" \in Things /\ "report" \in Things
    BY DEF Things
  <2>3. server' = [t \in Things |-> IF t \in {"story", "report"} THEN [server[t] EXCEPT !.on = FALSE]
                                    ELSE server[t]]
    BY <2>1, <2>2 DEF ServerType
  <2>4. QED
    BY <2>1, <2>3, <1>4 DEF ServerType
<1>8. CASE f.change \in Offs \ {"disableStory"}
  <2>1. edits' = edits /\ server' = [server EXCEPT ![Thing(f.change)].on = FALSE]
    BY <1>8, WhatIsAccepted DEF Off
  <2>2. Thing(f.change) \in Things
    BY <1>1, Parts
  <2>3. QED
    BY <1>5, <2>1, <2>2 DEF ServerType
<1>9. CASE f.change \notin {"saveCity", "restoreCity", "disableStory"} \cup Toggles \cup Offs
  BY <1>9, WhatIsAccepted DEF ServerType
<1>10. QED
  BY <1>2, <1>3, <1>6, <1>7, <1>8, <1>9

\* A failed change leaves everything but the flights, and may be passed over.
LEMMA Failed ==
  ASSUME SiteInv, NEW i \in DOMAIN flights, NEW status, NEW coded \in BOOLEAN, Fail(i, status, coded)
  PROVE  FlightType' /\ ServerType' /\ undone' = undone /\ ignored' \in BOOLEAN
<1>1. /\ flights' = Without(i) /\ UNCHANGED <<server, edits, undone>>
      /\ ignored' = (ignored \/ (status = 401 /\ coded))
  BY DEF Fail
<1>2. FlightType'
  BY <1>1, FlightKept DEF SiteInv, FlightType
<1>3. ServerType'
  BY <1>1 DEF SiteInv, ServerType
<1>4. QED
  BY <1>1, <1>2, <1>3

-----------------------------------------------------------------------------
\* What of the state the mutations' steps leave alone.
LEMMA SiteReads ==
  ASSUME SiteInv, NEW i \in DOMAIN flights, NEW status, Read(i, status)
  PROVE  SiteInv'
<1>1. /\ UNCHANGED <<sessionVars, pageVars, cache, fetch>>
      /\ flights[i] \in Flight
  BY FlightKept DEF Read, SiteInv
<1>2. PageType' /\ Fetched' /\ NothingUnsigned'
  BY <1>1 DEF SiteInv, sessionVars, pageVars, PageType, Fetched, NothingUnsigned, SignedIn
<1>3. CASE Good(status)
  <2>1. /\ flights' = [flights EXCEPT ![i].at = "write", ![i].row = ReadStory(flights[i])]
        /\ UNCHANGED <<server, edits, history>>
    BY <1>3 DEF Read
  <2>2. ReadStory(flights[i]) \in Rows
    <3>1. server["story"] \in Rows /\ flights[i].row.on \in BOOLEAN
      BY <1>1 DEF SiteInv, ServerType, Things, Flight, Rows
    <3>2. QED
      BY <3>1 DEF ReadStory, Rows
  <2>3. FlightType'
    BY <2>1, <2>2, FlightKept DEF SiteInv, FlightType
  <2>4. ServerType' /\ SessionType'
    BY <1>1, <2>1 DEF SiteInv, ServerType, SessionType, sessionVars, history
  <2>5. QED
    BY <1>2, <2>3, <2>4 DEF SiteInv
<1>4. CASE ~Good(status)
  <2>1. Fail(i, status, TRUE)
    BY <1>4 DEF Read
  <2>2. FlightType' /\ ServerType' /\ undone' = undone /\ ignored' \in BOOLEAN
    BY <2>1, Failed
  <2>3. SessionType'
    BY <1>1, <2>2 DEF SiteInv, SessionType, sessionVars
  <2>4. QED
    BY <1>2, <2>2, <2>3 DEF SiteInv
<1>5. QED
  BY <1>3, <1>4

LEMMA SiteServes ==
  ASSUME SiteInv, NEW i \in DOMAIN flights, NEW status, Serve(i, status)
  PROVE  SiteInv'
<1>1. /\ UNCHANGED <<sessionVars, pageVars, cache, fetch>>
      /\ flights[i] \in Flight
  BY FlightKept DEF Serve, SiteInv
<1>2. PageType' /\ Fetched' /\ NothingUnsigned'
  BY <1>1 DEF SiteInv, sessionVars, pageVars, PageType, Fetched, NothingUnsigned, SignedIn
<1>3. CASE Good(status)
  <2>1. /\ Accept(flights[i])
        /\ flights' = [flights EXCEPT ![i].at = "done"] \/ flights' = Without(i)
        /\ undone' \in BOOLEAN /\ ignored' = ignored
    BY <1>3 DEF Serve
  <2>2. ServerType'
    BY <1>1, <2>1, Accepted DEF SiteInv
  <2>3. FlightType'
    BY <2>1, FlightKept DEF SiteInv, FlightType
  <2>4. SessionType'
    BY <1>1, <2>1 DEF SiteInv, SessionType, sessionVars
  <2>5. QED
    BY <1>2, <2>2, <2>3, <2>4 DEF SiteInv
<1>4. CASE ~Good(status)
  <2>1. PICK coded \in BOOLEAN : Fail(i, status, coded)
    <3> DEFINE known == flights[i].at = "write" /\ Changes[flights[i].change].coded
    <3>1. Fail(i, status, known)
      BY <1>4 DEF Serve
    <3>2. known \in BOOLEAN
      OBVIOUS
    <3> HIDE DEF known
    <3>3. QED
      BY <3>1, <3>2
  <2>2. FlightType' /\ ServerType' /\ undone' = undone /\ ignored' \in BOOLEAN
    BY <2>1, Failed
  <2>3. SessionType'
    BY <1>1, <2>2 DEF SiteInv, SessionType, sessionVars
  <2>4. QED
    BY <1>2, <2>2, <2>3 DEF SiteInv
<1>5. QED
  BY <1>3, <1>4

\* What the admin does to the session, the pages and what is fetched.
LEMMA SiteSteps ==
  ASSUME SiteInv, [Next]_vars,
         ~\E i \in DOMAIN flights, status \in Statuses : Read(i, status) \/ Serve(i, status)
  PROVE  SiteInv'
<1> USE DEF SiteInv
<1>1. CASE UNCHANGED vars
  BY <1>1 DEF vars, sessionVars, pageVars, history, SessionType, PageType, ServerType, FlightType,
              Fetched, NothingUnsigned, SignedIn
<1>2. CASE HydrateFromStorage
  BY <1>2, SmallTypes DEF HydrateFromStorage, pageVars, history, SessionType, PageType, ServerType,
              FlightType, Fetched, NothingUnsigned, SignedIn
<1>3. CASE Redirect
  <2>1. FlightType'
    BY <1>3, FlightsStay DEF Redirect, Leave, FlightType
  <2>2. PageType'
    BY <1>3, SmallTypes DEF Redirect, Leave, PageType, Closed
  <2>3. QED
    BY <1>3, <2>1, <2>2 DEF Redirect, Leave, sessionVars, history, SessionType, ServerType,
              Fetched, NothingUnsigned, SignedIn
<1>4. CASE \E a \in Admins : LogIn(a)
  <2>1. PICK a \in Admins : LogIn(a)
    BY <1>4
  <2>2. FlightType'
    BY <2>1, FlightsStay DEF LogIn, Leave, FlightType
  <2>3. PageType'
    BY <2>1, SmallTypes DEF LogIn, Leave, PageType, Closed
  <2>4. stored' = [user |-> a, epoch |-> epoch] /\ store' = stored'
    BY <2>1 DEF LogIn
  <2>5. SessionType'
    BY <2>1, <2>4, SmallTypes DEF LogIn, history, SessionType
  <2>6. QED
    BY <2>1, <2>2, <2>3, <2>5 DEF LogIn, Leave, history, ServerType, Fetched, NothingUnsigned
<1>5. CASE handleLogout
  <2>1. FlightType'
    BY <1>5, FlightsStay DEF handleLogout, Leave, FlightType
  <2>2. PageType'
    BY <1>5, SmallTypes, PartAssumption DEF handleLogout, Leave, PageType, Closed
  <2>3. QED
    BY <1>5, <2>1, <2>2, SmallTypes DEF handleLogout, Leave, ResetAuth, ClearCache, history,
              SessionType, ServerType, Fetched, NothingUnsigned
<1>6. CASE \E s \in Sessions : OtherTab(s)
  BY <1>6 DEF OtherTab, pageVars, history, SessionType, PageType, ServerType, FlightType,
              Fetched, NothingUnsigned, SignedIn
<1>7. CASE Expire
  BY <1>7, SmallTypes DEF Expire, pageVars, history, SessionType, PageType, ServerType, FlightType,
              Fetched, NothingUnsigned, SignedIn
<1>8. CASE \E page \in Pages \cup {"login"} : Reload(page)
  <2>1. PICK page \in Pages \cup {"login"} : Reload(page)
    BY <1>8
  <2>2. FlightType'
    BY <2>1, FlightsStay DEF Reload, FlightType
  <2>3. PageType'
    BY <2>1, SmallTypes, PartAssumption DEF Reload, PageType, Closed
  <2>4. QED
    BY <2>1, <2>2, <2>3, SmallTypes DEF Reload, history, SessionType, ServerType, Fetched, NothingUnsigned
<1>9. CASE \E page \in Pages \cup {"login"} : Visit(page)
  <2>1. PICK page \in Pages \cup {"login"} : Visit(page)
    BY <1>9
  <2>2. FlightType'
    BY <2>1, FlightsStay DEF Visit, Leave, FlightType
  <2>3. PageType'
    BY <2>1, SmallTypes DEF Visit, Leave, PageType, Closed
  <2>4. page # "login"
    BY <2>1 DEF Visit, Links, Menu
  <2>5. QED
    BY <2>1, <2>2, <2>3, <2>4 DEF Visit, Leave, sessionVars, history, SessionType, ServerType, Fetched,
              NothingUnsigned, SignedIn
<1>10. CASE \E q \in Looks : Fetch(q)
  <2>1. PICK q \in Looks : Fetch(q)
    BY <1>10
  <2>2. q \in DOMAIN Queries
    BY PartAssumption
  <2>3. QED
    BY <2>1, <2>2 DEF Fetch, Add, sessionVars, pageVars, history, SessionType, PageType, ServerType,
              FlightType, Fetched, NothingUnsigned, SignedIn
<1>11. CASE \E q \in Looks : Collect(q)
  BY <1>11 DEF Collect, Drop, sessionVars, pageVars, history, SessionType, PageType, ServerType,
              FlightType, Fetched, NothingUnsigned, SignedIn
<1>12. CASE \E q \in Looks, status \in Statuses : FetchEnds(q, status)
  <2>1. PICK q \in Looks, status \in Statuses : FetchEnds(q, status)
    BY <1>12
  <2>2. q \in DOMAIN Queries /\ q \in DOMAIN fetch
    BY <2>1, PartAssumption DEF FetchEnds
  <2>3. server[Queries[q].thing] \in Rows
    BY <2>2, Parts DEF ServerType
  <2>4. fetch' = Drop(fetch, {q})
    BY <2>1 DEF FetchEnds
  <2>5. cache' = cache \/ cache' = Add(cache, q, Entry(fetch[q].user, server[Queries[q].thing]))
    BY <2>1 DEF FetchEnds
  <2>6. UNCHANGED <<sessionVars, pageVars, flights, server, edits, history>>
    BY <2>1 DEF FetchEnds
  <2>7. Fetched' /\ NothingUnsigned'
    BY <2>2, <2>3, <2>4, <2>5, <2>6
       DEF Drop, Add, Entry, sessionVars, pageVars, Fetched, NothingUnsigned, SignedIn
  <2>8. QED
    BY <2>6, <2>7 DEF sessionVars, pageVars, history, SessionType, PageType, ServerType, FlightType
<1>13. ASSUME NEW c \in DOMAIN Changes, Offers(c) PROVE Shown(c) \in Rows
  BY <1>13 DEF Offers, Shown, Fetched
<1>14. CASE \E c \in Uses : Open(c)
  <2>1. PICK c \in Uses : Open(c)
    BY <1>14
  <2>2. c \in Panels /\ Shown(c) \in Rows
    BY <2>1, <1>13, PartAssumption DEF Open
  <2>3. panel' = [change |-> c, row |-> Shown(c)]
    BY <2>1 DEF Open
  <2>4. PageType'
    BY <2>1, <2>2, <2>3 DEF Open, PageType
  <2>5. QED
    BY <2>1, <2>4 DEF Open, sessionVars, history, SessionType, ServerType,
              FlightType, Fetched, NothingUnsigned, SignedIn
<1>15. CASE \E c \in Uses : Click(c)
  <2>1. PICK c \in Uses : Click(c)
    BY <1>15
  <2>2. c \in DOMAIN Changes /\ Shown(c) \in Rows /\ Begin(c, Shown(c))
    BY <2>1, <1>13, PartAssumption DEF Click
  <2>3. FlightType'
    BY <2>2, FlightBegins DEF FlightType
  <2>4. QED
    BY <2>1, <2>3 DEF Click, sessionVars, pageVars, history, SessionType, PageType, ServerType,
              Fetched, NothingUnsigned, SignedIn
<1>16. CASE Close
  <2>1. PageType'
    BY <1>16, SmallTypes DEF Close, PageType, Closed
  <2>2. QED
    BY <1>16, <2>1 DEF Close, sessionVars, history, SessionType, ServerType, FlightType, Fetched,
              NothingUnsigned, SignedIn
<1>17. CASE Confirm
  <2>1. /\ panel # Closed /\ Begin(panel.change, panel.row)
        /\ panel' \in {panel, Closed}
    BY <1>17 DEF Confirm
  <2>2. panel.row \in Rows /\ panel.change \in DOMAIN Changes
    BY <2>1, Parts DEF PageType
  <2>3. FlightType'
    BY <2>1, <2>2, FlightBegins DEF FlightType
  <2>4. PageType'
    BY <1>17, <2>1 DEF Confirm, PageType
  <2>5. QED
    BY <1>17, <2>3, <2>4 DEF Confirm, sessionVars, history, SessionType, ServerType, Fetched,
              NothingUnsigned, SignedIn
<1>18. CASE \E i \in DOMAIN flights : Succeed(i)
  <2>1. PICK i \in DOMAIN flights : Succeed(i)
    BY <1>18
  <2>2. flights' = Without(i) /\ panel' \in {panel, Closed}
    BY <2>1 DEF Succeed
  <2>3. FlightType'
    BY <2>2, FlightKept DEF FlightType
  <2>4. PageType'
    BY <2>1, <2>2 DEF Succeed, PageType
  <2>5. QED
    BY <2>1, <2>3, <2>4 DEF Succeed, sessionVars, history, SessionType, ServerType, Fetched,
              NothingUnsigned, SignedIn
<1>19. CASE \E t \in Things : OtherAdmin(t)
  <2>1. PICK t \in Things : OtherAdmin(t)
    BY <1>19
  <2>2. edits' = edits + 1 /\ edits' \in 0..MaxEdits
    BY <2>1, SmallTypes DEF OtherAdmin, ServerType
  <2>3. [server[t] EXCEPT !.edit = edits + 1] \in Rows
    BY <2>2 DEF ServerType, Rows
  <2>4. server' = [server EXCEPT ![t] = [server[t] EXCEPT !.edit = edits + 1]]
    BY <2>1 DEF OtherAdmin
  <2>5. ServerType'
    BY <2>2, <2>3, <2>4 DEF ServerType
  <2>6. QED
    BY <2>1, <2>5 DEF OtherAdmin, sessionVars, pageVars, history, SessionType, PageType, FlightType,
              Fetched, NothingUnsigned, SignedIn
<1>20. QED
  BY <1>1, <1>2, <1>3, <1>4, <1>5, <1>6, <1>7, <1>8, <1>9, <1>10, <1>11, <1>12, <1>14, <1>15, <1>16,
     <1>17, <1>18, <1>19 DEF Next

LEMMA SiteStep == SiteInv /\ [Next]_vars => SiteInv'
<1> SUFFICES ASSUME SiteInv, [Next]_vars PROVE SiteInv'
  OBVIOUS
<1>1. CASE \E i \in DOMAIN flights, status \in Statuses : Read(i, status) \/ Serve(i, status)
  BY <1>1, SiteReads, SiteServes
<1>2. QED
  BY <1>1, SiteSteps

\* The site's state is well formed, and what it has fetched is the signed-in admin's:
\* after a logout, a login of another admin, another tab's login or an answer that
\* comes late, nothing that was fetched for somebody else is there.
THEOREM SiteIsSound == Spec => []SiteSound
<1>1. SiteInv => SiteSound
  <2> SUFFICES ASSUME SiteInv PROVE TypeOK /\ CacheOfUser
    BY DEF SiteSound
  <2>1. /\ panel.change \in Panels \cup {"none"} /\ panel.row \in Rows
    BY SmallTypes DEF SiteInv, PageType, Closed
  <2>2. \A i \in DOMAIN flights : flights[i] \in Flight
    BY DEF SiteInv, FlightType
  <2>3. QED
    BY <2>1, <2>2 DEF SiteInv, SessionType, PageType, ServerType, Fetched, Flight, TypeOK, CacheOfUser
<1>2. QED
  BY <1>1, SiteBegins, SiteStep, PTL DEF Spec

-----------------------------------------------------------------------------
(***************************************************************************)
(* The edits of a story.  A switch that is about to write the story has    *)
(* read it since it was clicked, so what it lacks came after the click; a  *)
(* story that has lost an edit can be read without it, and no more is said *)
(* of it.                                                                  *)
(***************************************************************************)
Writing(f) == f.change = "toggleStory" /\ f.at \in {"write", "sent"}

ReadSince(f, story, last, lost) ==
    /\ f.row.edit <= last
    /\ lost \/ f.row.edit = story \/ (f.row.edit < story /\ f.clicked < story)

StoryEdit == server["story"].edit

EditsInv ==
    /\ StoryEdit <= edits
    /\ \A i \in DOMAIN flights :
          /\ flights[i].clicked <= edits
          /\ Writing(flights[i]) => ReadSince(flights[i], StoryEdit, edits, undone)

\* A flight of the next state is one of this state, no nearer to its write, or a new one.
Follows(g) ==
    \/ /\ g.clicked = edits /\ ~Writing(g)
    \/ \E i \in DOMAIN flights : /\ g.clicked = flights[i].clicked
                                 /\ Writing(g) => Writing(flights[i]) /\ g.row = flights[i].row

FlightsFollow == \A j \in DOMAIN flights' : Follows(flights'[j])

LEMMA EditsBegin == Init => EditsInv
<1> SUFFICES ASSUME Init PROVE EditsInv
  OBVIOUS
<1>1. server["story"].edit = 0 /\ edits = 0 /\ DOMAIN flights = {}
  BY DEF Init, Things
<1>2. QED
  BY <1>1 DEF EditsInv, StoryEdit

LEMMA FlightNumbers ==
  ASSUME SiteInv
  PROVE  \A i \in DOMAIN flights : flights[i].clicked \in Nat /\ flights[i].row.edit \in Nat
<1>1. ASSUME NEW i \in DOMAIN flights PROVE flights[i].clicked \in Nat /\ flights[i].row.edit \in Nat
  <2>1. flights[i] \in Flight
    BY DEF SiteInv, FlightType
  <2>2. flights[i].clicked \in 0..MaxEdits /\ flights[i].row \in Rows
    BY <2>1 DEF Flight
  <2>3. QED
    BY <2>2, SmallTypes
<1>2. QED
  BY <1>1

\* It is enough that the flights follow while the story stays, or has lost an edit.
LEMMA EditsFollowed ==
  ASSUME SiteInv, SiteInv', EditsInv, FlightsFollow, edits' \in {edits, edits + 1},
         StoryEdit' <= edits', undone' \/ (~undone /\ StoryEdit' = StoryEdit)
  PROVE  EditsInv'
<1>1. /\ edits \in Nat /\ edits' \in Nat /\ edits <= edits'
      /\ \A i \in DOMAIN flights : flights[i].clicked \in Nat /\ flights[i].row.edit \in Nat
  BY SmallTypes, FlightNumbers DEF SiteInv, ServerType
<1>2. ASSUME NEW j \in DOMAIN flights'
      PROVE  /\ flights'[j].clicked <= edits'
             /\ Writing(flights'[j]) => ReadSince(flights'[j], StoryEdit', edits', undone')
  <2>1. CASE flights'[j].clicked = edits /\ ~Writing(flights'[j])
    BY <1>1, <2>1
  <2>2. ASSUME NEW i \in DOMAIN flights, flights'[j].clicked = flights[i].clicked,
               Writing(flights'[j]) => Writing(flights[i]) /\ flights'[j].row = flights[i].row
        PROVE  /\ flights'[j].clicked <= edits'
               /\ Writing(flights'[j]) => ReadSince(flights'[j], StoryEdit', edits', undone')
    <3>1. /\ flights[i].clicked <= edits /\ flights[i].clicked \in Nat /\ flights[i].row.edit \in Nat
          /\ Writing(flights[i]) => ReadSince(flights[i], StoryEdit, edits, undone)
      BY <1>1 DEF EditsInv
    <3>2. flights'[j].clicked <= edits'
      BY <1>1, <2>2, <3>1
    <3>3. ASSUME Writing(flights'[j])
          PROVE  ReadSince(flights'[j], StoryEdit', edits', undone')
      <4>1. ReadSince(flights[i], StoryEdit, edits, undone) /\ flights'[j].row = flights[i].row
        BY <2>2, <3>1, <3>3
      <4>2. flights'[j].row.edit <= edits'
        BY <1>1, <3>1, <4>1 DEF ReadSince
      <4>3. QED
        BY <2>2, <4>1, <4>2 DEF ReadSince
    <3>4. QED
      BY <3>2, <3>3
  <2>3. Follows(flights'[j])
    BY DEF FlightsFollow
  <2>4. QED
    BY <2>1, <2>2, <2>3 DEF Follows
<1>3. QED
  BY <1>2 DEF EditsInv, StoryEdit, Writing

LEMMA EditsUntouched ==
  ASSUME SiteInv, SiteInv', EditsInv, FlightsFollow, UNCHANGED <<server, edits, undone>>
  PROVE  EditsInv'
<1>1. edits' = edits /\ StoryEdit' = StoryEdit /\ undone' = undone /\ StoryEdit <= edits
  BY DEF EditsInv, StoryEdit
<1>2. undone \in BOOLEAN
  BY DEF SiteInv, SessionType
<1>3. QED
  BY <1>1, <1>2, EditsFollowed

\* What becomes of the flights in the steps that leave them to their answers.
LEMMA FlightsStayBehind ==
  ASSUME SiteInv
  PROVE  /\ flights' = flights => FlightsFollow
         /\ flights' = [i \in DOMAIN flights |-> [flights[i] EXCEPT !.here = FALSE]] => FlightsFollow
         /\ flights' = [i \in DOMAIN flights |-> [flights[i] EXCEPT !.here = FALSE,
                !.at = IF @ = "write" THEN "sent" ELSE "done"]] => FlightsFollow
         /\ \A i \in DOMAIN flights : flights' = Without(i) => FlightsFollow
         /\ \A i \in DOMAIN flights : flights' = [flights EXCEPT ![i].at = "done"] => FlightsFollow
<1>1. \A i \in DOMAIN flights : flights[i] \in Flight
  BY DEF SiteInv, FlightType
<1>2. ASSUME flights' = flights PROVE FlightsFollow
  BY <1>2 DEF FlightsFollow, Follows
<1>3. ASSUME flights' = [i \in DOMAIN flights |-> [flights[i] EXCEPT !.here = FALSE]]
      PROVE  FlightsFollow
  <2>1. ASSUME NEW j \in DOMAIN flights' PROVE Follows(flights'[j])
    <3>1. j \in DOMAIN flights /\ flights'[j] = [flights[j] EXCEPT !.here = FALSE]
      BY <1>3
    <3>2. QED
      BY <1>1, <3>1 DEF Follows, Writing, Flight
  <2>2. QED
    BY <2>1 DEF FlightsFollow
<1>4. ASSUME flights' = [i \in DOMAIN flights |-> [flights[i] EXCEPT !.here = FALSE,
                            !.at = IF @ = "write" THEN "sent" ELSE "done"]]
      PROVE  FlightsFollow
  <2>1. ASSUME NEW j \in DOMAIN flights' PROVE Follows(flights'[j])
    <3>1. /\ j \in DOMAIN flights
          /\ flights'[j] = [flights[j] EXCEPT !.here = FALSE,
                               !.at = IF @ = "write" THEN "sent" ELSE "done"]
      BY <1>4
    <3>2. QED
      BY <1>1, <3>1 DEF Follows, Writing, Flight
  <2>2. QED
    BY <2>1 DEF FlightsFollow
<1>5. ASSUME NEW i \in DOMAIN flights, flights' = Without(i) PROVE FlightsFollow
  <2>1. ASSUME NEW j \in DOMAIN flights' PROVE Follows(flights'[j])
    <3>1. PICK k \in DOMAIN flights : flights'[j] = flights[k]
      BY <1>5 DEF Without, SiteInv, FlightType
    <3>2. QED
      BY <3>1 DEF Follows
  <2>2. QED
    BY <2>1 DEF FlightsFollow
<1>6. ASSUME NEW i \in DOMAIN flights, flights' = [flights EXCEPT ![i].at = "done"] PROVE FlightsFollow
  <2>1. ASSUME NEW j \in DOMAIN flights' PROVE Follows(flights'[j])
    <3>1. /\ j \in DOMAIN flights
          /\ flights'[j] = IF j = i THEN [flights[j] EXCEPT !.at = "done"] ELSE flights[j]
      BY <1>6
    <3>2. QED
      BY <1>1, <3>1 DEF Follows, Writing, Flight
  <2>2. QED
    BY <2>1 DEF FlightsFollow
<1>7. QED
  BY <1>2, <1>3, <1>4, <1>5, <1>6

LEMMA FlightsBegin ==
  ASSUME SiteInv, NEW c, NEW row, Begin(c, row)
  PROVE  FlightsFollow
<1> DEFINE f == [change |-> c, session |-> store, at |-> IF c = "toggleStory" THEN "read" ELSE "write",
                 here |-> TRUE, row |-> IF c \in Toggles THEN [row EXCEPT !.on = ~@] ELSE row,
                 clicked |-> edits]
<1>1. f.clicked = edits /\ ~Writing(f)
  BY DEF Writing
<1>2. flights' = Append(flights, f)
  BY DEF Begin
<1> HIDE DEF f
<1>3. \A j \in DOMAIN flights' : flights'[j] = f \/ (j \in DOMAIN flights /\ flights'[j] = flights[j])
  BY <1>2 DEF SiteInv, FlightType
<1>4. QED
  BY <1>1, <1>3 DEF FlightsFollow, Follows

\* All steps but those of a mutation's answers and other admins' edits.
LEMMA EditsLeft ==
  ASSUME SiteInv, [Next]_vars, ~\E t \in Things : OtherAdmin(t),
         ~\E i \in DOMAIN flights, status \in Statuses : Read(i, status) \/ Serve(i, status)
  PROVE  FlightsFollow /\ UNCHANGED <<server, edits, undone>>
<1>1. CASE flights' = flights /\ UNCHANGED <<server, edits, undone>>
  BY <1>1, FlightsStayBehind
<1>2. CASE \/ UNCHANGED vars \/ HydrateFromStorage \/ Expire \/ Close
           \/ \E s \in Sessions : OtherTab(s)
           \/ \E q \in Looks : Fetch(q) \/ Collect(q) \/ \E status \in Statuses : FetchEnds(q, status)
           \/ \E c \in Uses : Open(c)
  BY <1>1, <1>2 DEF vars, history, HydrateFromStorage, Expire, Close, OtherTab, Fetch, Collect,
                    FetchEnds, Open
<1>3. CASE \/ Redirect \/ handleLogout
           \/ \E a \in Admins : LogIn(a)
           \/ \E page \in Pages \cup {"login"} : Visit(page)
  BY <1>3, FlightsStayBehind DEF Redirect, handleLogout, LogIn, Visit, Leave, history
<1>4. CASE \E page \in Pages \cup {"login"} : Reload(page)
  BY <1>4, FlightsStayBehind DEF Reload, history
<1>5. CASE \E c \in Uses : Click(c)
  BY <1>5, FlightsBegin DEF Click, history
<1>6. CASE Confirm
  BY <1>6, FlightsBegin DEF Confirm, history
<1>7. CASE \E i \in DOMAIN flights : Succeed(i)
  BY <1>7, FlightsStayBehind DEF Succeed, history
<1>8. QED
  BY <1>2, <1>3, <1>4, <1>5, <1>6, <1>7 DEF Next

\* A story that is read has everything it has.
LEMMA EditsRead ==
  ASSUME SiteInv, EditsInv, NEW i \in DOMAIN flights, NEW status, Read(i, status)
  PROVE  EditsInv' /\ server' = server
<1>1. CASE ~Good(status)
  BY <1>1, FlightsStayBehind, EditsUntouched, SiteReads DEF Read, Fail
<1>2. CASE Good(status)
  <2>1. /\ flights' = [flights EXCEPT ![i].at = "write", ![i].row = ReadStory(flights[i])]
        /\ UNCHANGED <<server, edits, undone>>
    BY <1>2 DEF Read, history
  <2>2. server["story"] \in Rows /\ flights \in Seq(Flight) /\ edits \in Nat
    BY SmallTypes DEF SiteInv, ServerType, FlightType, Things
  <2>3. ReadStory(flights[i]).edit = StoryEdit /\ StoryEdit \in Nat
    BY <2>2, SmallTypes DEF ReadStory, StoryEdit, Rows
  <2> HIDE DEF ReadStory
  <2>4. flights'[i] = [[flights[i] EXCEPT !.at = "write"] EXCEPT !.row = ReadStory(flights[i])]
    BY <2>1, <2>2
  <2>5. /\ flights'[i].clicked = flights[i].clicked /\ flights'[i].row = ReadStory(flights[i])
        /\ \A j \in DOMAIN flights \ {i} : flights'[j] = flights[j]
        /\ DOMAIN flights' = DOMAIN flights
    <3>1. flights[i] \in Flight
      BY <2>2
    <3>2. QED
      BY <2>1, <2>2, <2>4, <3>1 DEF Flight
  <2>6. ReadSince(flights'[i], StoryEdit, edits, undone)
    BY <2>3, <2>5 DEF ReadSince, EditsInv
  <2>7. ASSUME NEW j \in DOMAIN flights'
        PROVE  /\ flights'[j].clicked <= edits
               /\ Writing(flights'[j]) => ReadSince(flights'[j], StoryEdit, edits, undone)
    <3>1. CASE j = i
      BY <2>5, <2>6, <3>1 DEF EditsInv
    <3>2. CASE j # i
      BY <2>5, <3>2 DEF EditsInv
    <3>3. QED
      BY <3>1, <3>2
  <2>8. QED
    BY <2>1, <2>7 DEF EditsInv, Writing, StoryEdit
<1>3. server' = server
  BY DEF Read, Fail
<1>4. QED
  BY <1>1, <1>2, <1>3

\* What an answered change makes of the story.
LEMMA StoryAccepted ==
  ASSUME SiteInv, NEW f \in Flight, Accept(f)
  PROVE  /\ f.change # "toggleStory" => server'["story"].edit = server["story"].edit
         /\ f.change = "toggleStory" => server'["story"] = f.row
         /\ edits' \in {edits, edits + 1}
<1>1. server \in [Things -> Rows] /\ "story" \in Things /\ f.change \in DOMAIN Changes
  BY DEF SiteInv, ServerType, Things, Flight
<1>2. CASE f.change = "saveCity"
  BY <1>1, <1>2, WhatIsAccepted
<1>3. CASE f.change \in Toggles
  BY <1>1, <1>3, WhatIsAccepted, Parts
<1>4. ASSUME NEW t \in Things, NEW on, NEW s \in [Things -> Rows]
      PROVE  [s EXCEPT ![t].on = on]["story"].edit = s["story"].edit
  BY <1>1 DEF Rows
<1>5. CASE f.change = "restoreCity"
  BY <1>1, <1>4, <1>5, WhatIsAccepted DEF Things
<1>6. CASE f.change = "disableStory"
  <2>1. /\ edits' = edits
        /\ server' = [[server EXCEPT !["report"].on = FALSE] EXCEPT !["story"].on = FALSE]
    BY <1>6, WhatIsAccepted DEF Off
  <2>2. QED
    BY <1>1, <1>6, <2>1 DEF Things, Rows
<1>7. CASE f.change \in Offs \ {"disableStory"}
  <2>1. edits' = edits /\ server' = [server EXCEPT ![Thing(f.change)].on = FALSE]
    BY <1>7, WhatIsAccepted DEF Off
  <2>2. Thing(f.change) \in Things /\ f.change # "toggleStory"
    BY <1>1, <1>7, Parts DEF Offs
  <2>3. QED
    BY <1>1, <1>4, <2>1, <2>2
<1>8. CASE f.change \notin {"saveCity", "restoreCity", "disableStory"} \cup Toggles \cup Offs
  BY <1>8, WhatIsAccepted DEF Toggles
<1>9. QED
  BY <1>2, <1>3, <1>5, <1>6, <1>7, <1>8

\* The server takes a change: the story loses an edit only to a switch that was
\* clicked before the edit, or when it had lost one already.
LEMMA EditsServed ==
  ASSUME SiteInv, EditsInv, NEW i \in DOMAIN flights, NEW status, Serve(i, status)
  PROVE  /\ EditsInv'
         /\ ~undone /\ StoryEdit' < StoryEdit =>
               flights[i].change = "toggleStory" /\ flights[i].clicked < StoryEdit
<1>1. /\ SiteInv' /\ flights[i] \in Flight /\ undone \in BOOLEAN
      /\ StoryEdit \in Nat /\ StoryEdit' \in Nat /\ edits \in Nat /\ edits' \in Nat
  <2>1. SiteInv' /\ flights[i] \in Flight /\ undone \in BOOLEAN
    BY SiteServes, FlightKept DEF SiteInv, SessionType
  <2>2. QED
    BY <2>1, SmallTypes DEF SiteInv, ServerType, StoryEdit, Things
<1>2. CASE ~Good(status)
  <2>1. Fail(i, status, flights[i].at = "write" /\ Changes[flights[i].change].coded)
    BY <1>2 DEF Serve
  <2>2. FlightsFollow /\ UNCHANGED <<server, edits, undone>>
    BY <2>1, FlightsStayBehind DEF Fail
  <2>3. QED
    BY <1>1, <2>2, EditsUntouched DEF StoryEdit
<1>3. CASE Good(status)
  <2>1. /\ Accept(flights[i]) /\ flights[i].at \in {"write", "sent"}
        /\ flights' = [flights EXCEPT ![i].at = "done"] \/ flights' = Without(i)
        /\ undone' = (undone \/ StoryEdit' < StoryEdit)
    BY <1>3 DEF Serve, StoryEdit
  <2>2. FlightsFollow
    BY <2>1, FlightsStayBehind
  <2>3. StoryEdit <= edits /\ edits' \in {edits, edits + 1}
    BY <1>1, <2>1, StoryAccepted DEF EditsInv
  <2>4. CASE flights[i].change # "toggleStory"
    <3>1. StoryEdit' = StoryEdit
      BY <1>1, <2>1, <2>4, StoryAccepted DEF StoryEdit
    <3>2. StoryEdit' <= edits' /\ ~(StoryEdit' < StoryEdit)
      BY <1>1, <2>3, <3>1
    <3>3. undone' \/ (~undone /\ StoryEdit' = StoryEdit)
      BY <1>1, <2>1, <3>1
    <3>4. QED
      BY <1>1, <2>2, <2>3, <3>2, <3>3, EditsFollowed
  <2>5. CASE flights[i].change = "toggleStory"
    <3>1. StoryEdit' = flights[i].row.edit
      BY <1>1, <2>1, <2>5, StoryAccepted DEF StoryEdit
    <3>2. ReadSince(flights[i], StoryEdit, edits, undone)
      BY <2>1, <2>5 DEF EditsInv, Writing
    <3>3. StoryEdit' <= edits'
      BY <1>1, <2>3, <3>1, <3>2 DEF ReadSince
    <3>4. undone \/ StoryEdit' = StoryEdit \/ (StoryEdit' < StoryEdit /\ flights[i].clicked < StoryEdit)
      BY <3>1, <3>2 DEF ReadSince
    <3>5. undone' \/ (~undone /\ StoryEdit' = StoryEdit)
      BY <1>1, <2>1, <3>4
    <3>6. ~undone /\ StoryEdit' < StoryEdit => flights[i].clicked < StoryEdit
      BY <1>1, <3>4
    <3>7. QED
      BY <1>1, <2>2, <2>3, <2>5, <3>3, <3>5, <3>6, EditsFollowed
  <2>6. QED
    BY <2>4, <2>5
<1>4. QED
  BY <1>2, <1>3

\* Another admin's edit is later than every click and every row that was read.
LEMMA EditsByOthers ==
  ASSUME SiteInv, EditsInv, NEW t \in Things, OtherAdmin(t)
  PROVE  EditsInv' /\ ~(StoryEdit' < StoryEdit)
<1>1. /\ edits' = edits + 1 /\ UNCHANGED <<flights, undone>>
      /\ server' = [server EXCEPT ![t].edit = edits + 1]
  BY DEF OtherAdmin, history
<1>2. /\ edits \in Nat /\ StoryEdit \in Nat /\ StoryEdit <= edits
      /\ server["story"] \in Rows /\ server \in [Things -> Rows] /\ "story" \in Things
      /\ \A i \in DOMAIN flights : flights[i].clicked \in Nat /\ flights[i].row.edit \in Nat
  BY SmallTypes, FlightNumbers DEF SiteInv, ServerType, StoryEdit, EditsInv, Things
<1>3. StoryEdit' \in {StoryEdit, edits + 1}
  BY <1>1, <1>2 DEF StoryEdit, Rows
<1>4. ASSUME NEW i \in DOMAIN flights
      PROVE  /\ flights[i].clicked <= edits'
             /\ Writing(flights[i]) => ReadSince(flights[i], StoryEdit', edits', undone)
  <2>1. flights[i].clicked <= edits /\ (Writing(flights[i]) => ReadSince(flights[i], StoryEdit, edits, undone))
    BY DEF EditsInv
  <2>2. QED
    BY <1>1, <1>2, <1>3, <2>1 DEF ReadSince
<1>5. EditsInv'
  BY <1>1, <1>2, <1>3, <1>4 DEF EditsInv, Writing, StoryEdit
<1>6. QED
  BY <1>2, <1>3, <1>5

LEMMA EditsStep ==
  ASSUME SiteInv, EditsInv, [Next]_vars
  PROVE  /\ EditsInv'
         /\ ~undone /\ StoryEdit' < StoryEdit =>
               \E i \in DOMAIN flights : /\ flights[i].change = "toggleStory"
                                         /\ flights[i].clicked < StoryEdit
<1>1. CASE \E t \in Things : OtherAdmin(t)
  BY <1>1, EditsByOthers
<1>2. CASE \E i \in DOMAIN flights, status \in Statuses : Serve(i, status)
  BY <1>2, EditsServed
<1>3. StoryEdit \in Nat
  BY SmallTypes DEF SiteInv, ServerType, StoryEdit, Things
<1>4. CASE \E i \in DOMAIN flights, status \in Statuses : Read(i, status)
  BY <1>3, <1>4, EditsRead DEF StoryEdit
<1>5. CASE /\ ~\E t \in Things : OtherAdmin(t)
           /\ ~\E i \in DOMAIN flights, status \in Statuses : Read(i, status) \/ Serve(i, status)
  <2>1. FlightsFollow /\ UNCHANGED <<server, edits, undone>>
    BY <1>5, EditsLeft
  <2>2. QED
    BY <1>3, <2>1, EditsUntouched, SiteStep DEF StoryEdit
<1>6. QED
  BY <1>1, <1>2, <1>4, <1>5

\* The switch of a story, which reads the story before it writes it, undoes only what
\* came after its click, however old the story on the page is, however many switches
\* are on their way and whatever becomes of their page; until an edit has been lost.
THEOREM StoryEditsAreKept == Spec => StoryEditsKept
<1>1. SiteInv /\ EditsInv /\ [Next]_vars =>
        [~undone /\ server'["story"].edit < server["story"].edit
           => \E i \in DOMAIN flights : /\ flights[i].change = "toggleStory"
                                        /\ flights[i].clicked < server["story"].edit]_vars
  BY EditsStep DEF StoryEdit
<1>2. SiteInv /\ EditsInv /\ [Next]_vars => SiteInv' /\ EditsInv'
  BY SiteStep, EditsStep
<1>3. Init => SiteInv /\ EditsInv
  BY SiteBegins, EditsBegin
<1>4. QED
  BY <1>1, <1>2, <1>3, PTL DEF Spec, StoryEditsKept

-----------------------------------------------------------------------------
(***************************************************************************)
(* The tables.  A cursor leaves behind it a row at least for every page    *)
(* before, so that the pages have an end; every result kept ends with its  *)
(* cursor before another row and has all the lasting rows up to it; and    *)
(* the effects have recorded the cursor after the result they last ran     *)
(* for.                                                                    *)
(***************************************************************************)
\* What Max and Min of ids rest on.
LEMMA LeastExists ==
  ASSUME NEW S \in SUBSET Nat, S # {}
  PROVE  \E x \in S : \A y \in S : x <= y
<1>1. PICK x \in S : \A y \in S : <<y, x>> \notin OpToRel(<, Nat)
  BY WFMin, NatLessThanWellFounded, Zenon
<1>2. \A y \in S : ~(y < x)
  BY <1>1, Zenon DEF OpToRel
<1>3. QED
  BY <1>2

LEMMA GreatestExists ==
  ASSUME NEW n \in Nat, NEW S \in SUBSET (0..n), S # {}
  PROVE  \E x \in S : \A y \in S : x >= y
<1> DEFINE T == {z \in Nat : \E y \in S : z = n - y}
<1>1. T # {}
  <2>1. PICK y \in S : TRUE
    OBVIOUS
  <2>2. y \in 0..n /\ n - y \in Nat
    BY <2>1
  <2>3. QED
    BY <2>2
<1>2. PICK z \in T : \A w \in T : z <= w
  BY <1>1, LeastExists
<1>3. PICK x \in S : z = n - x
  BY <1>2
<1>4. ASSUME NEW y \in S PROVE x >= y
  <2>1. x \in 0..n /\ y \in 0..n
    OBVIOUS
  <2>2. n - y \in T
    BY <2>1
  <2>3. n - x <= n - y
    BY <1>2, <1>3, <2>2
  <2>4. QED
    BY <2>1, <2>3
<1>5. QED
  BY <1>4

\* What Max and Min of ids are.
LEMMA Greatest ==
  ASSUME NEW S \in SUBSET Ids, S # {}
  PROVE  Max(S) \in S /\ \A y \in S : Max(S) >= y
<1>1. Cardinality(Ids) \in Nat /\ S \in SUBSET (0..Cardinality(Ids))
  BY IdAssumption, FS_CardinalityType
<1>2. \E x \in S : \A y \in S : x >= y
  BY <1>1, GreatestExists
<1>3. QED
  BY <1>2 DEF Max

LEMMA IdsAre ==
  /\ Cardinality(Ids) \in Nat /\ Cardinality(Ids) > 1 /\ Ids = 1..Cardinality(Ids)
  /\ Ids \subseteq Nat /\ Newest \in Ids /\ Cursors = 0..Cardinality(Ids)
<1>1. /\ Cardinality(Ids) \in Nat /\ Cardinality(Ids) > 1 /\ Ids = 1..Cardinality(Ids)
  BY IdAssumption, FS_CardinalityType
<1>2. Ids # {}
  BY <1>1
<1>3. QED
  BY <1>1, <1>2, Greatest DEF Newest, Cursors, Start

-----------------------------------------------------------------------------
\* The server's pages: the rows of a page are the first of those after the cursor,
\* and a page that is not the last one ends with its cursor, before another row.
OnPage(k) == {r \in Matching(k) : Cardinality({q \in Matching(k) : q <= r}) <= k.size}

LEMMA PageAnswered ==
  ASSUME NEW k, k.size \in Nat \ {0}, k.cursor \in Nat, AnswerPage(k).more
  PROVE  /\ AnswerPage(k).next \in Ids /\ k.cursor < AnswerPage(k).next
         /\ AnswerPage(k).next < Cardinality(Ids)
         /\ \A r \in Matching(k) : r <= AnswerPage(k).next => r \in DOMAIN AnswerPage(k).rows
<1> DEFINE found == Matching(k)
           upTo(r) == {q \in found : q <= r}
<1>1. found \in SUBSET Ids /\ \A r \in found : k.cursor < r
  BY IdsAre DEF Matching
<1>2. AnswerPage(k) = [rows |-> [r \in OnPage(k) |-> backend[r]], more |-> OnPage(k) # found,
                       next |-> IF OnPage(k) # found THEN Max(OnPage(k)) ELSE Start]
  BY DEF AnswerPage, OnPage
<1>3. OnPage(k) # found /\ OnPage(k) \subseteq found
  <2>1. OnPage(k) # found
    <3> DEFINE a == [rows |-> [r \in OnPage(k) |-> backend[r]], more |-> OnPage(k) # found,
                     next |-> IF OnPage(k) # found THEN Max(OnPage(k)) ELSE Start]
    <3>1. a.more = (OnPage(k) # found)
      BY Zenon
    <3>2. a.more
      BY <1>2, Zenon
    <3>3. QED
      BY <3>1, <3>2, Zenon
  <2>2. QED
    BY <2>1 DEF OnPage
<1>4. IsFiniteSet(found) /\ \A r \in found : IsFiniteSet(upTo(r)) /\ Cardinality(upTo(r)) \in Nat
  BY <1>1, IdAssumption, FS_Subset, FS_CardinalityType
<1>5. \A r, q \in found : r <= q => Cardinality(upTo(r)) <= Cardinality(upTo(q))
  <2>1. ASSUME NEW r \in found, NEW q \in found, r <= q PROVE Cardinality(upTo(r)) <= Cardinality(upTo(q))
    <3>1. upTo(r) \in SUBSET upTo(q)
      BY <1>1, <2>1, IdsAre
    <3>2. QED
      BY <1>4, <3>1, FS_Subset
  <2>2. QED
    BY <2>1
<1>6. \A r \in found, q \in OnPage(k) : r <= q => r \in OnPage(k)
  <2>1. ASSUME NEW r \in found, NEW q \in OnPage(k), r <= q PROVE r \in OnPage(k)
    <3>1. Cardinality(upTo(r)) <= Cardinality(upTo(q)) /\ Cardinality(upTo(q)) <= k.size
      BY <1>3, <1>5, <2>1 DEF OnPage
    <3>2. Cardinality(upTo(r)) <= k.size
      BY <1>3, <1>4, <3>1
    <3>3. QED
      BY <3>2 DEF OnPage
  <2>2. QED
    BY <2>1
<1>7. OnPage(k) # {}
  <2>1. PICK x \in found : \A y \in found : x <= y
    BY <1>1, <1>3, LeastExists, IdsAre
  <2>2. upTo(x) = {x}
    BY <1>1, <2>1, IdsAre
  <2>3. Cardinality(upTo(x)) <= k.size
    BY <2>2, FS_Singleton
  <2>4. QED
    BY <2>3 DEF OnPage
<1> DEFINE last == Max(OnPage(k))
<1>8. last \in OnPage(k) /\ \A y \in OnPage(k) : last >= y
  BY <1>1, <1>3, <1>7, Greatest
<1> HIDE DEF last
<1>9. PICK beyond \in found : beyond \notin OnPage(k)
  BY <1>3
<1>10. last < beyond /\ beyond <= Cardinality(Ids) /\ last \in found /\ last \in Nat /\ beyond \in Nat
  <2>1. ~(beyond <= last)
    BY <1>6, <1>8, <1>9
  <2>2. QED
    BY <1>1, <1>3, <1>8, <1>9, <2>1, IdsAre
<1>11. AnswerPage(k).next = last /\ AnswerPage(k).rows = [r \in OnPage(k) |-> backend[r]]
  BY <1>2, <1>3 DEF last
<1>12. QED
  BY <1>1, <1>3, <1>6, <1>8, <1>10, <1>11, IdsAre

-----------------------------------------------------------------------------
(***************************************************************************)
(* The invariant.                                                          *)
(***************************************************************************)
RowType    == [class : Classes \cup {"none"}, ver : 0..MaxChanges]
Shelves    == UNION {[S -> RowType] : S \in SUBSET Ids}
DataType   == [rows : Shelves, more : BOOLEAN, next : Cursors]
ResultType == [has : BOOLEAN, data : DataType, stale : BOOLEAN, old : BOOLEAN,
               fetch : {"asked", "served", "idle"}, got : DataType, late : BOOLEAN]
SentType   == {Idle} \cup [at : {"sent", "accepted"}, row : Ids, to : Classes, ver : 0..MaxChanges]

PagerTypes ==
    /\ kind \in Kinds /\ typed \in Filters /\ travelled \in BOOLEAN
    /\ urls \in Seq(Entries) /\ pos \in DOMAIN urls
    /\ backend \in [Ids -> RowType] /\ mine \in [Ids -> 0..MaxChanges]
    /\ sent \in SentType

\* Every page's cursor leaves a row behind for every page before it, and one ahead.
CursorsSound(cursors) ==
    /\ DOMAIN cursors \subseteq PageNumbers /\ 1 \in DOMAIN cursors /\ cursors[1] = Start
    /\ \A p \in DOMAIN cursors : /\ cursors[p] \in 0..(Cardinality(Ids) - 1)
                                 /\ p - 1 <= cursors[p]

ChainSound ==
    /\ CursorsSound(pageCursors)
    /\ effectivePage \in DOMAIN pageCursors /\ effectivePage \in {url.page, 1}

\* A row that is as the page found it, and that a key asks for.
Lasting(r, rows)  == rows[r].ver = 0 /\ rows[r].class # "none"
Suits(k, r, rows) == {k.filter, k.typed} \subseteq {All, rows[r].class}

\* Between the cursor of a page and that of the next one there is no row but its own.
Chained(k, d, rows) ==
    d.more =>
        /\ d.next \in Ids /\ k.cursor < d.next /\ d.next < Cardinality(Ids)
        /\ \A r \in Ids : /\ Lasting(r, rows) /\ Suits(k, r, rows)
                          /\ k.cursor < r /\ r <= d.next
                          => r \in DOMAIN d.rows

UpToDate(d, own) == \A r \in DOMAIN d.rows : d.rows[r].ver >= own[r]

ResultSound(k, e, rows, own) ==
    /\ e \in ResultType
    /\ Chained(k, e.data, rows) /\ Chained(k, e.got, rows)
    /\ e.has /\ ~e.stale /\ ~e.old => UpToDate(e.data, own)
    /\ e.fetch = "served" /\ ~e.late => UpToDate(e.got, own)

ResultsSound ==
    /\ key \in DOMAIN results /\ DOMAIN results \subseteq Keys
    /\ \A k \in DOMAIN results : ResultSound(k, results[k], backend, mine)

\* The admin's accepted changes are the server's.
OwnChanges ==
    /\ \A r \in Ids : mine[r] <= backend[r].ver
    /\ sent.at = "accepted" => 1 <= sent.ver /\ sent.ver <= backend[sent.row].ver

\* What is shown, and what the pages with a cursor are after, has been seen.
ChainSeen ==
    /\ DOMAIN data.rows \subseteq seen
    /\ ~travelled => \A p \in DOMAIN pageCursors, r \in Ids :
           Lasting(r, backend) /\ Suits(key, r, backend) /\ r <= pageCursors[p] => r \in seen

\* The effects have recorded the cursor of the page after the one they last ran for.
NextRecorded ==
    mine[Newest] = 0 /\ recorded.key = key /\ recorded.page = effectivePage /\ recorded.data.more
      => /\ effectivePage + 1 \in DOMAIN pageCursors
         /\ pageCursors[effectivePage + 1] = recorded.data.next

TableInv == PagerTypes /\ ChainSound /\ ResultsSound /\ OwnChanges /\ ChainSeen /\ NextRecorded

-----------------------------------------------------------------------------
\* The key shown, in its parts.
LEMMA KeyShown ==
  ASSUME PagerTypes, ChainSound
  PROVE  /\ url \in Entries /\ url = [filter |-> url.filter, page |-> url.page, size |-> url.size]
         /\ cursor = pageCursors[effectivePage] /\ cursor \in 0..(Cardinality(Ids) - 1)
         /\ key = [filter |-> url.filter, typed |-> typed, cursor |-> cursor, size |-> url.size]
         /\ key \in Keys /\ effectivePage \in Nat /\ effectivePage - 1 <= cursor
<1>1. url \in Entries
  BY DEF PagerTypes, url
<1>2. cursor = pageCursors[effectivePage]
  BY DEF ChainSound, cursor
<1>3. cursor \in 0..(Cardinality(Ids) - 1) /\ effectivePage - 1 <= cursor /\ effectivePage \in Nat
  BY <1>2, IdsAre DEF ChainSound, CursorsSound, PageNumbers
<1>4. cursor \in Cursors
  BY <1>3, IdsAre
<1>5. key = [filter |-> url.filter, typed |-> typed, cursor |-> cursor, size |-> url.size]
  BY DEF key, KeyOf
<1>6. url = [filter |-> url.filter, page |-> url.page, size |-> url.size]
  BY <1>1 DEF Entries
<1>7. key \in Keys
  BY <1>1, <1>4, <1>5 DEF Keys, Entries, PagerTypes
<1>8. QED
  BY <1>1, <1>2, <1>3, <1>5, <1>6, <1>7

\* A new entry, and one that is asked for again.
LEMMA EmptyType == NoData \in DataType /\ NewEntry \in ResultType /\ DOMAIN NoData.rows = {} /\ ~NoData.more
<1>1. <<>> \in [{} -> RowType] /\ DOMAIN <<>> = {}
  OBVIOUS
<1>2. <<>> \in Shelves
  BY <1>1 DEF Shelves
<1>3. NoData \in DataType
  BY <1>2 DEF NoData, DataType, Cursors
<1>4. NewEntry \in ResultType
  BY <1>3 DEF NewEntry, ResultType
<1>5. QED
  BY <1>1, <1>3, <1>4 DEF NoData

LEMMA NewSound == ASSUME NEW k, NEW rows, NEW own PROVE ResultSound(k, NewEntry, rows, own)
<1>1. /\ NewEntry.data = NoData /\ NewEntry.got = NoData /\ ~NewEntry.has /\ NewEntry.fetch = "asked"
  BY DEF NewEntry
<1>2. QED
  BY <1>1, EmptyType DEF ResultSound, Chained

LEMMA RefetchSound ==
  ASSUME NEW k, NEW rows, NEW own, NEW e, ResultSound(k, e, rows, own)
  PROVE  ResultSound(k, Refetch(e), rows, own) /\ Refetch(e).data = e.data
<1>1. /\ Refetch(e).data = e.data /\ Refetch(e).got = NoData /\ Refetch(e).has = e.has
      /\ Refetch(e).stale = e.stale /\ Refetch(e).old = e.old /\ Refetch(e).fetch = "asked"
      /\ Refetch(e) \in ResultType
  BY EmptyType DEF Refetch, ResultSound, ResultType
<1>2. QED
  BY <1>1, EmptyType DEF ResultSound, Chained

\* A key that comes to be observed.
LEMMA ObservedSound ==
  ASSUME NEW c, NEW k, NEW rows, NEW own, NEW d \in ObservedKey(c, k),
         \A q \in DOMAIN c : ResultSound(q, c[q], rows, own)
  PROVE  /\ DOMAIN d = DOMAIN c \cup {k}
         /\ \A q \in DOMAIN d : ResultSound(q, d[q], rows, own)
<1>1. CASE k \notin DOMAIN c
  <2>1. d = [q \in DOMAIN c \cup {k} |-> IF q = k THEN NewEntry ELSE c[q]]
    BY <1>1 DEF ObservedKey
  <2>2. QED
    BY <2>1, NewSound
<1>2. CASE k \in DOMAIN c
  <2>1. d = c \/ d = [c EXCEPT ![k] = Refetch(c[k])]
    BY <1>2 DEF ObservedKey
  <2>2. QED
    BY <1>2, <2>1, RefetchSound
<1>3. QED
  BY <1>1, <1>2

\* What a render makes of the pager, for any cursors and results that are sound.
LEMMA Rendered ==
  ASSUME PagerTypes, ChainSound, ResultsSound,
         NEW entries \in Seq(Entries), NEW at \in DOMAIN entries, NEW t \in Filters, NEW cursors, NEW c,
         CursorsSound(cursors), entries[at].page = url.page => effectivePage \in DOMAIN cursors,
         DOMAIN c = DOMAIN results,
         \A k \in DOMAIN c : ResultSound(k, c[k], backend', mine'),
         Render(entries, at, t, cursors, c)
  PROVE  /\ urls' = entries /\ pos' = at /\ typed' = t /\ pageCursors' = cursors
         /\ url' = entries[at]
         /\ effectivePage' = IF entries[at].page = url.page THEN effectivePage
                             ELSE Effective(entries[at].page, cursors)
         /\ ChainSound' /\ ResultsSound'
         /\ seen' = (IF cursors = FirstPage THEN {} ELSE seen) \cup DOMAIN data'.rows
<1> DEFINE u == entries[at]
           p == IF u.page = url.page THEN effectivePage ELSE Effective(u.page, cursors)
           k == KeyOf(u, t, IF p \in DOMAIN cursors THEN cursors[p] ELSE Start)
<1>1. /\ urls' = entries /\ pos' = at /\ typed' = t /\ effectivePage' = p /\ pageCursors' = cursors
      /\ IF k = key THEN results' = c ELSE results' \in ObservedKey(c, k)
      /\ seen' = (IF cursors = FirstPage THEN {} ELSE seen) \cup DOMAIN results'[k].data.rows
  BY DEF Render
<1>2. u \in Entries /\ url' = u
  BY <1>1 DEF url
<1>3. p \in DOMAIN cursors /\ p \in {u.page, 1}
  <2>1. CASE u.page = url.page
    BY <2>1 DEF ChainSound
  <2>2. CASE u.page # url.page
    BY <2>2 DEF Effective, CursorsSound
  <2>3. QED
    BY <2>1, <2>2
<1> HIDE DEF p
<1>4. cursor' = cursors[p] /\ k = KeyOf(u, t, cursors[p])
  BY <1>1, <1>3 DEF cursor
<1>5. key' = k
  BY <1>1, <1>2, <1>4 DEF key
<1>6. k \in Keys
  <2>1. cursors[p] \in Cursors
    BY <1>3, IdsAre DEF CursorsSound
  <2>2. QED
    BY <1>2, <1>4, <2>1 DEF KeyOf, Keys, Entries
<1> HIDE DEF k
<1>7. /\ DOMAIN results' = DOMAIN c \cup {k}
      /\ \A q \in DOMAIN results' : ResultSound(q, results'[q], backend', mine')
  <2>1. CASE k = key
    BY <1>1, <2>1 DEF ResultsSound
  <2>2. CASE k # key
    BY <1>1, <2>2, ObservedSound
  <2>3. QED
    BY <2>1, <2>2
<1>8. ResultsSound'
  BY <1>5, <1>6, <1>7 DEF ResultsSound
<1>9. data' = results'[k].data
  BY <1>5 DEF data, entry
<1>10. ChainSound'
  BY <1>1, <1>2, <1>3 DEF ChainSound, CursorsSound
<1>11. QED
  BY <1>1, <1>2, <1>8, <1>9, <1>10 DEF p

\* What is shown after a render has been seen; so has what the cursors are after, when
\* there is none yet, when it had been seen before, or when the history was used.
LEMMA RenderedSeen ==
  ASSUME PagerTypes, ChainSound, ResultsSound,
         NEW entries \in Seq(Entries), NEW at \in DOMAIN entries, NEW t \in Filters, NEW cursors, NEW c,
         CursorsSound(cursors), entries[at].page = url.page => effectivePage \in DOMAIN cursors,
         DOMAIN c = DOMAIN results,
         \A k \in DOMAIN c : ResultSound(k, c[k], backend', mine'),
         Render(entries, at, t, cursors, c),
         \/ cursors = FirstPage \/ travelled'
         \/ \A p \in DOMAIN cursors, r \in Ids :
               /\ Lasting(r, backend') /\ {entries[at].filter, t} \subseteq {All, backend'[r].class}
               /\ r <= cursors[p]
               => r \in seen
  PROVE  ChainSound' /\ ResultsSound' /\ ChainSeen'
<1>1. /\ typed' = t /\ pageCursors' = cursors /\ url' = entries[at] /\ ChainSound' /\ ResultsSound'
      /\ seen' = (IF cursors = FirstPage THEN {} ELSE seen) \cup DOMAIN data'.rows
  BY Rendered
<1>2. DOMAIN data'.rows \subseteq seen'
  BY <1>1
<1>3. key'.filter = entries[at].filter /\ key'.typed = t
  BY <1>1 DEF key, KeyOf
<1>4. ASSUME ~travelled', NEW p \in DOMAIN cursors, NEW r \in Ids,
             Lasting(r, backend'), Suits(key', r, backend'), r <= cursors[p]
      PROVE  r \in seen'
  <2>1. CASE cursors = FirstPage
    <3>1. p = 1 /\ cursors[p] = 0
      BY <2>1 DEF FirstPage, Start
    <3>2. QED
      BY <1>4, <3>1, IdsAre
  <2>2. CASE cursors # FirstPage
    BY <1>1, <1>3, <1>4, <2>2 DEF Suits
  <2>3. QED
    BY <2>1, <2>2
<1>5. ChainSeen'
  BY <1>1, <1>2, <1>4 DEF ChainSeen, Lasting, Suits
<1>6. QED
  BY <1>1, <1>5

\* A navigation is a render of an entry that is put on top of the history.
LEMMA Navigated ==
  ASSUME PagerTypes, NEW u \in Entries, NEW t, NEW cursors, NEW c, Navigate(u, t, cursors, c)
  PROVE  \E entries \in Seq(Entries) : \E at \in DOMAIN entries :
            entries[at] = u /\ Render(entries, at, t, cursors, c)
<1> DEFINE below == SubSeq(urls, 1, pos)
           kept == Append(below, u)
           all  == IF Len(kept) > MaxHistory THEN Tail(kept) ELSE kept
<1>1. pos \in 1..Len(urls) /\ urls \in Seq(Entries)
  BY DEF PagerTypes
<1>2. below \in Seq(Entries) /\ Len(below) = pos /\ pos \in Nat \ {0}
  BY <1>1, SubSeqProperties
<1> HIDE DEF below
<1>3. kept \in Seq(Entries) /\ Len(kept) = pos + 1 /\ kept[pos + 1] = u
  BY <1>2
<1> HIDE DEF kept
<1>4. /\ Tail(kept) \in Seq(Entries) /\ Len(Tail(kept)) = pos /\ Tail(kept)[pos] = u
  <2>1. kept # <<>> /\ Len(kept) - 1 = pos
    BY <1>2, <1>3
  <2>2. /\ Tail(kept) \in Seq(Entries) /\ Len(Tail(kept)) = Len(kept) - 1
        /\ \A i \in 1 .. Len(Tail(kept)) : Tail(kept)[i] = kept[i + 1]
    BY <1>3, <2>1, HeadTailProperties
  <2>3. QED
    BY <1>2, <1>3, <2>1, <2>2
<1>5. all \in Seq(Entries) /\ Len(all) \in DOMAIN all /\ all[Len(all)] = u
  BY <1>2, <1>3, <1>4
<1>6. Render(all, Len(all), t, cursors, c)
  BY DEF Navigate, kept, below
<1>7. QED
  BY <1>5, <1>6

-----------------------------------------------------------------------------
\* The two kinds of cursors a step begins with.
LEMMA FirstSound ==
  ASSUME PagerTypes, ChainSound
  PROVE  CursorsSound(FirstPage) /\ (url.page = 1 => effectivePage \in DOMAIN FirstPage)
<1>1. DOMAIN FirstPage = {1} /\ FirstPage[1] = 0
  BY DEF FirstPage, Start
<1>2. 1 \in PageNumbers /\ 0 \in 0..(Cardinality(Ids) - 1)
  BY IdsAre DEF PageNumbers
<1>3. CursorsSound(FirstPage)
  BY <1>1, <1>2 DEF CursorsSound, Start
<1>4. QED
  BY <1>1, <1>3 DEF ChainSound

LEMMA NextSound ==
  ASSUME TableInv
  PROVE  /\ CursorsSound(recordNextCursor) /\ DOMAIN pageCursors \subseteq DOMAIN recordNextCursor
         /\ ~travelled => \A p \in DOMAIN recordNextCursor, r \in Ids :
               Lasting(r, backend) /\ Suits(key, r, backend) /\ r <= recordNextCursor[p] => r \in seen
         /\ mine[Newest] = 0 /\ data.more =>
               /\ effectivePage + 1 \in DOMAIN recordNextCursor
               /\ recordNextCursor[effectivePage + 1] = data.next
<1>1. /\ cursor = pageCursors[effectivePage] /\ cursor \in 0..(Cardinality(Ids) - 1) /\ key.cursor = cursor
      /\ effectivePage \in Nat \ {0} /\ effectivePage \in PageNumbers /\ effectivePage - 1 <= cursor
  BY KeyShown DEF TableInv, ChainSound, CursorsSound, PageNumbers
<1>2. Chained(key, data, backend)
  BY DEF TableInv, ResultsSound, ResultSound, data, entry
<1>3. CASE data.more /\ deps # recorded
  <2> DEFINE n == recordNextCursor
  <2>1. n = [p \in DOMAIN pageCursors \cup {effectivePage + 1} |->
                 IF p = effectivePage + 1 THEN data.next ELSE pageCursors[p]]
    BY <1>3 DEF recordNextCursor
  <2>2. data.next \in Ids /\ cursor < data.next /\ data.next < Cardinality(Ids)
    BY <1>1, <1>2, <1>3 DEF Chained
  <2> HIDE DEF n
  <2>3. CursorsSound(n) /\ DOMAIN pageCursors \subseteq DOMAIN n
    <3>1. effectivePage + 1 \in PageNumbers /\ effectivePage + 1 # 1
      BY <1>1, <2>2, IdsAre DEF PageNumbers
    <3>2. (effectivePage + 1) - 1 <= data.next /\ data.next \in 0..(Cardinality(Ids) - 1)
      BY <1>1, <2>2, IdsAre
    <3>3. QED
      BY <2>1, <3>1, <3>2 DEF TableInv, ChainSound, CursorsSound
  <2>4. ASSUME ~travelled, NEW p \in DOMAIN n, NEW r \in Ids,
               Lasting(r, backend), Suits(key, r, backend), r <= n[p]
        PROVE  r \in seen
    <3>1. CASE p # effectivePage + 1
      BY <2>1, <2>4, <3>1 DEF TableInv, ChainSeen
    <3>2. CASE p = effectivePage + 1 /\ r <= cursor
      BY <1>1, <2>4, <3>2 DEF TableInv, ChainSeen, ChainSound
    <3>3. CASE p = effectivePage + 1 /\ ~(r <= cursor)
      <4>1. r <= data.next /\ key.cursor < r
        BY <1>1, <2>1, <2>4, <3>3, IdsAre
      <4>2. r \in DOMAIN data.rows
        BY <1>2, <1>3, <2>4, <4>1 DEF Chained
      <4>3. QED
        BY <4>2 DEF TableInv, ChainSeen
    <3>4. QED
      BY <3>1, <3>2, <3>3
  <2>5. effectivePage + 1 \in DOMAIN n /\ n[effectivePage + 1] = data.next
    BY <2>1
  <2>6. QED
    BY <2>3, <2>4, <2>5 DEF n
<1>4. CASE ~(data.more /\ deps # recorded)
  <2>1. recordNextCursor = pageCursors
    BY <1>4 DEF recordNextCursor
  <2>2. data.more => recorded.key = key /\ recorded.page = effectivePage /\ recorded.data = data
    BY <1>4 DEF deps
  <2>3. QED
    BY <2>1, <2>2 DEF TableInv, ChainSound, ChainSeen, NextRecorded
<1>5. QED
  BY <1>3, <1>4

-----------------------------------------------------------------------------
\* What the server answers to a fetch.
LEMMA AnswerSound ==
  ASSUME TableInv, NEW k \in DOMAIN results
  PROVE  /\ AnswerPage(k) \in DataType
         /\ Chained(k, AnswerPage(k), backend) /\ UpToDate(AnswerPage(k), mine)
<1>1. k \in Keys /\ k.size \in Nat \ {0} /\ k.cursor \in Nat
  <2>1. k \in Keys
    BY DEF TableInv, ResultsSound
  <2>2. SizeSet \subseteq Nat \ {0}
    BY SizeAssumption DEF SizeSet
  <2>3. k.size \in SizeSet /\ k.cursor \in Cursors
    BY <2>1 DEF Keys
  <2>4. k.cursor \in Nat
    <3>1. Cursors \subseteq Nat
      BY IdsAre
    <3>2. QED
      BY <2>3, <3>1
  <2>5. QED
    BY <2>1, <2>2, <2>3, <2>4
<1>2. AnswerPage(k) = [rows |-> [r \in OnPage(k) |-> backend[r]], more |-> OnPage(k) # Matching(k),
                       next |-> IF OnPage(k) # Matching(k) THEN Max(OnPage(k)) ELSE Start]
  BY DEF AnswerPage, OnPage
<1>3. OnPage(k) \in SUBSET Ids
  BY DEF OnPage, Matching
<1>4. /\ AnswerPage(k).rows = [r \in OnPage(k) |-> backend[r]]
      /\ AnswerPage(k).more \in BOOLEAN /\ (~AnswerPage(k).more => AnswerPage(k).next = Start)
      /\ AnswerPage(k) = [rows |-> AnswerPage(k).rows, more |-> AnswerPage(k).more, next |-> AnswerPage(k).next]
  <2> DEFINE more == OnPage(k) # Matching(k)
             rows == [r \in OnPage(k) |-> backend[r]]
             next == IF more THEN Max(OnPage(k)) ELSE Start
  <2>1. more \in BOOLEAN /\ (~more => next = Start)
    BY Zenon
  <2>2. AnswerPage(k) = [rows |-> rows, more |-> more, next |-> next]
    BY <1>2
  <2> HIDE DEF more, rows, next
  <2>3. AnswerPage(k).rows = rows /\ AnswerPage(k).more = more /\ AnswerPage(k).next = next
    <3> DEFINE a == [rows |-> rows, more |-> more, next |-> next]
    <3>1. a.rows = rows /\ a.more = more /\ a.next = next
      BY Zenon
    <3>2. AnswerPage(k) = a
      BY <2>2
    <3> HIDE DEF a
    <3>3. QED
      BY <3>1, <3>2, Zenon
  <2>4. QED
    BY <2>1, <2>2, <2>3, Zenon DEF rows
<1>5. AnswerPage(k).rows \in Shelves
  <2>1. [r \in OnPage(k) |-> backend[r]] \in [OnPage(k) -> RowType]
    BY <1>3 DEF TableInv, PagerTypes
  <2>2. QED
    BY <1>3, <1>4, <2>1 DEF Shelves
<1>6. AnswerPage(k).next \in Cursors
  BY <1>1, <1>4, PageAnswered, IdsAre DEF Cursors
<1>7. AnswerPage(k) \in DataType
  BY <1>4, <1>5, <1>6 DEF DataType
<1>8. ASSUME AnswerPage(k).more, NEW r \in Ids, Lasting(r, backend), Suits(k, r, backend),
             k.cursor < r, r <= AnswerPage(k).next
      PROVE  r \in DOMAIN AnswerPage(k).rows
  <2>1. r \in Matching(k)
    BY <1>1, <1>8, IdsAre DEF Lasting, Suits, Matching, Absent
  <2>2. QED
    BY <1>1, <1>8, <2>1, PageAnswered
<1>9. Chained(k, AnswerPage(k), backend)
  BY <1>1, <1>8, PageAnswered DEF Chained
<1>10. UpToDate(AnswerPage(k), mine)
  <2>1. \A r \in OnPage(k) : AnswerPage(k).rows[r] = backend[r] /\ r \in Ids
    BY <1>3, <1>4
  <2>2. \A r \in Ids : backend[r].ver >= mine[r]
    BY DEF TableInv, OwnChanges, PagerTypes, RowType
  <2>3. QED
    BY <1>4, <2>1, <2>2 DEF UpToDate
<1>11. QED
  BY <1>7, <1>9, <1>10

\* The rows that last are those they were.
Lasts == \A r \in Ids : Lasting(r, backend') => backend'[r] = backend[r]

LEMMA LastsSound ==
  ASSUME Lasts, NEW k, NEW e, NEW own, ResultSound(k, e, backend, own)
  PROVE  ResultSound(k, e, backend', own)
<1>1. ASSUME NEW d, Chained(k, d, backend) PROVE Chained(k, d, backend')
  BY <1>1 DEF Lasts, Chained, Lasting, Suits
<1>2. QED
  BY <1>1 DEF ResultSound

\* A step that renders nothing: the pager stays, the results are refreshed in place.
LEMMA InPlace ==
  ASSUME TableInv,
         UNCHANGED <<kind, urls, pos, typed, effectivePage, pageCursors, recorded, seen, travelled, mine>>,
         backend' \in [Ids -> RowType], sent' \in SentType, OwnChanges', Lasts,
         DOMAIN results' = DOMAIN results, results'[key].data = data,
         \A k \in DOMAIN results : ResultSound(k, results'[k], backend', mine)
  PROVE  TableInv'
<1>1. url' = url /\ cursor' = cursor
  BY DEF url, cursor
<1>2. key' = key
  BY <1>1 DEF key
<1>3. data' = data
  BY <1>2 DEF data, entry
<1>4. PagerTypes' /\ ChainSound'
  BY <1>1 DEF TableInv, PagerTypes, ChainSound
<1>5. ResultsSound'
  BY <1>2 DEF TableInv, ResultsSound
<1>6. ChainSeen'
  BY <1>2, <1>3 DEF TableInv, ChainSeen, Lasts, Lasting, Suits
<1>7. NextRecorded'
  BY <1>2 DEF TableInv, NextRecorded
<1>8. QED
  BY <1>4, <1>5, <1>6, <1>7 DEF TableInv

\* A key is asked for again, or a first fetch of it given up.
LEMMA FetchMoved ==
  ASSUME TableInv, NEW k \in DOMAIN results, NEW e, results' = [results EXCEPT ![k] = e],
         e.data = results[k].data, ResultSound(k, e, backend, mine),
         UNCHANGED <<kind, urls, pos, typed, effectivePage, pageCursors, recorded, seen,
                     travelled, backend, sent, mine>>
  PROVE  TableInv'
<1>1. backend' \in [Ids -> RowType] /\ sent' \in SentType /\ OwnChanges' /\ Lasts
  BY DEF TableInv, PagerTypes, OwnChanges, Lasts
<1>2. DOMAIN results' = DOMAIN results
  OBVIOUS
<1>3. key \in DOMAIN results
  BY DEF TableInv, ResultsSound
<1>4. results'[key].data = data
  BY <1>3 DEF data, entry
<1>5. \A q \in DOMAIN results : ResultSound(q, results'[q], backend', mine)
  BY DEF TableInv, ResultsSound
<1>6. QED
  BY <1>1, <1>2, <1>4, <1>5, InPlace

LEMMA FocusStep == ASSUME TableInv, Focus PROVE TableInv'
<1>1. key \in DOMAIN results /\ ResultSound(key, results[key], backend, mine)
  BY DEF TableInv, ResultsSound
<1>2. /\ ResultSound(key, Refetch(results[key]), backend, mine)
      /\ Refetch(results[key]).data = results[key].data
  BY <1>1, RefetchSound
<1>3. QED
  BY <1>1, <1>2, FetchMoved DEF Focus

LEMMA ServeFetchStep == ASSUME TableInv, NEW k \in DOMAIN results, ServeFetch(k) PROVE TableInv'
<1> DEFINE e == [results[k] EXCEPT !.fetch = "served", !.got = AnswerPage(k), !.late = FALSE]
<1>1. ResultSound(k, results[k], backend, mine) /\ results[k] \in ResultType
  BY DEF TableInv, ResultsSound, ResultSound
<1>2. results' = [results EXCEPT ![k] = e]
  BY DEF ServeFetch
<1>3. /\ e \in ResultType /\ e.data = results[k].data /\ e.got = AnswerPage(k)
      /\ e.has = results[k].has /\ e.stale = results[k].stale /\ e.old = results[k].old
  BY <1>1, AnswerSound DEF ResultType
<1> HIDE DEF e
<1>4. ResultSound(k, e, backend, mine)
  BY <1>1, <1>3, AnswerSound DEF ResultSound
<1>5. QED
  BY <1>2, <1>3, <1>4, FetchMoved DEF ServeFetch

LEMMA FetchFailsStep == ASSUME TableInv, NEW k \in DOMAIN results, FetchFails(k) PROVE TableInv'
<1> DEFINE e == [results[k] EXCEPT !.fetch = "idle"]
<1>1. ResultSound(k, results[k], backend, mine) /\ results[k] \in ResultType
  BY DEF TableInv, ResultsSound, ResultSound
<1>2. results' = [results EXCEPT ![k] = e]
  BY DEF FetchFails
<1>3. /\ e \in ResultType /\ e.data = results[k].data /\ e.got = results[k].got /\ e.fetch = "idle"
      /\ e.has = results[k].has /\ e.stale = results[k].stale /\ e.old = results[k].old
  BY <1>1 DEF ResultType
<1> HIDE DEF e
<1>4. ResultSound(k, e, backend, mine)
  BY <1>1, <1>3 DEF ResultSound
<1>5. QED
  BY <1>2, <1>3, <1>4, FetchMoved DEF FetchFails

-----------------------------------------------------------------------------
\* The changes of the rows are counted: where one more may be made, no row has had them all.
LEMMA RoomForOne ==
  ASSUME PagerTypes, ChangesMade < MaxChanges, NEW r \in Ids
  PROVE  backend[r].ver + 1 \in 0..MaxChanges
<1>1. backend[r].ver \in 0..MaxChanges /\ MaxChanges \in Nat
  BY MostAssumption DEF PagerTypes, RowType
<1> DEFINE n == backend[r].ver
           made == {v \in Versions : v[2] <= backend[v[1]].ver}
           f == [i \in 1..n |-> <<r, i>>]
<1>2. IsFiniteSet(made) /\ Cardinality(made) \in Nat
  <2>1. IsFiniteSet(1..MaxChanges)
    BY <1>1, FS_Interval
  <2>2. IsFiniteSet(Versions)
    BY <2>1, IdAssumption, FS_Product DEF Versions
  <2>3. QED
    BY <2>2, FS_Subset, FS_CardinalityType
<1>3. f \in Injection(1..n, made)
  <2>1. \A i \in 1..n : <<r, i>> \in made
    BY <1>1 DEF Versions
  <2>2. QED
    BY <2>1 DEF Injection, IsInjective
<1>4. Cardinality(1..n) = n
  BY <1>1, FS_Interval
<1>5. Cardinality(1..n) <= Cardinality(made)
  BY <1>2, <1>3, FS_Injection
<1>6. n <= ChangesMade /\ ChangesMade \in Nat
  BY <1>2, <1>4, <1>5 DEF ChangesMade
<1>7. QED
  BY <1>1, <1>6

\* A row is written: it lasts no longer, the others do.
LEMMA WrittenSound ==
  ASSUME TableInv, ChangesMade < MaxChanges, NEW r \in Ids, NEW c \in Classes, backend' = Written(r, c)
  PROVE  /\ backend' \in [Ids -> RowType] /\ Lasts
         /\ backend'[r].ver = backend[r].ver + 1 /\ \A q \in Ids : backend'[q].ver >= backend[q].ver
<1>1. backend \in [Ids -> RowType] /\ backend[r].ver + 1 \in 0..MaxChanges /\ backend[r].ver \in 0..MaxChanges
  BY RoomForOne DEF TableInv, PagerTypes, RowType
<1>2. backend' = [backend EXCEPT ![r] = [class |-> c, ver |-> backend[r].ver + 1]]
  BY DEF Written
<1>3. backend' \in [Ids -> RowType]
  BY <1>1, <1>2 DEF RowType
<1>4. backend'[r].ver = backend[r].ver + 1 /\ \A q \in Ids : q # r => backend'[q] = backend[q]
  BY <1>1, <1>2
<1>5. \A q \in Ids : backend[q].ver \in Nat
  BY <1>1, MostAssumption DEF RowType
<1>6. Lasts
  BY <1>1, <1>4, <1>5 DEF Lasts, Lasting
<1>7. QED
  BY <1>3, <1>4, <1>5, <1>6

\* A change of a row, or of the mutation in flight, leaves what the page knows as it was.
LEMMA ChangeMoved ==
  ASSUME TableInv, UNCHANGED <<tableVars, mine>>,
         backend' \in [Ids -> RowType], sent' \in SentType, OwnChanges', Lasts
  PROVE  TableInv'
<1>1. UNCHANGED <<kind, urls, pos, typed, effectivePage, pageCursors, recorded, results, seen, travelled, mine>>
  BY DEF tableVars
<1>2. \A k \in DOMAIN results : ResultSound(k, results[k], backend', mine)
  BY LastsSound DEF TableInv, ResultsSound
<1>3. results'[key].data = data
  BY <1>1 DEF data, entry
<1>4. QED
  BY <1>1, <1>2, <1>3, InPlace

LEMMA ClickRowStep == ASSUME TableInv, NEW r \in Ids, ClickRow(r) PROVE TableInv'
<1>1. UNCHANGED <<tableVars, mine>> /\ backend' = backend
  BY DEF ClickRow
<1>2. PICK c \in Classes : sent' = [at |-> "sent", row |-> r, to |-> c, ver |-> 0]
  BY DEF ClickRow
<1>3. sent' \in SentType /\ sent'.at = "sent"
  BY <1>2, MostAssumption DEF SentType
<1>4. backend' \in [Ids -> RowType] /\ OwnChanges' /\ Lasts
  BY <1>1, <1>3 DEF TableInv, PagerTypes, OwnChanges, Lasts
<1>5. QED
  BY <1>1, <1>3, <1>4, ChangeMoved

LEMMA CreateCityStep == ASSUME TableInv, CreateCity PROVE TableInv'
<1>1. UNCHANGED <<tableVars, mine>> /\ backend' = backend
  BY DEF CreateCity
<1>2. sent' = [at |-> "sent", row |-> Newest, to |-> OpenRow, ver |-> 0]
  BY DEF CreateCity
<1>3. sent' \in SentType /\ sent'.at = "sent"
  BY <1>2, IdsAre, MostAssumption DEF SentType, Classes
<1>4. backend' \in [Ids -> RowType] /\ OwnChanges' /\ Lasts
  BY <1>1, <1>3 DEF TableInv, PagerTypes, OwnChanges, Lasts
<1>5. QED
  BY <1>1, <1>3, <1>4, ChangeMoved

LEMMA ChangeFailsStep == ASSUME TableInv, ChangeFails PROVE TableInv'
<1>1. UNCHANGED <<tableVars, mine>> /\ backend' = backend /\ sent' = Idle
  BY DEF ChangeFails
<1>2. sent' \in SentType /\ sent'.at = "idle"
  BY <1>1 DEF SentType, Idle
<1>3. backend' \in [Ids -> RowType] /\ OwnChanges' /\ Lasts
  BY <1>1, <1>2 DEF TableInv, PagerTypes, OwnChanges, Lasts
<1>4. QED
  BY <1>1, <1>2, <1>3, ChangeMoved

LEMMA ServeChangeStep == ASSUME TableInv, ServeChange PROVE TableInv'
<1>1. /\ UNCHANGED <<tableVars, mine>> /\ backend' = Written(sent.row, sent.to) /\ ChangesMade < MaxChanges
      /\ sent.at = "sent" /\ sent' = [sent EXCEPT !.at = "accepted", !.ver = backend[sent.row].ver + 1]
  BY DEF ServeChange
<1>2. sent \in [at : {"sent", "accepted"}, row : Ids, to : Classes, ver : 0..MaxChanges]
  BY <1>1 DEF TableInv, PagerTypes, SentType, Idle
<1>3. /\ backend' \in [Ids -> RowType] /\ Lasts /\ backend'[sent.row].ver = backend[sent.row].ver + 1
      /\ \A q \in Ids : backend'[q].ver >= backend[q].ver
  BY <1>1, <1>2, WrittenSound
<1>4. backend[sent.row].ver + 1 \in 0..MaxChanges /\ backend[sent.row].ver \in Nat
  BY <1>1, <1>2, RoomForOne, MostAssumption DEF TableInv, PagerTypes, RowType
<1>5. /\ sent' \in SentType /\ sent'.row = sent.row /\ sent'.ver = backend[sent.row].ver + 1
  BY <1>1, <1>2, <1>4 DEF SentType
<1>6. \A q \in Ids : mine'[q] = mine[q] /\ mine[q] \in Nat /\ backend[q].ver \in Nat /\ backend'[q].ver \in Nat
  BY <1>1, <1>3, MostAssumption DEF TableInv, PagerTypes, RowType
<1>7. OwnChanges'
  <2>1. \A q \in Ids : mine'[q] <= backend'[q].ver
    BY <1>3, <1>6 DEF TableInv, OwnChanges
  <2>2. 1 <= sent'.ver /\ sent'.ver <= backend'[sent'.row].ver
    BY <1>3, <1>4, <1>5
  <2>3. QED
    BY <2>1, <2>2 DEF OwnChanges
<1>8. QED
  BY <1>1, <1>3, <1>5, <1>7, ChangeMoved

LEMMA OtherStep == ASSUME TableInv, NEW r \in Ids, Other(r) PROVE TableInv'
<1>1. UNCHANGED <<tableVars, mine>> /\ sent' = sent /\ ChangesMade < MaxChanges
  BY DEF Other
<1>2. PICK c \in Classes : backend' = Written(r, c)
  BY DEF Other
<1>3. backend' \in [Ids -> RowType] /\ Lasts /\ \A q \in Ids : backend'[q].ver >= backend[q].ver
  BY <1>1, <1>2, WrittenSound
<1>4. \A q \in Ids : mine'[q] = mine[q] /\ mine[q] \in Nat /\ backend[q].ver \in Nat /\ backend'[q].ver \in Nat
  BY <1>1, <1>3, MostAssumption DEF TableInv, PagerTypes, RowType
<1>5. sent.at = "accepted" => sent.row \in Ids /\ sent.ver \in Nat
  BY MostAssumption DEF TableInv, PagerTypes, SentType, Idle
<1>6. OwnChanges'
  BY <1>1, <1>3, <1>4, <1>5 DEF TableInv, OwnChanges
<1>7. QED
  BY <1>1, <1>3, <1>6, ChangeMoved DEF TableInv, PagerTypes

-----------------------------------------------------------------------------
\* A render of the history's entries, where the rows stay: what is left to show of it
\* is that the admin's changes are known and the next page's cursor is recorded.
LEMMA Turned ==
  ASSUME TableInv, UNCHANGED <<kind, backend>>, travelled' \in BOOLEAN,
         sent' \in SentType, mine' \in [Ids -> 0..MaxChanges], OwnChanges',
         NEW entries \in Seq(Entries), NEW at \in DOMAIN entries, NEW t \in Filters, NEW cursors, NEW c,
         CursorsSound(cursors), entries[at].page = url.page => effectivePage \in DOMAIN cursors,
         DOMAIN c = DOMAIN results,
         \A k \in DOMAIN c : ResultSound(k, c[k], backend, mine'),
         Render(entries, at, t, cursors, c),
         \/ cursors = FirstPage \/ travelled'
         \/ \A p \in DOMAIN cursors, r \in Ids :
               /\ Lasting(r, backend) /\ {entries[at].filter, t} \subseteq {All, backend[r].class}
               /\ r <= cursors[p]
               => r \in seen,
         NextRecorded'
  PROVE  TableInv'
<1>1. PagerTypes /\ ChainSound /\ ResultsSound
  BY DEF TableInv
<1>2. \A k \in DOMAIN c : ResultSound(k, c[k], backend', mine')
  OBVIOUS
<1>3. \/ cursors = FirstPage \/ travelled'
      \/ \A p \in DOMAIN cursors, r \in Ids :
            /\ Lasting(r, backend') /\ {entries[at].filter, t} \subseteq {All, backend'[r].class}
            /\ r <= cursors[p]
            => r \in seen
  BY DEF Lasting
<1>4. ChainSound' /\ ResultsSound' /\ ChainSeen'
  BY <1>1, <1>2, <1>3, RenderedSeen
<1>5. urls' = entries /\ pos' = at /\ typed' = t
  BY DEF Render
<1>6. PagerTypes'
  BY <1>1, <1>5 DEF PagerTypes
<1>7. QED
  BY <1>4, <1>6 DEF TableInv

\* The cursors of the pages are kept: the same rows have been seen before them.
LEMMA KeptSeen ==
  ASSUME TableInv
  PROVE  /\ CursorsSound(pageCursors) /\ effectivePage \in DOMAIN pageCursors
         /\ travelled \/ \A p \in DOMAIN pageCursors, r \in Ids :
               /\ Lasting(r, backend) /\ {url.filter, typed} \subseteq {All, backend[r].class}
               /\ r <= pageCursors[p]
               => r \in seen
<1>1. key.filter = url.filter /\ key.typed = typed
  BY DEF key, KeyOf
<1>2. QED
  BY <1>1 DEF TableInv, ChainSound, ChainSeen, Suits

\* The change of what is shown is the admin's, and nothing else of the pager's.
LEMMA Unmoved ==
  ASSUME TableInv, UNCHANGED <<mine, sent, backend>>
  PROVE  /\ sent' \in SentType /\ mine' \in [Ids -> 0..MaxChanges] /\ OwnChanges'
         /\ \A k \in DOMAIN results : ResultSound(k, results[k], backend, mine')
BY DEF TableInv, PagerTypes, OwnChanges, ResultsSound

\* The page is rendered in place.
LEMMA SamePage ==
  ASSUME TableInv, NEW c, Render(urls, pos, typed, pageCursors, c)
  PROVE  /\ url' = url /\ key' = key /\ effectivePage' = effectivePage
         /\ pageCursors' = pageCursors
<1>1. urls' = urls /\ pos' = pos /\ typed' = typed /\ pageCursors' = pageCursors
  BY DEF Render
<1>2. effectivePage' = effectivePage
  BY DEF Render, url
<1>3. url' = url /\ cursor' = cursor
  BY <1>1, <1>2 DEF url, cursor
<1>4. QED
  BY <1>1, <1>2, <1>3 DEF key

LEMMA DeliverStep == ASSUME TableInv, NEW k \in DOMAIN results, Deliver(k) PROVE TableInv'
<1> DEFINE e == [NewEntry EXCEPT !.has = TRUE, !.data = results[k].got, !.old = results[k].late, !.fetch = "idle"]
           c == [results EXCEPT ![k] = e]
<1>1. /\ results[k].fetch = "served" /\ Render(urls, pos, typed, pageCursors, c)
      /\ UNCHANGED <<kind, recorded, travelled, backend, sent, mine>>
  BY DEF Deliver
<1>2. ResultSound(k, results[k], backend, mine) /\ results[k] \in ResultType
  BY DEF TableInv, ResultsSound, ResultSound
<1>3. /\ e \in ResultType /\ e.data = results[k].got /\ e.got = NoData /\ e.old = results[k].late
      /\ e.fetch = "idle"
  BY <1>2, EmptyType DEF NewEntry, ResultType
<1> HIDE DEF e
<1>4. ResultSound(k, e, backend, mine)
  BY <1>1, <1>2, <1>3, EmptyType DEF ResultSound, Chained
<1>5. DOMAIN c = DOMAIN results /\ \A q \in DOMAIN c : ResultSound(q, c[q], backend, mine')
  BY <1>1, <1>4, Unmoved
<1> HIDE DEF c
<1>6. key' = key /\ effectivePage' = effectivePage /\ pageCursors' = pageCursors
  BY <1>1, SamePage
<1>7. NextRecorded'
  BY <1>1, <1>6 DEF TableInv, NextRecorded
<1>8. urls \in Seq(Entries) /\ pos \in DOMAIN urls /\ typed \in Filters /\ travelled' \in BOOLEAN
  BY <1>1 DEF TableInv, PagerTypes
<1>9. \/ travelled'
      \/ \A p \in DOMAIN pageCursors, r \in Ids :
            /\ Lasting(r, backend) /\ {urls[pos].filter, typed} \subseteq {All, backend[r].class}
            /\ r <= pageCursors[p]
            => r \in seen
  BY <1>1, KeptSeen DEF url
<1>10. QED
  BY <1>1, <1>5, <1>7, <1>8, <1>9, KeptSeen, Unmoved, Turned

\* The effects have run: they last ran for what is shown.
LEMMA Settled == ASSUME ~EffectsPending
                 PROVE  recorded = deps /\ recorded.key = key /\ recorded.page = effectivePage
                        /\ recorded.data = data
BY DEF EffectsPending, deps

LEMMA TravelStep == ASSUME TableInv, NEW to \in 1..MaxHistory, Travel(to) PROVE TableInv'
<1>1. /\ ~EffectsPending /\ to \in DOMAIN urls /\ Render(urls, to, typed, pageCursors, results)
      /\ travelled' = TRUE /\ UNCHANGED <<kind, recorded, backend, sent, mine>>
  BY DEF Travel, Bounded
<1>2. recorded.key = key /\ recorded.page = effectivePage /\ pageCursors' = pageCursors
  BY <1>1, Settled DEF Render
<1>3. NextRecorded'
  BY <1>1, <1>2 DEF TableInv, NextRecorded
<1>4. urls \in Seq(Entries) /\ typed \in Filters
  BY DEF TableInv, PagerTypes
<1>5. QED
  BY <1>1, <1>3, <1>4, KeptSeen, Unmoved, Turned

LEMMA SetPageStep == ASSUME TableInv, NEW p \in PageNumbers, setPage(p) PROVE TableInv'
<1> DEFINE u == [url EXCEPT !.page = p]
<1>1. /\ ~EffectsPending /\ Navigate(u, typed, pageCursors, results)
      /\ UNCHANGED <<kind, recorded, travelled, backend, sent, mine>>
  BY DEF setPage, Bounded
<1>2. u \in Entries /\ u.filter = url.filter
  BY KeyShown DEF TableInv, Entries
<1> HIDE DEF u
<1>3. PICK entries, at :
         /\ entries \in Seq(Entries) /\ at \in DOMAIN entries
         /\ entries[at] = u /\ Render(entries, at, typed, pageCursors, results)
  BY <1>1, <1>2, Navigated DEF TableInv
<1>4. recorded.key = key /\ recorded.page = effectivePage /\ pageCursors' = pageCursors
  BY <1>1, <1>3, Settled DEF Render
<1>5. NextRecorded'
  BY <1>1, <1>4 DEF TableInv, NextRecorded
<1>6. typed \in Filters /\ travelled' \in BOOLEAN
  BY <1>1 DEF TableInv, PagerTypes
<1>7. \/ travelled'
      \/ \A q \in DOMAIN pageCursors, r \in Ids :
            /\ Lasting(r, backend) /\ {entries[at].filter, typed} \subseteq {All, backend[r].class}
            /\ r <= pageCursors[q]
            => r \in seen
  BY <1>1, <1>2, <1>3, KeptSeen
<1>8. QED
  BY <1>1, <1>3, <1>5, <1>6, <1>7, KeptSeen, Unmoved, Turned

\* The table begins anew on its first page, for another key than the one recorded or
\* with a row of the admin's own on the server.
LEMMA Begun ==
  ASSUME TableInv, NEW u \in Entries, u.page = 1, NEW t \in Filters, NEW c,
         Navigate(u, t, FreshCursors, c), UNCHANGED <<kind, recorded, backend>>, travelled' \in BOOLEAN,
         sent' \in SentType, mine' \in [Ids -> 0..MaxChanges], OwnChanges',
         DOMAIN c = DOMAIN results, \A k \in DOMAIN c : ResultSound(k, c[k], backend, mine'),
         \/ mine'[Newest] # 0
         \/ recorded.key = key /\ (u.filter # url.filter \/ u.size # url.size \/ t # typed)
  PROVE  TableInv'
<1>1. PICK entries, at :
         /\ entries \in Seq(Entries) /\ at \in DOMAIN entries
         /\ entries[at] = u /\ Render(entries, at, t, FirstPage, c)
  BY Navigated DEF TableInv, FreshCursors
<1>2. CursorsSound(FirstPage) /\ (entries[at].page = url.page => effectivePage \in DOMAIN FirstPage)
  BY <1>1, FirstSound DEF TableInv
<1>3. urls' = entries /\ pos' = at /\ typed' = t
  BY <1>1 DEF Render
<1>4. key'.filter = u.filter /\ key'.size = u.size /\ key'.typed = t
  BY <1>1, <1>3 DEF key, KeyOf, url
<1>5. key.filter = url.filter /\ key.size = url.size /\ key.typed = typed
  BY DEF key, KeyOf
<1>6. NextRecorded'
  BY <1>4, <1>5 DEF NextRecorded
<1>7. QED
  BY <1>1, <1>2, <1>6, Turned

LEMMA RefineStep == ASSUME TableInv, NEW f \in Filters, NEW s \in SizeSet, Refine(f, s) PROVE TableInv'
<1> DEFINE u == [filter |-> f, page |-> 1, size |-> s]
<1>1. /\ ~EffectsPending /\ (f # url.filter \/ s # url.size) /\ Navigate(u, typed, FreshCursors, results)
      /\ travelled' = FALSE /\ UNCHANGED <<kind, recorded, backend, sent, mine>>
  BY DEF Refine, Bounded
<1>2. u \in Entries /\ u.page = 1 /\ u.filter = f /\ u.size = s
  BY IdsAre DEF Entries, PageNumbers
<1> HIDE DEF u
<1>3. typed \in Filters
  BY DEF TableInv, PagerTypes
<1>4. QED
  BY <1>1, <1>2, <1>3, Settled, Unmoved, Begun

LEMMA TypeStep == ASSUME TableInv, NEW f \in Filters, Type(f) PROVE TableInv'
<1> DEFINE u == [url EXCEPT !.page = 1]
<1>1. /\ ~EffectsPending /\ f # typed /\ Navigate(u, f, FreshCursors, results)
      /\ travelled' = FALSE /\ UNCHANGED <<kind, recorded, backend, sent, mine>>
  BY DEF Type, Bounded
<1>2. u \in Entries /\ u.page = 1
  BY KeyShown, IdsAre DEF TableInv, Entries, PageNumbers
<1> HIDE DEF u
<1>3. QED
  BY <1>1, <1>2, Settled, Unmoved, Begun

\* After a change of the admin's nothing that is kept counts as up to date.
LEMMA InvalidatedSound ==
  ASSUME NEW c, NEW own, \A q \in DOMAIN c : ResultSound(q, c[q], backend, mine), NEW k
  PROVE  /\ DOMAIN Invalidated(c, k) = DOMAIN c
         /\ \A q \in DOMAIN c : ResultSound(q, Invalidated(c, k)[q], backend, own)
<1> DEFINE e(q) == [c[q] EXCEPT !.stale = TRUE, !.late = c[q].fetch = "served"]
<1>1. ASSUME NEW q \in DOMAIN c PROVE ResultSound(q, e(q), backend, own)
  <2>1. c[q] \in ResultType /\ ResultSound(q, c[q], backend, mine)
    BY DEF ResultSound
  <2>2. /\ e(q) \in ResultType /\ e(q).data = c[q].data /\ e(q).got = c[q].got /\ e(q).stale
        /\ (e(q).fetch = "served" => e(q).late)
    BY <2>1 DEF ResultType
  <2> HIDE DEF e
  <2>3. QED
    BY <2>1, <2>2 DEF ResultSound
<1>2. Invalidated(c, k) = [q \in DOMAIN c |-> IF q = k /\ (e(q).has \/ e(q).fetch = "idle")
                                              THEN Refetch(e(q)) ELSE e(q)]
  BY DEF Invalidated
<1> HIDE DEF e
<1>3. QED
  BY <1>1, <1>2, RefetchSound

LEMMA ChangeSucceedsStep == ASSUME TableInv, ChangeSucceeds PROVE TableInv'
<1> DEFINE c == Invalidated(results, key)
<1>1. /\ sent.at = "accepted" /\ sent' = Idle /\ mine' = [mine EXCEPT ![sent.row] = sent.ver]
      /\ UNCHANGED <<kind, recorded, backend>>
  BY DEF ChangeSucceeds
<1>2. sent.row \in Ids /\ sent.ver \in 0..MaxChanges /\ sent.ver # 0
  BY <1>1 DEF TableInv, PagerTypes, OwnChanges, SentType, Idle
<1>3. sent' \in SentType /\ sent'.at = "idle" /\ mine' \in [Ids -> 0..MaxChanges]
  BY <1>1, <1>2 DEF TableInv, PagerTypes, SentType, Idle
<1>4. OwnChanges'
  BY <1>1, <1>2, <1>3 DEF TableInv, PagerTypes, OwnChanges
<1>5. DOMAIN c = DOMAIN results /\ \A q \in DOMAIN c : ResultSound(q, c[q], backend, mine')
  BY InvalidatedSound DEF TableInv, ResultsSound
<1> HIDE DEF c
<1>6. CASE sent.ver = 1 /\ sent.row = Newest /\ kind = "cities"
  <2> DEFINE u == [url EXCEPT !.page = 1]
  <2>1. Navigate(u, typed, FreshCursors, c) /\ travelled' = FALSE
    BY <1>6 DEF ChangeSucceeds, c
  <2>2. u \in Entries /\ u.page = 1
    BY KeyShown, IdsAre DEF TableInv, Entries, PageNumbers
  <2> HIDE DEF u
  <2>3. typed \in Filters /\ mine'[Newest] # 0
    BY <1>1, <1>2, <1>6 DEF TableInv, PagerTypes
  <2>4. QED
    BY <1>1, <1>3, <1>4, <1>5, <2>1, <2>2, <2>3, Begun
<1>7. CASE ~(sent.ver = 1 /\ sent.row = Newest /\ kind = "cities")
  <2>1. Render(urls, pos, typed, pageCursors, c) /\ travelled' = travelled
    BY <1>7 DEF ChangeSucceeds, c
  <2>2. key' = key /\ effectivePage' = effectivePage /\ pageCursors' = pageCursors
    BY <2>1, SamePage
  <2>3. mine'[Newest] = 0 => mine[Newest] = 0
    BY <1>1, <1>2, IdsAre DEF TableInv, PagerTypes
  <2>4. NextRecorded'
    BY <1>1, <2>2, <2>3 DEF TableInv, NextRecorded
  <2>5. urls \in Seq(Entries) /\ pos \in DOMAIN urls /\ typed \in Filters /\ travelled' \in BOOLEAN
    BY <2>1 DEF TableInv, PagerTypes
  <2>6. \/ travelled'
        \/ \A p \in DOMAIN pageCursors, r \in Ids :
              /\ Lasting(r, backend) /\ {urls[pos].filter, typed} \subseteq {All, backend[r].class}
              /\ r <= pageCursors[p]
              => r \in seen
    BY <2>1, KeptSeen DEF url
  <2>7. QED
    BY <1>1, <1>3, <1>4, <1>5, <2>1, <2>4, <2>5, <2>6, KeptSeen, Turned
<1>8. QED
  BY <1>6, <1>7

\* The effects move the URL or leave an empty page, and record the next page's cursor.
LEMMA EffectsStep == ASSUME TableInv, Effects PROVE TableInv'
<1>1. recorded' = deps /\ UNCHANGED <<kind, travelled, backend, sent, mine>>
  BY DEF Effects
<1>2. url \in Entries /\ effectivePage \in PageNumbers /\ effectivePage \in DOMAIN pageCursors
  BY KeyShown DEF TableInv, ChainSound, CursorsSound
<1>3. typed \in Filters /\ travelled' \in BOOLEAN /\ urls \in Seq(Entries) /\ pos \in DOMAIN urls
  BY <1>1 DEF TableInv, PagerTypes
<1>4. PICK entries, at :
         /\ entries \in Seq(Entries) /\ at \in DOMAIN entries
         /\ entries[at].filter = url.filter /\ Render(entries, at, typed, recordNextCursor, results)
  <2>1. CASE OutOfStep
    <3> DEFINE entries == [urls EXCEPT ![pos].page = effectivePage]
    <3>1. Render(entries, pos, typed, recordNextCursor, results)
      BY <2>1 DEF Effects
    <3>2. [url EXCEPT !.page = effectivePage] \in Entries
      BY <1>2 DEF Entries
    <3>3. entries = [urls EXCEPT ![pos] = [url EXCEPT !.page = effectivePage]]
      BY DEF url
    <3>4. entries \in Seq(Entries) /\ pos \in DOMAIN entries
          /\ entries[pos] = [url EXCEPT !.page = effectivePage]
      BY <1>3, <3>2, <3>3
    <3> HIDE DEF entries
    <3>5. entries[pos].filter = url.filter
      BY <1>2, <3>4 DEF Entries
    <3>6. QED
      BY <3>1, <3>4, <3>5
  <2>2. CASE ~OutOfStep /\ EmptyPage
    <3> DEFINE u == [url EXCEPT !.page = effectivePage - 1]
    <3>1. Navigate(u, typed, recordNextCursor, results)
      BY <2>2 DEF Effects
    <3>2. effectivePage - 1 \in PageNumbers
      BY <1>2, <2>2, IdsAre DEF EmptyPage, PageNumbers
    <3>3. u \in Entries /\ u.filter = url.filter
      BY <1>2, <3>2 DEF Entries
    <3> HIDE DEF u
    <3>4. QED
      BY <3>1, <3>3, Navigated DEF TableInv
  <2>3. CASE ~OutOfStep /\ ~EmptyPage
    <3>1. Render(urls, pos, typed, recordNextCursor, results)
      BY <2>3 DEF Effects
    <3>2. QED
      BY <1>3, <3>1 DEF url
  <2>4. QED
    BY <2>1, <2>2, <2>3
<1>5. pageCursors' = recordNextCursor
  BY <1>4 DEF Render
<1>6. NextRecorded'
  <2>1. SUFFICES ASSUME mine'[Newest] = 0, recorded'.key = key', recorded'.page = effectivePage',
                        recorded'.data.more
                 PROVE  /\ effectivePage' + 1 \in DOMAIN pageCursors'
                        /\ pageCursors'[effectivePage' + 1] = recorded'.data.next
    BY DEF NextRecorded
  <2>2. recorded'.page = effectivePage /\ recorded'.data = data
    BY <1>1 DEF deps
  <2>3. QED
    BY <1>1, <1>5, <2>1, <2>2, NextSound
<1>7. \/ travelled'
      \/ \A p \in DOMAIN recordNextCursor, r \in Ids :
            /\ Lasting(r, backend) /\ {entries[at].filter, typed} \subseteq {All, backend[r].class}
            /\ r <= recordNextCursor[p]
            => r \in seen
  <2>1. key.filter = url.filter /\ key.typed = typed
    BY DEF key, KeyOf
  <2>2. QED
    BY <1>1, <1>4, <2>1, NextSound DEF Suits
<1>8. CursorsSound(recordNextCursor) /\ effectivePage \in DOMAIN recordNextCursor
  BY <1>2, NextSound
<1>9. QED
  BY <1>1, <1>3, <1>4, <1>6, <1>7, <1>8, Unmoved, Turned

-----------------------------------------------------------------------------
\* A page that is opened, on its first or second page of rows, satisfies it.
LEMMA TableBegins == ASSUME TableInit PROVE TableInv
<1>1. PICK page \in {1, 2} : urls = <<[filter |-> All, page |-> page, size |-> Default]>>
  BY DEF TableInit
<1> DEFINE u == [filter |-> All, page |-> page, size |-> Default]
<1>2. u \in Entries
  BY FilterAssumption, SizeAssumption, IdsAre DEF Entries, Default, SizeSet, PageNumbers
<1>3. urls = <<u>> /\ pos = 1 /\ url = u
  BY <1>1 DEF TableInit, url
<1>4. PagerTypes
  <2>1. backend \in [Ids -> RowType]
    <3>1. PICK c \in [Ids -> Classes] :
             backend = [r \in Ids |-> [class |-> IF r = ToCome THEN "none" ELSE c[r], ver |-> 0]]
      BY DEF TableInit
    <3>2. 0 \in 0..MaxChanges
      BY MostAssumption
    <3>3. QED
      BY <3>1, <3>2 DEF RowType
  <2>2. mine \in [Ids -> 0..MaxChanges] /\ sent \in SentType
    BY MostAssumption DEF TableInit, SentType
  <2>3. urls \in Seq(Entries) /\ pos \in DOMAIN urls
    BY <1>2, <1>3
  <2>4. QED
    BY <2>1, <2>2, <2>3, FilterAssumption DEF PagerTypes, TableInit
<1>5. effectivePage = 1 /\ pageCursors = FirstPage /\ FirstPage[1] = Start /\ DOMAIN FirstPage = {1} /\ typed = All
  BY DEF TableInit, FirstPage
<1>6. ChainSound
  <2>1. CursorsSound(FirstPage)
    BY <1>5, IdsAre DEF CursorsSound, Start, PageNumbers
  <2>2. QED
    BY <1>5, <2>1 DEF ChainSound
<1>7. cursor = Start
  BY <1>5 DEF cursor
<1>8. key = KeyOf(urls[1], All, Start)
  BY <1>3, <1>5, <1>7 DEF key
<1>9. results = [k \in {key} |-> NewEntry]
  BY <1>8 DEF TableInit
<1>10. data = NoData
  BY <1>9 DEF data, entry, NewEntry
<1>11. ResultsSound
  BY <1>4, <1>6, <1>9, NewSound, KeyShown DEF ResultsSound
<1>12. OwnChanges
  BY <1>4, MostAssumption DEF TableInit, OwnChanges, Idle, PagerTypes, RowType
<1>13. ChainSeen
  BY <1>5, <1>10, EmptyType, IdsAre DEF ChainSeen, Start
<1>14. NextRecorded
  <2>1. recorded.data = NoData
    BY <1>10 DEF TableInit, deps
  <2>2. QED
    BY <2>1, EmptyType DEF NextRecorded
<1>15. QED
  BY <1>4, <1>6, <1>11, <1>12, <1>13, <1>14 DEF TableInv

\* Every action keeps the invariant.
LEMMA TableMoves == ASSUME TableInv, [TableNext]_pagerVars PROVE TableInv'
<1>1. CASE UNCHANGED pagerVars
  <2>1. UNCHANGED <<tableVars, mine>> /\ backend' = backend /\ sent' = sent
    BY <1>1 DEF pagerVars
  <2>2. backend' \in [Ids -> RowType] /\ sent' \in SentType /\ OwnChanges' /\ Lasts
    BY <2>1 DEF TableInv, PagerTypes, OwnChanges, Lasts
  <2>3. QED
    BY <2>1, <2>2, ChangeMoved
<1>2. CASE TableNext
  BY <1>2, EffectsStep, TypeStep, RefineStep, SetPageStep, TravelStep, FocusStep, ServeFetchStep,
     DeliverStep, FetchFailsStep, ClickRowStep, OtherStep, CreateCityStep, ServeChangeStep,
     ChangeFailsStep, ChangeSucceedsStep DEF TableNext, Fetching
<1>3. QED
  BY <1>1, <1>2

\* The invariant holds of every behaviour of a table.
LEMMA TableInvariant == TableSpec => []TableInv
BY TableBegins, TableMoves, PTL DEF TableSpec

\* Paging forward through cursors that were recorded one after the other passes no row:
\* every row before the page shown, that is as it was found, has been shown since the
\* chain of cursors was begun, unless Back or Forward was used since (useCursorTableState).
THEOREM NoRowIsSkipped == TableSpec => []NoRowSkipped
<1>1. ASSUME TableInv PROVE NoRowSkipped
  <2>1. cursor = pageCursors[effectivePage] /\ effectivePage \in DOMAIN pageCursors
    BY <1>1, KeyShown DEF TableInv, ChainSound
  <2>2. ASSUME ~travelled, NEW r \in Skipped PROVE FALSE
    <3>1. /\ r \in Ids /\ r <= cursor /\ backend[r].ver = 0 /\ backend[r].class # "none"
          /\ {url.filter, typed} \subseteq {All, backend[r].class} /\ r \notin seen
      BY DEF Skipped, Absent
    <3>2. QED
      BY <1>1, <2>1, <2>2, <3>1, KeptSeen DEF Lasting
  <2>3. QED
    BY <2>2 DEF NoRowSkipped
<1>2. QED
  BY <1>1, TableInvariant, PTL

\* The pager's state is well formed, its key is one React Query has an entry for, and the
\* next page the table offers has the cursor of what is shown, once the effects have run.
THEOREM PagerIsSound == TableSpec => []PagerSound
<1>1. ASSUME TableInv PROVE PagerSound
  <2>1. TableTypeOK
    <3>1. sent.at \in {"idle", "sent", "accepted"}
      BY <1>1 DEF TableInv, PagerTypes, SentType, Idle
    <3>2. /\ DOMAIN pageCursors \subseteq PageNumbers /\ effectivePage \in PageNumbers
          /\ \A p \in DOMAIN pageCursors : pageCursors[p] \in Cursors
      BY <1>1, IdsAre DEF TableInv, ChainSound, CursorsSound
    <3>3. QED
      BY <1>1, <3>1, <3>2 DEF TableTypeOK, TableInv, PagerTypes, RowType, ResultsSound
  <2>2. NextKnown
    <3>1. SUFFICES ASSUME mine[Newest] = 0, ~EffectsPending, effectivePage + 1 \in Offered
                   PROVE  /\ effectivePage + 1 \in DOMAIN pageCursors
                          /\ pageCursors[effectivePage + 1] = data.next
      BY DEF NextKnown
    <3>2. data.more
      BY <1>1, <3>1, KeyShown DEF TableInv, Offered
    <3>3. QED
      BY <1>1, <3>1, <3>2, Settled DEF TableInv, NextRecorded
  <2>3. QED
    BY <2>1, <2>2 DEF PagerSound
<1>2. QED
  BY <1>1, TableInvariant, PTL

\* No page kept from before the admin's own change was accepted passes for fresh, on
\* any page, filter or page size.  Answers that the server gave before the change and
\* that come after it are not spoken of: nothing marks those.
THEOREM OwnChangeIsShown == TableSpec => []OwnChangeShown
<1>1. ASSUME TableInv PROVE OwnChangeShown
  <2>1. ResultSound(key, entry, backend, mine)
    BY <1>1 DEF TableInv, ResultsSound, entry
  <2>2. QED
    BY <2>1 DEF ResultSound, UpToDate, OwnChangeShown, data
<1>2. QED
  BY <1>1, TableInvariant, PTL
=============================================================================
