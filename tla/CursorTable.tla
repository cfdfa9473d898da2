---------------------------- MODULE CursorTable ----------------------------
(***************************************************************************)
(* A table of the admin site with cursor paging: reports, audit log and    *)
(* cities are pages of this kind.  The URL holds filter, page and page     *)
(* size, the hook useCursorTableState a cursor for every page it has met,  *)
(* React Query a result per query key, and effects run after a render tie  *)
(* the three together.  The server's rows change meanwhile, through the    *)
(* admin's own clicks and through others.                                  *)
(***************************************************************************)
EXTENDS Integers, Sequences, FiniteSets, FiniteSetsExt

CONSTANTS Kinds,          \* pages: a subset of {"reports", "audit", "cities"}
          Ids,            \* the rows, 1..n, by their place in the list: the audit log
                          \* has the newest first, the others are in order of id
          OpenRow, ClosedRow,   \* two classes a row can be in
          Filters,        \* what the filter offers: some of them, and "all"
          Sizes,          \* page sizes, the default first
          MaxHistory, MaxKeys, MaxLoads, MaxChanges       \* model bounds

All     == "all"
Classes == {OpenRow, ClosedRow}

ASSUME IdAssumption   == IsFiniteSet(Ids) /\ Cardinality(Ids) > 1 /\ Ids = 1..Cardinality(Ids)
ASSUME SizeAssumption == Sizes \in Seq(Nat \ {0}) /\ Sizes # <<>>
ASSUME MostAssumption == MaxHistory \in Nat \ {0} /\ MaxChanges \in Nat
ASSUME KindAssumption == Kinds \subseteq {"reports", "audit", "cities"} /\ All \notin Classes
ASSUME FilterAssumption == All \in Filters /\ Filters \subseteq Classes \cup {All}

VARIABLES
    kind,           \* which page this is
    backend,        \* [Ids -> [class, ver]]; version 0 is as the page found it
    urls, pos,      \* the history's entries of this page, the one shown
    typed,          \* the audit page's other filters, not in the URL
    effectivePage,
    pageCursors,    \* pageCursorsRef: page -> cursor
    recorded,       \* what the effects last ran for
    results,        \* query key -> what React Query has of it
    sent,           \* the mutation in flight
    seen,           \* rows shown since the chain of cursors was last begun
    mine,           \* [Ids -> version of the admin's last accepted change]
    travelled       \* Back or Forward was used since then

tableVars == <<kind, urls, pos, typed, effectivePage, pageCursors, recorded, results, seen,
               travelled>>
pagerVars == <<tableVars, backend, sent, mine>>

Start    == 0                                   \* no cursor
Cursors  == Ids \cup {Start}
Newest   == Max(Ids)
ToCome   == IF kind = "audit" THEN 1 ELSE Newest   \* the row that is still to be created
Versions == Ids \X (1..MaxChanges)
PageNumbers == 1..(Cardinality(Ids) + 1)
Default  == Sizes[1]
SizeSet  == {Sizes[i] : i \in 1..Len(Sizes)}
Entries  == [filter : Filters, page : PageNumbers, size : SizeSet]
Keys     == [filter : Filters, typed : Filters, cursor : Cursors, size : SizeSet]
NoData   == [rows |-> <<>>, more |-> FALSE, next |-> Start]
Idle     == [at |-> "idle"]

Absent(r) == backend[r].class = "none"

-----------------------------------------------------------------------------
(***************************************************************************)
(* The server's keyset paging: rows after the cursor, in the list's order. *)
(***************************************************************************)
Matching(k) == {r \in Ids : /\ r > k.cursor /\ ~Absent(r)
                            /\ {k.filter, k.typed} \subseteq {All, backend[r].class}}

\* Mutant: the cursor is the row read to know whether there is more.
AnswerPageExtra(k) ==
    LET found == Matching(k)
        page  == {r \in found : Cardinality({q \in found : q <= r}) <= k.size}
    IN  [rows |-> [r \in page |-> backend[r]], more |-> page # found,
         next |-> IF page # found THEN Min(found \ page) ELSE Start]

AnswerPage(k) ==
    LET found == Matching(k)
        page  == {r \in found : Cardinality({q \in found : q <= r}) <= k.size}
    IN  [rows |-> [r \in page |-> backend[r]], more |-> page # found,
         next |-> IF page # found THEN Max(page) ELSE Start]

-----------------------------------------------------------------------------
(***************************************************************************)
(* React Query.  An entry has the last answer, whether it is out of date   *)
(* and a fetch that may be on its way: asked, or answered by the server    *)
(* and not yet delivered.  An answer is late when a change of the admin    *)
(* was accepted after the server read the rows.                            *)
(***************************************************************************)
NewEntry == [has |-> FALSE, data |-> NoData, stale |-> FALSE, old |-> FALSE,
             fetch |-> "asked", got |-> NoData, late |-> FALSE]
Refetch(e) == [e EXCEPT !.fetch = "asked", !.got = NoData, !.late = FALSE]

\* A component comes to observe a key: it is fetched when there is nothing, and
\* again when what there is is stale (it may be, once its staleTime is over).
ObservedKey(c, k) ==
    IF k \notin DOMAIN c
    THEN {[q \in DOMAIN c \cup {k} |-> IF q = k THEN NewEntry ELSE c[q]]}
    ELSE IF c[k].fetch # "idle" THEN {c}
    ELSE IF c[k].has /\ ~c[k].stale THEN {c, [c EXCEPT ![k] = Refetch(@)]}
    ELSE {[c EXCEPT ![k] = Refetch(@)]}

\* Mutant: only what is shown is out of date.
InvalidatedShown(c, k) == [c EXCEPT ![k] = Refetch(@)]

\* invalidateQueries: all are stale, the one observed is fetched anew.  A first
\* fetch of it that is on its way is joined, not cancelled.
Invalidated(c, k) ==
    [q \in DOMAIN c |->
        LET e == [c[q] EXCEPT !.stale = TRUE, !.late = c[q].fetch = "served"]
        IN  IF q = k /\ (e.has \/ e.fetch = "idle") THEN Refetch(e) ELSE e]

-----------------------------------------------------------------------------
(***************************************************************************)
(* The hook.                                                               *)
(***************************************************************************)
url    == urls[pos]
cursor == IF effectivePage \in DOMAIN pageCursors THEN pageCursors[effectivePage] ELSE Start
KeyOf(u, t, c) == [filter |-> u.filter, typed |-> t, cursor |-> c, size |-> u.size]
key    == KeyOf(url, typed, cursor)
entry  == results[key]
data   == entry.data

isLoading == ~entry.has /\ entry.fetch # "idle"
deps      == [key |-> key, has |-> entry.has, data |-> data, page |-> effectivePage]

FirstPage == [p \in {1} |-> Start]

Effective(page, cursors) == IF page \in DOMAIN cursors THEN page ELSE 1

\* The page is rendered for an entry of the history, after the cursors may have
\* been reset; effectivePage is worked out only when the page number changed.
Render(entries, at, t, cursors, c) ==
    LET u == entries[at]
        p == IF u.page = url.page THEN effectivePage ELSE Effective(u.page, cursors)
        k == KeyOf(u, t, IF p \in DOMAIN cursors THEN cursors[p] ELSE Start)
    IN  /\ urls' = entries /\ pos' = at /\ typed' = t
        /\ effectivePage' = p /\ pageCursors' = cursors
        /\ IF k = key THEN results' = c ELSE results' \in ObservedKey(c, k)
        /\ seen' = (IF cursors = FirstPage THEN {} ELSE seen) \cup DOMAIN results'[k].data.rows

\* Only the last MaxHistory entries of the history are kept.
Navigate(u, t, cursors, c) ==
    LET kept == Append(SubSeq(urls, 1, pos), u)
        all  == IF Len(kept) > MaxHistory THEN Tail(kept) ELSE kept
    IN  Render(all, Len(all), t, cursors, c)

FreshCursors == FirstPage

-----------------------------------------------------------------------------
(***************************************************************************)
(* Effects, after a render and before the next click: the URL follows      *)
(* effectivePage, the cursor of the next page is recorded when what is     *)
(* shown has changed, and an empty page is left for the one before.        *)
(***************************************************************************)
OutOfStep  == effectivePage # url.page
EmptyPage  == effectivePage > 1 /\ ~isLoading /\ data.rows = <<>>
EffectsPending == OutOfStep \/ EmptyPage \/ deps # recorded

\* Mutant: the effect depends on the query's key and not on its data.
RecordByKey ==
    IF data.more /\ key # recorded.key
    THEN [p \in DOMAIN pageCursors \cup {effectivePage + 1} |->
            IF p = effectivePage + 1 THEN data.next ELSE pageCursors[p]]
    ELSE pageCursors
recordNextCursor ==
    IF data.more /\ deps # recorded
    THEN [p \in DOMAIN pageCursors \cup {effectivePage + 1} |->
            IF p = effectivePage + 1 THEN data.next ELSE pageCursors[p]]
    ELSE pageCursors

Effects ==
    /\ EffectsPending
    /\ recorded' = deps
    /\ IF OutOfStep
       THEN Render([urls EXCEPT ![pos].page = effectivePage], pos, typed, recordNextCursor, results)
       ELSE IF EmptyPage
       THEN Navigate([url EXCEPT !.page = effectivePage - 1], typed, recordNextCursor, results)
       ELSE Render(urls, pos, typed, recordNextCursor, results)
    /\ UNCHANGED <<kind, travelled, backend, sent, mine>>

-----------------------------------------------------------------------------
(***************************************************************************)
(* What the admin does with the table.                                     *)
(***************************************************************************)
InFlight(c) == Cardinality({k \in DOMAIN c : c[k].fetch # "idle"})
Bounded == Cardinality(DOMAIN results') <= MaxKeys /\ InFlight(results') <= MaxLoads
           /\ UNCHANGED <<kind, recorded, backend, sent, mine>>

\* setFilter and setPageSize: back to the first page, with fresh cursors.
Refine(f, s) ==
    /\ ~EffectsPending
    /\ \/ f # url.filter /\ s = url.size /\ kind # "cities"
       \/ f = url.filter /\ s # url.size
    /\ Navigate([filter |-> f, page |-> 1, size |-> s], typed, FreshCursors, results)
    /\ Bounded /\ travelled' = FALSE

\* The audit page's other filters are state of the page; each resets the paging.
Type(f) ==
    /\ ~EffectsPending /\ kind = "audit" /\ f # typed
    /\ Navigate([url EXCEPT !.page = 1], f, FreshCursors, results)
    /\ Bounded /\ travelled' = FALSE

\* The pages the table offers: one more than this when there is more.
Offered == IF entry.has /\ data.more THEN 1..(effectivePage + 1) ELSE 1..effectivePage

setPage(p) ==
    /\ ~EffectsPending /\ p \in Offered \ {effectivePage}
    /\ Navigate([url EXCEPT !.page = p], typed, pageCursors, results)
    /\ Bounded /\ UNCHANGED travelled

\* Back and Forward.
Travel(to) ==
    /\ ~EffectsPending /\ to \in DOMAIN urls \ {pos}
    /\ Render(urls, to, typed, pageCursors, results)
    /\ travelled' = TRUE
    /\ Bounded

\* The window gets the focus when what it shows is older than its staleTime.
Focus ==
    /\ InFlight(results) = 0
    /\ results' = [results EXCEPT ![key] = Refetch(@)]
    /\ UNCHANGED <<kind, urls, pos, typed, effectivePage, pageCursors, recorded, seen,
                   travelled, backend, sent, mine>>

-----------------------------------------------------------------------------
(***************************************************************************)
(* Answers to fetches; one that fails has been repeated once.              *)
(***************************************************************************)
ServeFetch(k) ==
    /\ results[k].fetch = "asked"
    /\ results' = [results EXCEPT ![k].fetch = "served", ![k].got = AnswerPage(k),
                                  ![k].late = FALSE]
    /\ UNCHANGED <<kind, urls, pos, typed, effectivePage, pageCursors, recorded, seen,
                   travelled, backend, sent, mine>>

Deliver(k) ==
    /\ results[k].fetch = "served"
    /\ Render(urls, pos, typed, pageCursors,
              [results EXCEPT ![k] = [NewEntry EXCEPT !.has = TRUE, !.data = results[k].got,
                                      !.old = results[k].late, !.fetch = "idle"]])
    /\ UNCHANGED <<kind, recorded, travelled, backend, sent, mine>>

FetchFails(k) ==
    /\ results[k].fetch = "asked"
    /\ results' = [results EXCEPT ![k].fetch = "idle"]
    /\ UNCHANGED <<kind, urls, pos, typed, effectivePage, pageCursors, recorded, seen,
                   travelled, backend, sent, mine>>

-----------------------------------------------------------------------------
(***************************************************************************)
(* Changes.  The buttons of a row are those of the state it is shown in.   *)
(***************************************************************************)
ChangesMade == Cardinality({v \in Versions : v[2] <= backend[v[1]].ver})
Written(r, c) == [backend EXCEPT ![r] = [class |-> c, ver |-> @.ver + 1]]

\* A report is dismissed, resolved or its story disabled; a city is edited,
\* deleted or restored.  The buttons load while a change is on its way.
ClickRow(r) ==
    /\ sent = Idle /\ r \in DOMAIN data.rows
    /\ \/ kind = "reports" /\ data.rows[r].class = OpenRow
       \/ kind = "cities"
    /\ \E c \in Classes \ {data.rows[r].class} :
          sent' = [at |-> "sent", row |-> r, to |-> c, ver |-> 0]
    /\ ~EffectsPending /\ UNCHANGED <<tableVars, backend, mine>>

CreateCity ==
    /\ sent = Idle /\ kind = "cities" /\ Absent(Newest)
    /\ sent' = [at |-> "sent", row |-> Newest, to |-> OpenRow, ver |-> 0]
    /\ ~EffectsPending /\ UNCHANGED <<tableVars, backend, mine>>

ServeChange ==
    /\ sent.at = "sent" /\ ChangesMade < MaxChanges
    /\ backend' = Written(sent.row, sent.to)
    /\ sent' = [sent EXCEPT !.at = "accepted", !.ver = backend[sent.row].ver + 1]
    /\ UNCHANGED <<tableVars, mine>>

ChangeFails ==
    /\ sent.at = "sent" /\ sent' = Idle
    /\ UNCHANGED <<tableVars, backend, mine>>

\* onSuccess of the hook, then that of the click: after a create the cities
\* start again on the first page.
ChangeSucceeds ==
    /\ sent.at = "accepted" /\ sent' = Idle
    /\ mine' = [mine EXCEPT ![sent.row] = sent.ver]
    /\ LET c == Invalidated(results, key)
       IN  IF sent.ver = 1 /\ sent.row = Newest /\ kind = "cities"
           THEN Navigate([url EXCEPT !.page = 1], typed, FreshCursors, c) /\ travelled' = FALSE
           ELSE Render(urls, pos, typed, pageCursors, c) /\ UNCHANGED travelled
    /\ UNCHANGED <<kind, recorded, backend>>

\* Someone else: a report comes in or is closed, an admin edits a city, an action
\* is logged.  The rows of the audit log do not change.
Other(r) ==
    /\ ChangesMade < MaxChanges /\ (kind = "audit" => Absent(r))
    /\ \E c \in Classes \ {backend[r].class} : backend' = Written(r, c)
    /\ UNCHANGED <<tableVars, sent, mine>>

-----------------------------------------------------------------------------
TableInit ==
    /\ kind \in Kinds
    /\ \E c \in [Ids -> Classes] :
          backend = [r \in Ids |-> [class |-> IF r = ToCome THEN "none" ELSE c[r], ver |-> 0]]
    /\ \E p \in {1, 2} : urls = <<[filter |-> All, page |-> p, size |-> Default]>>
    /\ pos = 1 /\ typed = All /\ effectivePage = 1 /\ pageCursors = FirstPage
    /\ results = [k \in {KeyOf(urls[1], All, Start)} |-> NewEntry]
    /\ recorded = [deps EXCEPT !.page = 0]
    /\ sent = Idle /\ seen = {} /\ mine = [r \in Ids |-> 0]
    /\ travelled = FALSE

Fetching == \E k \in DOMAIN results : ServeFetch(k) \/ Deliver(k) \/ FetchFails(k)

TableNext ==
    \/ Effects
    \/ \E f \in Filters : Type(f) \/ \E s \in SizeSet : Refine(f, s)
    \/ \E p \in PageNumbers : setPage(p)
    \/ \E i \in 1..MaxHistory : Travel(i)
    \/ Focus \/ Fetching
    \/ \E r \in Ids : ClickRow(r) \/ Other(r)
    \/ CreateCity \/ ServeChange \/ ChangeFails \/ ChangeSucceeds

TableSpec == TableInit /\ [][TableNext]_pagerVars

-----------------------------------------------------------------------------
TableTypeOK ==
    /\ kind \in Kinds /\ typed \in Filters /\ effectivePage \in PageNumbers
    /\ backend \in [Ids -> [class : Classes \cup {"none"}, ver : 0..MaxChanges]]
    /\ urls \in Seq(Entries) /\ pos \in DOMAIN urls
    /\ DOMAIN pageCursors \subseteq PageNumbers
    /\ \A p \in DOMAIN pageCursors : pageCursors[p] \in Cursors
    /\ key \in DOMAIN results /\ DOMAIN results \subseteq Keys
    /\ sent.at \in {"idle", "sent", "accepted"} /\ mine \in [Ids -> 0..MaxChanges]
    /\ travelled \in BOOLEAN

\* Nobody pages past a row: whatever comes before the page that is shown has
\* been shown since the chain of pages was begun, but for rows that changed meanwhile.
Skipped ==
    {r \in Ids : /\ r <= cursor /\ backend[r].ver = 0 /\ ~Absent(r)
                 /\ {url.filter, typed} \subseteq {All, backend[r].class} /\ r \notin seen}
NoRowSkipped == ~travelled => Skipped = {}

\* "Changing filter or page size resets to page 1 with a fresh cursor chain",
\* with the browser's Back and Forward too.
FreshChain == Skipped = {}

\* The page after this one, which the table offers, can be opened.
NextKnown ==
    mine[Newest] = 0 /\ ~EffectsPending /\ effectivePage + 1 \in Offered
        => effectivePage + 1 \in DOMAIN pageCursors /\ pageCursors[effectivePage + 1] = data.next

\* The pager's state is well formed and leads where it says.
PagerSound == TableTypeOK /\ NextKnown

\* Once the admin's own change is accepted, no page kept from before passes for
\* fresh, whichever it is: its rows are as changed, or it is marked out of date.
\* Excused is the answer that the server had given before the change and that is
\* delivered after it: nothing cancels or marks that one.
OwnChangeShown ==
    entry.has /\ ~entry.stale /\ ~entry.old
        => \A r \in DOMAIN data.rows : data.rows[r].ver >= mine[r]

\* The same without the excuse, which the code needs.
OwnChangeAlwaysShown ==
    entry.has /\ ~entry.stale => \A r \in DOMAIN data.rows : data.rows[r].ver >= mine[r]
=============================================================================
