----------------------------- MODULE AppScreens -----------------------------
(***************************************************************************)
(* The screens of the app that call the server themselves: the paywall (in *)
(* Purchases), the report sheet on the mini player, the map of a city and  *)
(* the settings' "Delete Account".  They share the session and nothing     *)
(* else, so one behaviour is about one of them, "screen".                  *)
(***************************************************************************)
EXTENDS Purchases, SequencesExt

CONSTANTS Stories, Types,    \* what the player plays; REPORT_TYPES
          Submits,           \* taps on Submit
          Pois, Limit,       \* ids of the city's points, a set of numbers; page size
          Loads              \* calls of loadCity

ASSUME ScreenAssumption == Pois \subseteq Nat \ {0} /\ IsFiniteSet(Pois) /\ Limit \in Nat \ {0}

VARIABLES
    screen,
    story,      \* usePlayerStore.currentStory
    sheet,      \* MiniPlayer.reportVisible and ReportSheet.selectedType
    submit,     \* tap -> what handleSubmit is at, with what it closed over
    reports,    \* the reports table, as [story, type]
    waiting,    \* reports the sync queue has taken
    pois,       \* the points the server lists
    load,       \* call -> where collectCursorItems is
    shown,      \* useCityStore: the points on the map, isLoading
    scheduled,  \* users whose account is scheduled for deletion
    deletion    \* what handleDeleteAccount is at

sheetVars    == <<story, sheet, submit, reports, waiting>>
cityVars     == <<pois, load, shown>>
settingsVars == <<scheduled, deletion>>
screenVars   == <<vars, screen, sheetVars, cityVars, settingsVars>>

-----------------------------------------------------------------------------
(***************************************************************************)
(* MiniPlayer and the ReportSheet in it.                                   *)
(***************************************************************************)
Report(s, t) == [story |-> s, type |-> t]
NoReport == Report(None, None)
NoSubmit == [at |-> "none", tapped |-> NoReport, report |-> NoReport, outcome |-> "none",
             refused |-> FALSE, mounted |-> FALSE]
InFlight(i) == submit[i].at \in {"asking", "sending", "served"}
Closed      == [visible |-> FALSE, type |-> None]

\* setCurrentStory, by the walk.  Without a story the player renders nothing: the
\* sheet loses its choice, though not whether it is to be visible.
SetStory(s) ==
    /\ s # story /\ story' = s
    /\ sheet' = IF s = None THEN [sheet EXCEPT !.type = None] ELSE sheet
    /\ submit' = IF s = None THEN [i \in Submits |-> [submit[i] EXCEPT !.mounted = FALSE]]
                             ELSE submit
    /\ UNCHANGED <<reports, waiting>>

OpenSheet == /\ story # None /\ sheet' = [sheet EXCEPT !.visible = TRUE]
             /\ UNCHANGED <<story, submit, reports, waiting>>

Choose(t) == /\ story # None /\ sheet.visible /\ sheet' = [sheet EXCEPT !.type = t]
             /\ UNCHANGED <<story, submit, reports, waiting>>

handleClose == /\ story # None /\ sheet.visible /\ sheet' = Closed
               /\ UNCHANGED <<story, submit, reports, waiting>>

\* The button is dead while this sheet is submitting.
handleSubmit(i) ==
    /\ story # None /\ sheet.visible /\ sheet.type # None
    /\ submit[i].at = "none" /\ \A j \in Submits : ~(InFlight(j) /\ submit[j].mounted)
    /\ LET seen == Report(story, sheet.type) IN
       submit' = [submit EXCEPT ![i] = [NoSubmit EXCEPT !.at = "asking", !.mounted = TRUE,
                                                        !.tapped = seen, !.report = seen]]
    /\ UNCHANGED <<story, sheet, reports, waiting>>

\* Mutant: the player's story is read when the request is made.
PlayedNow(i) == story
\* storyId is the one the tap's render closed over.
storyId(i)   == submit[i].report.story

Over(i) == [NoSubmit EXCEPT !.at = "done", !.tapped = submit[i].tapped]

\* getAuthenticatedUserId: nobody is signed in, which ends the attempt, or somebody.
AskUser(i) ==
    /\ submit[i].at = "asking"
    /\ submit' = [submit EXCEPT ![i] = IF buyer = Nobody THEN Over(i)
                                       ELSE [@ EXCEPT !.at = "sending", !.report.story = storyId(i)]]
    /\ UNCHANGED <<story, sheet, reports, waiting>>

\* POST /reports.  When the network loses the request or the answer, the request
\* is handed to the sync queue, which takes it, or is full and answers FALSE, or
\* fails or is not there.  The interceptor does not look at the answer: it resolves
\* the call although the queue has refused the report.
ServeReport(i) ==
    /\ submit[i].at = "sending"
    /\ \E code \in Answers(createReport, TRUE), o \in {"value", "unknown"},
          fate \in {"sent", "queued", "refused", "failed"} :
         /\ o \in Outcomes(createReport, code)
         /\ fate = "sent" <=> code # Lost
         /\ fate = "failed" => o = "unknown"
         /\ submit' = [submit EXCEPT ![i].at = "served", ![i].outcome = o,
                                     ![i].refused = (fate = "refused")]
         /\ waiting' = waiting \cup (IF fate = "queued" THEN {submit[i].report} ELSE {})
         /\ \E stored \in SUBSET {submit[i].report} :
              /\ code # Lost => (stored # {} <=> Good(code))
              /\ reports' = reports \cup stored
    /\ UNCHANGED <<story, sheet>>

\* "Report Sent" and the sheet closes, or "Error" and it stays.
SubmitEnds(i) ==
    /\ submit[i].at = "served"
    /\ submit' = [submit EXCEPT ![i] = Over(i)]
    /\ sheet' = IF submit[i].outcome # "value" THEN sheet
                ELSE IF submit[i].mounted THEN Closed ELSE [sheet EXCEPT !.visible = FALSE]
    /\ UNCHANGED <<story, reports, waiting>>

Player == \/ \E s \in Stories \cup {None} : SetStory(s)
          \/ OpenSheet \/ handleClose \/ \E t \in Types : Choose(t)
          \/ \E i \in Submits : handleSubmit(i) \/ AskUser(i) \/ ServeReport(i) \/ SubmitEnds(i)

-----------------------------------------------------------------------------
(***************************************************************************)
(* The map of a city: useCityScreen, collectCursorItems, and the listing   *)
(* of POIs by ascending id.                                                *)
(***************************************************************************)
NoLoad == [at |-> "none", cursor |-> 0, items |-> <<>>, stayed |-> {}]
Blank  == [pois |-> <<>>, loading |-> FALSE, error |-> FALSE]

\* Another client adds a point or takes one away.
EditPois(p) ==
    /\ pois' = IF p \in pois THEN pois \ {p} ELSE pois \cup {p}
    /\ load' = [l \in Loads |-> [load[l] EXCEPT !.stayed = @ \cap pois']]
    /\ UNCHANGED shown

\* On mount, when the language changes, and on Retry.
loadCity(l) ==
    /\ load[l].at = "none"
    /\ load' = [load EXCEPT ![l] = [NoLoad EXCEPT !.at = "pages", !.stayed = pois]]
    /\ shown' = [shown EXCEPT !.loading = TRUE, !.error = FALSE]
    /\ UNCHANGED pois

\* The ids of a set in ascending order.
InOrder(S) == CHOOSE s \in [1..Cardinality(S) -> S] : \A i, j \in DOMAIN s : i < j => s[i] < s[j]

\* Mutant: the cursor is the first id that was not sent, and taken as sent.
FirstLeft(after, page) == IF Len(after) > Len(page) THEN after[Len(page) + 1] ELSE 0
\* The cursor is the last id of the page.
NextCursor(after, page) == Last(page)

\* One page: what lies behind the cursor, by id, Limit of it.
fetchPage(l) ==
    /\ load[l].at = "pages"
    /\ LET after == InOrder({p \in pois : p > load[l].cursor})
           page  == SubSeq(after, 1, IF Len(after) < Limit THEN Len(after) ELSE Limit)
           more  == Len(after) > Limit
       IN  load' = [load EXCEPT
              ![l].items  = @ \o page,
              ![l].cursor = IF more THEN NextCursor(after, page) ELSE @,
              ![l].at     = IF more THEN "pages" ELSE "whole"]
    /\ UNCHANGED <<pois, shown>>

LoadEnds(l) ==
    /\ load[l].at = "whole"
    /\ shown' = [shown EXCEPT !.pois = load[l].items, !.loading = FALSE]
    /\ load' = [load EXCEPT ![l] = NoLoad]
    /\ UNCHANGED pois

\* A request fails, of the city's or of a page; a page is malformed.
LoadFails(l) ==
    /\ load[l].at \in {"pages", "whole"}
    /\ shown' = [shown EXCEPT !.error = TRUE, !.loading = FALSE]
    /\ load' = [load EXCEPT ![l] = NoLoad]
    /\ UNCHANGED pois

City == \/ \E p \in Pois : EditPois(p)
        \/ \E l \in Loads : loadCity(l) \/ fetchPage(l) \/ LoadEnds(l) \/ LoadFails(l)

-----------------------------------------------------------------------------
(***************************************************************************)
(* Settings: handleDeleteAccount.                                          *)
(***************************************************************************)
NoDeletion == [at |-> "idle", user |-> Nobody, outcome |-> "none"]

\* The alert is confirmed; the request carries the token of who is signed in.
DeleteAccount ==
    /\ deletion.at = "idle"
    /\ deletion' = [at |-> "sent", user |-> buyer, outcome |-> "none"]
    /\ UNCHANGED scheduled

\* DELETE /users/me: 404 for an account that is scheduled already.
ServeDeletion ==
    /\ deletion.at = "sent"
    /\ LET known == deletion.user # Nobody IN
       \E code \in Answers(deleteAccount, known), o \in {"value", "network", "unknown"} :
         /\ o \in Outcomes(deleteAccount, code)
         /\ (known /\ deletion.user \in scheduled) => ~Good(code)
         /\ code = 404 => deletion.user \in scheduled
         /\ \E done \in SUBSET ({deletion.user} \cap Users) :
              /\ code # Lost => (done # {} <=> Good(code))
              /\ scheduled' = scheduled \cup done
         /\ deletion' = [deletion EXCEPT !.at = "served", !.outcome = o]

\* "Account Scheduled for Deletion" or the error; the session goes on either way.
DeletionEnds ==
    /\ deletion.at = "served" /\ deletion' = NoDeletion
    /\ UNCHANGED scheduled

Settings == DeleteAccount \/ ServeDeletion \/ DeletionEnds

-----------------------------------------------------------------------------
ScreensInit ==
    /\ Init /\ screen \in {"paywall", "player", "city", "settings"}
    /\ story = None /\ sheet = Closed /\ submit = [i \in Submits |-> NoSubmit]
    /\ reports = {} /\ waiting = {}
    /\ pois \in SUBSET Pois /\ (screen # "city" => pois = {})
    /\ load = [l \in Loads |-> NoLoad] /\ shown = Blank
    /\ scheduled = {} /\ deletion = NoDeletion

SessionMoves == \E u \in Users \cup {Nobody} : Boundary(u)

ScreensNext ==
    \/ screen = "paywall"  /\ Next     /\ UNCHANGED <<screen, sheetVars, cityVars, settingsVars>>
    \/ screen = "player"   /\ Player   /\ UNCHANGED <<vars, screen, cityVars, settingsVars>>
    \/ screen = "city"     /\ City     /\ UNCHANGED <<vars, screen, sheetVars, settingsVars>>
    \/ screen = "settings" /\ Settings /\ UNCHANGED <<vars, screen, sheetVars, cityVars>>
    \/ screen = "settings" /\ SessionMoves
         /\ UNCHANGED <<screen, sheetVars, cityVars, settingsVars>>

ScreensSpec == ScreensInit /\ [][ScreensNext]_screenVars

-----------------------------------------------------------------------------
Kept(i) == submit[i].report \in reports \cup waiting

\* What the phone says when a call succeeded is so, but for one case.  "Purchase
\* Successful!": the receipt is credited to who tapped.  "Account Scheduled": the
\* account of the tap is scheduled.  "Report Sent": the report is in the table or
\* waits to be sent, unless the full queue has refused it, of which nobody is told.
ToldTrue ==
    [][/\ \A i \in Submits : (SubmitEnds(i) /\ submit[i].outcome = "value")
                                => Kept(i) \/ submit[i].refused
       /\ (DeletionEnds /\ deletion.outcome = "value") => deletion.user \in scheduled
       /\ PurchaseSucceeds => owner[tap.receipt] = tap.user]_screenVars

\* "Resolve silently -- the mutation is queued for later": a report whose call has
\* succeeded is in the table or in the queue.  It fails for a full queue.
SentIsKept ==
    \A i \in Submits : submit[i].at = "served" /\ submit[i].outcome = "value" => Kept(i)

\* A report names the story and the type that stood on the screen when Submit was
\* tapped, whatever is played and chosen by the time the request is made.
ReportsAsTapped ==
    \A r \in reports \cup waiting : \E i \in Submits :
        /\ submit[i].at # "none"
        /\ r.story = submit[i].tapped.story /\ r.type = submit[i].tapped.type

\* The pages of one load are pages of different moments, and yet the map gets every
\* point that was listed throughout the load, and no point twice.
LoadedWhole ==
    [][\A l \in Loads : LoadEnds(l) =>
         /\ load[l].stayed \subseteq Range(shown'.pois)
         /\ IsInjective(shown'.pois)]_screenVars
=============================================================================
