---------------------------- MODULE ContentProofs ----------------------------
(***************************************************************************)
(* Theorems about Content for any points, stories, reports, requests,      *)
(* cleanup workers, batches and attempts.                                  *)
(*                                                                         *)
(* Moderation rests on the row locks: from its SELECT ... FOR UPDATE to    *)
(* its commit a moderation holds the report, then the story too, and a     *)
(* deletion holds all that it is about to delete, so what a moderation has *)
(* read is still so when it writes.  The cleanup rests on the age of an    *)
(* object: an address is uploaded to once, before anybody knows it, so     *)
(* what a worker has seen deleted stays deleted.  Audio rests on who works *)
(* on a story: what a request has collected is the audio of its stories,   *)
(* and nobody else changes them but one it has been seen to meet, so what  *)
(* it schedules no story has, and what its stories let go it schedules.    *)
(***************************************************************************)
EXTENDS Content, FiniteSetTheorems, TLAPS

-----------------------------------------------------------------------------
\* Who writes what: the actions that change a row, a report, the store, the
\* table of jobs or a worker.
LEMMA Writers ==
  ASSUME [Next]_vars
  PROVE  /\ \/ UNCHANGED <<row, place, key>>
            \/ \E q \in Requests : WriteStory(q) \/ Insert(q) \/ Link(q) \/ Cascade(q)
            \/ \E s \in Stories : CreateStory(s)
         /\ \/ UNCHANGED report
            \/ \E q \in Requests : Cascade(q) \/ Apply(q)
            \/ \E r \in Reports : CreateReport(r) \/ UpdateReport(r)
         /\ \/ UNCHANGED <<pois, shown>>
            \/ \E q \in Requests : WriteStory(q) \/ Insert(q) \/ Link(q) \/ Cascade(q) \/ Apply(q)
            \/ \E s \in Stories : CreateStory(s)
         /\ objects' \subseteq objects \/ \E q \in Requests : Upload(q)
         /\ \/ UNCHANGED jobs
            \/ \E q \in Requests : Enqueue(q)
            \/ \E w \in Cleaners : Claim(w) \/ Mark(w) \/ Reclaim(w)
         /\ \/ UNCHANGED cleaner
            \/ \E w \in Cleaners : Claim(w) \/ Erase(w) \/ Mark(w) \/ Die(w)
<1>1. ASSUME NEW q \in Requests, Start(q) \/ Fail(q) PROVE UNCHANGED <<storyVars, storeVars>>
  BY <1>1 DEF Start, StartUpdate, StartDeleteStory, StartDeletePOI, StartPublish, StartDisable,
              Begin, Fail
<1>2. ASSUME NEW q \in Requests, ReadOld(q) \/ Collect(q) \/ LockDoomed(q)
                                 \/ ReadReport(q) \/ ReadStory(q) \/ Deadlock(q)
      PROVE  UNCHANGED <<storyVars, storeVars>>
  BY <1>2 DEF ReadOld, Collect, LockDoomed, ReadReport, ReadStory, Deadlock
<1>3. ASSUME NEW q \in Requests, Enqueue(q) \/ Upload(q) \/ RemoveObject(q)
      PROVE  /\ UNCHANGED <<storyVars, cleaner>>
             /\ UNCHANGED jobs \/ Enqueue(q)
             /\ objects' \subseteq objects \/ Upload(q)
  BY <1>3 DEF Enqueue, Upload, RemoveObject
<1>4. ASSUME NEW q \in Requests, WriteStory(q) \/ Insert(q) \/ Link(q) \/ Cascade(q) \/ Apply(q)
      PROVE  /\ UNCHANGED storeVars
             /\ UNCHANGED report \/ Cascade(q) \/ Apply(q)
             /\ UNCHANGED <<row, place, key>> \/ ~Apply(q)
  BY <1>4 DEF WriteStory, Insert, Link, Cascade, Apply, SetStory, storyVars
<1>5. ASSUME NEW s \in Stories, CreateStory(s) PROVE UNCHANGED <<storeVars, report>>
  BY <1>5 DEF CreateStory, Handler, SetStory
<1>6. ASSUME NEW r \in Reports, CreateReport(r) \/ UpdateReport(r)
      PROVE  UNCHANGED <<pois, row, place, key, shown, storeVars>>
  BY <1>6 DEF CreateReport, UpdateReport, Handler
<1>7. ASSUME NEW w \in Cleaners, Clean(w) \/ Die(w)
      PROVE  /\ UNCHANGED storyVars /\ objects' \subseteq objects
             /\ UNCHANGED jobs \/ Claim(w) \/ Mark(w) \/ Reclaim(w)
             /\ UNCHANGED cleaner \/ Claim(w) \/ Erase(w) \/ Mark(w) \/ Die(w)
  BY <1>7 DEF Clean, Claim, Erase, Mark, Reclaim, Die
<1>8. CASE UNCHANGED vars
  BY <1>8 DEF vars, storyVars, storeVars
<1>9. QED
  BY <1>1, <1>2, <1>3, <1>4, <1>5, <1>6, <1>7, <1>8 DEF Next, Step, storyVars, storeVars

-----------------------------------------------------------------------------
(***************************************************************************)
(* Type correctness, by group of variables.                                *)
(***************************************************************************)
\* A story row that is written whole keeps its type.
LEMMA SetStoryType ==
  ASSUME StoryType, NEW s \in Stories, NEW p \in POIs, NEW k \in Keys \cup {NoKey},
         NEW active \in BOOLEAN, SetStory(s, p, k, active)
  PROVE  StoryType'
BY DEF StoryType, SetStory

\* The addresses a form can hold are addresses.
LEMMA TypedType ==
  ASSUME TypeOK
  PROVE  /\ Typed \subseteq Keys \cup {NoKey}
         /\ \A S \in SUBSET Stories : KeysOf(S) \subseteq Keys
BY DEF TypeOK, StoryType, StoreType, Typed, KeysOf

\* What each kind of request stands at.
LEMMA Kinds ==
  ASSUME RequestType, NEW q \in Requests
  PROVE  /\ req[q].op = "update" => req[q] \in Update
         /\ req[q].op = "deleteStory" => req[q] \in DeleteStory
         /\ req[q].op = "deletePOI" => req[q] \in DeletePOI
         /\ req[q].op = "publish" => req[q] \in Publish
         /\ req[q].op = "disable" => req[q] \in Disable
         /\ req[q].at \in {"read", "write"} => req[q] \in Update
         /\ req[q].at = "collect" => req[q] \in DeleteStory \cup DeletePOI
         /\ req[q].at \in {"delete", "cascade"} => req[q] \in DeleteStory \cup DeletePOI \cup Publish
         /\ req[q].at = "enqueue" => req[q] \in Update \cup DeleteStory \cup DeletePOI
         /\ req[q].at \in {"insert", "upload", "link", "rmobject"} => req[q] \in Publish
         /\ req[q].at \in {"report", "story", "apply"} => req[q] \in Disable
BY DEF RequestType, Idle, Update, DeleteStory, DeletePOI, Publish, Disable

\* The stories a deletion is about are stories.
LEMMA DoomedType ==
  ASSUME NEW x PROVE Doomed(x) \subseteq Stories
BY DEF Doomed, At

\* Initially every variable has its type.
LEMMA TypeInit == Init => TypeOK
<1> SUFFICES ASSUME Init PROVE TypeOK
  OBVIOUS
<1>1. StoryType
  BY ContentAssumption DEF Init, StoryType, ReportStates, Open
<1>2. RequestType
  BY DEF Init, RequestType
<1>3. LockType
  BY DEF Init, LockType
<1>4. StoreType
  BY ContentAssumption DEF Init, StoreType, Rest
<1>5. QED
  BY <1>1, <1>2, <1>3, <1>4 DEF TypeOK

\* Stories, points and reports keep their type.
LEMMA TypeStory ==
  ASSUME TypeOK, [Next]_vars
  PROVE  StoryType'
<1> USE DEF TypeOK
<1>1. ASSUME NEW t \in Stories, NEW o \in POIs, NEW k \in Keys \cup {NoKey}, NEW active \in BOOLEAN,
             SetStory(t, o, k, active)
      PROVE  StoryType'
  BY <1>1, SetStoryType
<1>2. CASE UNCHANGED storyVars
  BY <1>2 DEF StoryType, storyVars
<1>3. ASSUME NEW q \in Requests, WriteStory(q) PROVE StoryType'
  BY <1>1, <1>2, <1>3, Kinds DEF WriteStory, Update
<1>4. ASSUME NEW q \in Requests, Insert(q) \/ Link(q) PROVE StoryType'
  <2>1. req[q] \in Publish
    BY <1>4, Kinds DEF Insert, Link
  <2>2. req[q].story \in Stories /\ req[q].poi \in POIs /\ Home[req[q].story] \in Keys
    BY <2>1, ContentAssumption DEF Publish
  <2>3. QED
    BY <1>1, <1>2, <1>4, <2>2 DEF Insert, Link
<1>5. ASSUME NEW q \in Requests, Cascade(q) \/ Apply(q) PROVE StoryType'
  BY <1>5 DEF Cascade, Apply, StoryType, ReportStates
<1>6. ASSUME NEW s \in Stories, CreateStory(s) PROVE StoryType'
  <2>1. PICK p \in pois, k \in Typed, active \in BOOLEAN : SetStory(s, p, k, active)
    BY <1>6 DEF CreateStory
  <2>2. p \in POIs /\ k \in Keys \cup {NoKey}
    BY TypedType DEF StoryType
  <2>3. QED
    BY <1>1, <2>1, <2>2
<1>7. ASSUME NEW r \in Reports, CreateReport(r) \/ UpdateReport(r) PROVE StoryType'
  BY <1>7 DEF CreateReport, UpdateReport, StoryType, ReportStates, Open
<1>8. QED
  BY <1>2, <1>3, <1>4, <1>5, <1>6, <1>7, Writers DEF storyVars

\* A request that changes one position of its kind for another keeps its type.
LEMMA GotoType ==
  ASSUME RequestType, NEW q \in Requests, NEW l, Goto(q, l),
         \/ req[q] \in Update /\ l \in {"write", "enqueue"}
         \/ req[q] \in DeleteStory \cup DeletePOI /\ l \in {"delete", "cascade", "enqueue"}
         \/ req[q] \in Publish /\ l \in {"upload", "link", "rmobject", "delete", "cascade"}
         \/ req[q] \in Disable /\ l \in {"story", "apply"}
  PROVE  RequestType'
<1>1. [req[q] EXCEPT !.at = l] \in Update \cup DeleteStory \cup DeletePOI \cup Publish \cup Disable
  <2>1. CASE req[q] \in Update /\ l \in {"write", "enqueue"}
    BY <2>1 DEF Update
  <2>2. CASE req[q] \in DeleteStory \cup DeletePOI /\ l \in {"delete", "cascade", "enqueue"}
    BY <2>2 DEF DeleteStory, DeletePOI
  <2>3. CASE req[q] \in Publish /\ l \in {"upload", "link", "rmobject", "delete", "cascade"}
    BY <2>3 DEF Publish
  <2>4. CASE req[q] \in Disable /\ l \in {"story", "apply"}
    BY <2>4 DEF Disable
  <2>5. QED
    BY <2>1, <2>2, <2>3, <2>4
<1>2. QED
  BY <1>1 DEF RequestType, Goto

\* A request that ends keeps its type.
LEMMA EndType ==
  ASSUME RequestType, NEW q \in Requests, End(q)
  PROVE  RequestType'
BY DEF RequestType, End

\* A request begins with the fields of its kind.
LEMMA RequestTypeStart ==
  ASSUME TypeOK, NEW q \in Requests, Start(q)
  PROVE  RequestType'
<1> USE DEF TypeOK
<1>1. CASE StartUpdate(q)
  <2>1. PICK s \in Stories, p \in POIs, active \in BOOLEAN :
          \E k \in Typed \cup KeysOf({s}) :
            req' = [req EXCEPT ![q] = [op |-> "update", at |-> "read", story |-> s, poi |-> p,
                                       key |-> k, active |-> active, got |-> {}]]
    BY <1>1 DEF StartUpdate, Begin
  <2>2. PICK k \in Typed \cup KeysOf({s}) :
            req' = [req EXCEPT ![q] = [op |-> "update", at |-> "read", story |-> s, poi |-> p,
                                       key |-> k, active |-> active, got |-> {}]]
    BY <2>1
  <2>3. k \in Keys \cup {NoKey}
    BY TypedType
  <2>4. QED
    BY <2>2, <2>3 DEF RequestType, Update
<1>2. CASE StartDeleteStory(q)
  BY <1>2 DEF StartDeleteStory, Begin, RequestType, DeleteStory
<1>3. CASE StartDeletePOI(q)
  BY <1>3 DEF StartDeletePOI, Begin, RequestType, DeletePOI, StoryType
<1>4. CASE StartPublish(q)
  BY <1>4 DEF StartPublish, Begin, RequestType, Publish
<1>5. CASE StartDisable(q)
  BY <1>5 DEF StartDisable, Begin, RequestType, Disable, StoryType
<1>6. QED
  BY <1>1, <1>2, <1>3, <1>4, <1>5 DEF Start

\* Every step of a request leaves it with the fields of its kind.
LEMMA RequestTypeStep ==
  ASSUME TypeOK, NEW q \in Requests, Step(q)
  PROVE  RequestType'
<1> USE DEF TypeOK
<1>1. CASE ReadOld(q)
  <2>1. req[q] \in Update
    BY <1>1, Kinds DEF ReadOld
  <2>2. CASE Goto(q, "write")
    BY <2>1, <2>2, GotoType
  <2>3. CASE req' = [req EXCEPT ![q].at = "write",
                                ![q].got = IF Live(req[q].story) THEN KeysOf({req[q].story}) ELSE {}]
    <3>1. KeysOf({req[q].story}) \subseteq Keys
      BY <2>1, TypedType DEF Update
    <3>2. QED
      BY <2>1, <2>3, <3>1 DEF RequestType, Update
  <2>4. QED
    BY <1>1, <2>2, <2>3 DEF ReadOld
<1>2. CASE WriteStory(q)
  <2>1. req[q] \in Update
    BY <1>2, Kinds DEF WriteStory
  <2>2. CASE End(q)
    BY <2>2, EndType
  <2>3. CASE req' = [req EXCEPT ![q].at = "enqueue", ![q].got = Dropped(req[q])]
    BY <2>1, <2>3 DEF RequestType, Update, Dropped
  <2>4. QED
    BY <1>2, <2>2, <2>3 DEF WriteStory
<1>3. CASE Collect(q)
  <2>1. req[q] \in DeleteStory \cup DeletePOI
    BY <1>3, Kinds DEF Collect
  <2>2. CASE Goto(q, "delete")
    BY <2>1, <2>2, GotoType
  <2>3. CASE req' = [req EXCEPT ![q].at = "delete", ![q].got = KeysOf(Doomed(req[q]))]
    <3>1. KeysOf(Doomed(req[q])) \subseteq Keys
      BY DoomedType, TypedType
    <3>2. QED
      BY <2>1, <2>3, <3>1 DEF RequestType, DeleteStory, DeletePOI
  <2>4. QED
    BY <1>3, <2>2, <2>3 DEF Collect
<1>4. CASE LockDoomed(q)
  BY <1>4, Kinds, GotoType, EndType DEF LockDoomed
<1>5. CASE Cascade(q)
  <2>1. req[q] \in DeleteStory \cup DeletePOI \cup Publish
    BY <1>5, Kinds DEF Cascade
  <2>2. req[q] \in Publish => req[q].got = {}
    BY DEF Publish
  <2>3. QED
    BY <1>5, <2>1, <2>2, GotoType, EndType DEF Cascade
<1>6. CASE Insert(q)
  BY <1>6, Kinds, GotoType, EndType DEF Insert
<1>7. CASE Upload(q)
  BY <1>7, Kinds, GotoType DEF Upload
<1>8. CASE Link(q)
  BY <1>8, Kinds, GotoType, EndType DEF Link
<1>9. CASE RemoveObject(q)
  BY <1>9, Kinds, GotoType DEF RemoveObject
<1>10. CASE ReadReport(q)
  <2>1. req[q] \in Disable
    BY <1>10, Kinds DEF ReadReport
  <2>2. CASE End(q)
    BY <2>2, EndType
  <2>3. CASE req' = [req EXCEPT ![q].at = "story", ![q].seen = report[req[q].report]]
    BY <2>1, <2>3 DEF RequestType, Disable, StoryType
  <2>4. QED
    BY <1>10, <2>2, <2>3 DEF ReadReport
<1>11. CASE ReadStory(q)
  BY <1>11, Kinds, GotoType, EndType DEF ReadStory
<1>12. CASE Deadlock(q)
  <2>1. CASE End(q)
    BY <2>1, EndType
  <2>2. CASE /\ req[q].op = "disable"
             /\ req' = [req EXCEPT ![q].at = "report", ![q].again = FALSE]
    <3>1. req[q] \in Disable
      BY <2>2, Kinds
    <3>2. QED
      BY <2>2, <3>1 DEF RequestType, Disable
  <2>3. QED
    BY <1>12, <2>1, <2>2 DEF Deadlock
<1>13. CASE Enqueue(q) \/ Apply(q)
  BY <1>13, EndType DEF Enqueue, Apply
<1>14. QED
  BY <1>1, <1>2, <1>3, <1>4, <1>5, <1>6, <1>7, <1>8, <1>9, <1>10, <1>11, <1>12, <1>13 DEF Step

\* And so does every other step.
LEMMA TypeRequest ==
  ASSUME TypeOK, [Next]_vars
  PROVE  RequestType'
<1>1. ASSUME NEW q \in Requests, Fail(q) PROVE RequestType'
  BY <1>1, EndType DEF TypeOK, Fail
<1>2. ASSUME NEW s \in Stories, CreateStory(s) PROVE RequestType'
  BY <1>2 DEF TypeOK, CreateStory, Handler, RequestType
<1>3. ASSUME NEW r \in Reports, CreateReport(r) \/ UpdateReport(r) PROVE RequestType'
  BY <1>3 DEF TypeOK, CreateReport, UpdateReport, Handler, RequestType
<1>4. ASSUME NEW w \in Cleaners, Clean(w) \/ Die(w) PROVE RequestType'
  BY <1>4 DEF TypeOK, Clean, Claim, Erase, Mark, Reclaim, Die, RequestType
<1>5. CASE UNCHANGED vars
  BY <1>5 DEF TypeOK, RequestType, vars
<1>6. QED
  BY RequestTypeStart, RequestTypeStep, <1>1, <1>2, <1>3, <1>4, <1>5 DEF Next

\* A request's steps leave the other requests alone.
LEMMA OthersStay ==
  ASSUME RequestType, NEW q \in Requests, Start(q) \/ Step(q) \/ Fail(q)
  PROVE  \A p \in Requests \ {q} : req'[p] = req[p]
<1>1. CASE Start(q)
  BY <1>1 DEF RequestType, Start, StartUpdate, StartDeleteStory, StartDeletePOI, StartPublish,
              StartDisable, Begin
<1>2. CASE ReadOld(q) \/ WriteStory(q) \/ Collect(q) \/ LockDoomed(q) \/ Cascade(q) \/ Enqueue(q)
  BY <1>2 DEF RequestType, ReadOld, WriteStory, Collect, LockDoomed, Cascade, Enqueue, Goto, End
<1>3. CASE Insert(q) \/ Upload(q) \/ Link(q) \/ RemoveObject(q)
  BY <1>3 DEF RequestType, Insert, Upload, Link, RemoveObject, Goto, End
<1>4. CASE ReadReport(q) \/ ReadStory(q) \/ Apply(q) \/ Deadlock(q) \/ Fail(q)
  BY <1>4 DEF RequestType, ReadReport, ReadStory, Apply, Deadlock, Fail, Goto, End
<1>5. QED
  BY <1>1, <1>2, <1>3, <1>4 DEF Step

\* The steps of everybody else leave requests and locks alone.
LEMMA RequestsStay ==
  ASSUME \/ \E s \in Stories : CreateStory(s)
         \/ \E r \in Reports : CreateReport(r) \/ UpdateReport(r)
         \/ \E w \in Cleaners : Clean(w) \/ Die(w)
         \/ UNCHANGED vars
  PROVE  req' = req /\ lock' = lock
BY DEF CreateStory, CreateReport, UpdateReport, Handler, Clean, Claim, Erase, Mark, Reclaim,
       Die, vars

\* What a request's step does to the locks: nothing when it is outside of a
\* transaction, else it gives all of its locks back, or takes free ones and is
\* in a transaction afterwards.
LEMMA LockStep ==
  ASSUME TypeOK, NEW q \in Requests, Start(q) \/ Step(q) \/ Fail(q)
  PROVE  \/ /\ lock' = lock
            /\ req[q].at \notin {"story", "apply", "cascade"}
         \/ Release(q)
         \/ /\ \E S : Take(q, S) /\ ~Locked(S)
            /\ req'[q].at \in {"story", "apply", "cascade"}
<1>1. CASE Start(q)
  BY <1>1 DEF Start, StartUpdate, StartDeleteStory, StartDeletePOI, StartPublish,
              StartDisable, Begin, Busy
<1>2. CASE ReadOld(q) \/ WriteStory(q) \/ Collect(q) \/ Enqueue(q)
  BY <1>2 DEF ReadOld, WriteStory, Collect, Enqueue
<1>3. CASE Insert(q) \/ Upload(q) \/ Link(q) \/ RemoveObject(q)
  BY <1>3 DEF Insert, Upload, Link, RemoveObject
<1>4. CASE Cascade(q) \/ Apply(q) \/ Deadlock(q) \/ Fail(q)
  BY <1>4 DEF Cascade, Apply, Deadlock, Fail
<1>5. ASSUME NEW l \in {"story", "apply", "cascade"}, Goto(q, l),
             req[q] \in Disable \cup DeleteStory \cup DeletePOI \cup Publish
      PROVE  req'[q].at \in {"story", "apply", "cascade"}
  BY <1>5 DEF TypeOK, RequestType, Goto, Disable, DeleteStory, DeletePOI, Publish
<1>6. CASE LockDoomed(q)
  BY <1>6, <1>5, Kinds DEF TypeOK, LockDoomed
<1>7. CASE ReadReport(q)
  <2>1. req[q] \in Disable
    BY <1>7, Kinds DEF TypeOK, ReadReport
  <2>2. CASE /\ ForUpdate(q, req[q].report)
             /\ req' = [req EXCEPT ![q].at = "story", ![q].seen = report[req[q].report]]
    BY <1>7, <2>1, <2>2 DEF TypeOK, RequestType, Disable, ReadReport, ForUpdate
  <2>3. CASE Release(q)
    BY <2>3
  <2>4. QED
    BY <1>7, <2>2, <2>3 DEF ReadReport
<1>8. CASE ReadStory(q)
  <2>1. req[q] \in Disable
    BY <1>8, Kinds DEF TypeOK, ReadStory
  <2>2. QED
    BY <1>8, <1>5, <2>1 DEF ReadStory, ForUpdate
<1>9. QED
  BY <1>1, <1>2, <1>3, <1>4, <1>6, <1>7, <1>8 DEF Step

\* Locks stay with requests in a transaction.
LEMMA TypeLock ==
  ASSUME TypeOK, [Next]_vars
  PROVE  LockType'
<1>1. CASE req' = req /\ lock' = lock
  BY <1>1 DEF TypeOK, LockType
<1>2. ASSUME NEW q \in Requests, Start(q) \/ Step(q) \/ Fail(q) PROVE LockType'
  <2>1. \A p \in Requests \ {q} : req'[p] = req[p]
    BY <1>2, OthersStay DEF TypeOK
  <2>2. CASE lock' = lock /\ req[q].at \notin {"story", "apply", "cascade"}
    BY <2>1, <2>2 DEF TypeOK, LockType
  <2>3. CASE Release(q)
    BY <2>1, <2>3, ContentAssumption DEF TypeOK, LockType, Release
  <2>4. CASE /\ \E S : Take(q, S) /\ ~Locked(S)
             /\ req'[q].at \in {"story", "apply", "cascade"}
    BY <2>1, <2>4 DEF TypeOK, LockType, Take
  <2>5. QED
    BY <1>2, <2>2, <2>3, <2>4, LockStep
<1>3. QED
  BY <1>1, <1>2, RequestsStay DEF Next

\* A batch is made of jobs that exist, and steps of the cleanup worker keep
\* the type of jobs, objects and worker.
LEMMA TypeClean ==
  ASSUME TypeOK, NEW w \in Cleaners, Clean(w) \/ Die(w)
  PROVE  StoreType'
<1> USE DEF TypeOK
<1>0. jobs \in Seq(Job) /\ \A i \in DOMAIN jobs : jobs[i] \in Job
  BY DEF StoreType
<1>1. CASE Claim(w)
  <2>1. \A i \in DOMAIN jobs : Claimed(i) \in Job
    BY <1>0 DEF Job, Claimed
  <2>2. jobs' \in Seq(Job) /\ DOMAIN jobs' = DOMAIN jobs
    BY <1>0, <1>1, <2>1 DEF Claim
  <2>3. NextBatch \subseteq DOMAIN jobs
    BY DEF NextBatch
  <2>4. QED
    BY <1>1, <2>2, <2>3 DEF Claim, StoreType, Working
<1>2. CASE Erase(w)
  <2>1. objects' \subseteq Keys /\ jobs' = jobs
    BY <1>2 DEF Erase, StoreType
  <2>2. PICK i \in cleaner[w].batch, result \in {"completed", "failed"} :
          cleaner' = [cleaner EXCEPT ![w] =
             [at |-> "mark", batch |-> @.batch \ {i}, job |-> i, result |-> result]]
    BY <1>2 DEF Erase, AfterError
  <2>3. QED
    BY <2>1, <2>2 DEF StoreType
<1>3. CASE Mark(w)
  <2>1. \A i \in DOMAIN jobs : [jobs[i] EXCEPT !.status = cleaner[w].result] \in Job
    BY <1>0 DEF Job, StoreType
  <2>2. jobs' = [jobs EXCEPT ![cleaner[w].job].status = cleaner[w].result] \/ jobs' = jobs
    BY <1>3 DEF Mark
  <2>3. jobs' \in Seq(Job) /\ DOMAIN jobs' = DOMAIN jobs
    BY <1>0, <2>1, <2>2
  <2>4. QED
    BY <1>3, <2>3 DEF Mark, StoreType, Rest, Working
<1>4. CASE Reclaim(w)
  <2>1. \A i \in DOMAIN jobs : [jobs[i] EXCEPT !.status = "pending"] \in Job
    BY <1>0 DEF Job
  <2>2. jobs' \in Seq(Job) /\ DOMAIN jobs' = DOMAIN jobs
    BY <1>0, <1>4, <2>1 DEF Reclaim
  <2>3. QED
    BY <1>4, <2>2 DEF Reclaim, StoreType
<1>5. CASE Die(w)
  BY <1>5 DEF Die, StoreType, Rest
<1>6. QED
  BY <1>1, <1>2, <1>3, <1>4, <1>5 DEF Clean

\* The jobs a request appends are of addresses it knew.
LEMMA EnqueueJobs ==
  ASSUME TypeOK, NEW q \in Requests, Enqueue(q), UNCHANGED jobs => FALSE
  PROVE  /\ jobs' \in Seq(Job)
         /\ DOMAIN jobs \subseteq DOMAIN jobs'
         /\ \A i \in DOMAIN jobs : jobs'[i] = jobs[i]
         /\ \A i \in DOMAIN jobs' \ DOMAIN jobs :
              jobs'[i].key \in req[q].got /\ jobs'[i].status = "pending"
<1>1. req[q].got \subseteq Keys
  BY Kinds DEF TypeOK, Enqueue, Update, DeleteStory, DeletePOI
<1>2. Cardinality(req[q].got) \in Nat
  BY <1>1, ContentAssumption, FS_Subset, FS_CardinalityType
<1>3. PICK order \in [1..Cardinality(req[q].got) -> req[q].got] :
        jobs' = jobs \o [i \in DOMAIN order |->
                           [key |-> order[i], status |-> "pending", attempts |-> 0]]
  BY DEF Enqueue
<1> DEFINE new == [i \in 1..Cardinality(req[q].got) |->
                     [key |-> order[i], status |-> "pending", attempts |-> 0]]
<1> DEFINE n == Cardinality(req[q].got)
<1>4. new \in Seq(Job) /\ Len(new) = n
  <2>1. \A i \in 1..n : new[i] \in Job
    BY <1>1 DEF Job
  <2>2. n \in Nat /\ new = [i \in 1..n |-> new[i]]
    BY <1>2
  <2> HIDE DEF new, n
  <2>3. QED
    BY <2>1, <2>2
<1>5. jobs' = jobs \o new
  BY <1>3
<1>6. jobs \in Seq(Job)
  BY DEF TypeOK, StoreType
<1>7. /\ \A i \in 1..Len(new) : new[i].key \in req[q].got /\ new[i].status = "pending"
  BY <1>4
<1> HIDE DEF new, n
<1>8. /\ jobs' \in Seq(Job) /\ DOMAIN jobs \subseteq DOMAIN jobs'
      /\ \A i \in DOMAIN jobs : jobs'[i] = jobs[i]
  BY <1>4, <1>5, <1>6
<1>9. \A i \in DOMAIN jobs' \ DOMAIN jobs : i - Len(jobs) \in 1..Len(new) /\ jobs'[i] = new[i - Len(jobs)]
  BY <1>4, <1>5, <1>6
<1>10. QED
  BY <1>7, <1>8, <1>9 DEF Job

\* Jobs, objects and cleanup workers keep their types.
LEMMA TypeStore ==
  ASSUME TypeOK, [Next]_vars
  PROVE  StoreType'
<1>1. CASE UNCHANGED storeVars
  BY <1>1 DEF TypeOK, StoreType, storeVars
<1>2. ASSUME NEW q \in Requests, Enqueue(q) PROVE StoreType'
  <2>1. CASE UNCHANGED jobs
    BY <1>2, <2>1 DEF TypeOK, Enqueue, StoreType
  <2>2. CASE ~UNCHANGED jobs
    BY <1>2, <2>2, EnqueueJobs DEF TypeOK, Enqueue, StoreType
  <2>3. QED
    BY <2>1, <2>2
<1>3. ASSUME NEW q \in Requests, Upload(q) \/ RemoveObject(q) PROVE StoreType'
  <2>1. Home[req[q].story] \in Keys
    BY <1>3, Kinds, ContentAssumption DEF TypeOK, Upload, RemoveObject, Publish
  <2>2. QED
    BY <1>3, <2>1 DEF TypeOK, Upload, Uploaded, RemoveObject, StoreType
<1>4. CASE objects' \subseteq objects /\ UNCHANGED <<jobs, cleaner>>
  BY <1>4 DEF TypeOK, StoreType
<1>5. QED
  BY <1>1, <1>2, <1>3, <1>4, TypeClean, Writers DEF Clean

\* Whatever the handlers and the cleanup workers do in whatever order, rows,
\* requests, locks and jobs keep their types, no job takes a status the table
\* refuses, and no request keeps a lock after its transaction.
THEOREM TypeCorrect == Spec => []TypeOK
<1>1. Init => TypeOK
  BY TypeInit
<1>2. TypeOK /\ [Next]_vars => TypeOK'
  BY TypeStory, TypeRequest, TypeLock, TypeStore DEF TypeOK
<1>3. QED
  BY <1>1, <1>2, PTL DEF Spec

-----------------------------------------------------------------------------
(***************************************************************************)
(* Moderation.                                                             *)
(***************************************************************************)
\* A moderation in its transaction holds the report it has read, then the story
\* it has seen live.
ModerationHolds(q) ==
    LET x == req[q] IN
    /\ x.op = "disable" => report[x.report] # "none"
    /\ x.at \in {"story", "apply"} => lock[x.report] = q /\ report[x.report] = x.seen
    /\ x.at = "apply" => lock[ReportOn[x.report]] = q /\ Live(ReportOn[x.report])

\* A deletion in its transaction holds all that it is about to delete.
DeletionHolds(q) ==
    LET x == req[q] IN
    x.at = "cascade" => /\ x.op = "deletePOI" => lock[x.poi] = q
                        /\ x.op # "deletePOI" => lock[x.story] = q
                        /\ \A s \in Doomed(x) : lock[s] = q

LockInv == TypeOK /\ \A q \in Requests : ModerationHolds(q) /\ DeletionHolds(q)

Acts(q) == Start(q) \/ Step(q) \/ Fail(q)

\* Nobody takes a lock from another request.
LEMMA LockStays ==
  ASSUME TypeOK, NEW p \in Requests, NEW q \in Requests \ {p}, Acts(q),
         NEW x \in Rows, lock[x] = p
  PROVE  lock'[x] = p
BY LockStep, ContentAssumption DEF Acts, Release, Take, Locked

\* A locked point gains no story: who would move one there, or insert one, waits.
LEMMA NoStoryMovesIn ==
  ASSUME TypeOK, [Next]_vars, NEW p \in POIs, lock[p] # Free
  PROVE  At(p)' \subseteq At(p)
<1> USE DEF At, Live
<1>1. ASSUME NEW s \in Stories, NEW o, NEW k, NEW active, SetStory(s, o, k, active),
             o # p \/ s \in At(p)
      PROVE  At(p)' \subseteq At(p)
  BY <1>1 DEF SetStory, TypeOK, StoryType
<1>2. CASE UNCHANGED <<row, place>>
  BY <1>2
<1>3. ASSUME NEW q \in Requests, WriteStory(q) PROVE At(p)' \subseteq At(p)
  <2>1. req[q].story \in Stories
    BY <1>3, Kinds DEF TypeOK, WriteStory, Update
  <2>2. CASE SetStory(req[q].story, req[q].poi, req[q].key, req[q].active) /\ Live(req[q].story)
    <3>1. req[q].poi # p \/ place[req[q].story] = p
      BY <1>3 DEF WriteStory, Locked
    <3>2. QED
      BY <1>1, <2>1, <2>2, <3>1
  <2>3. QED
    BY <1>2, <1>3, <2>2 DEF WriteStory, storyVars
<1>4. ASSUME NEW q \in Requests, Link(q) PROVE At(p)' \subseteq At(p)
  <2>1. req[q].story \in Stories
    BY <1>4, Kinds DEF TypeOK, Link, Publish
  <2>2. CASE SetStory(req[q].story, req[q].poi, Home[req[q].story], TRUE) /\ Live(req[q].story)
    <3>1. req[q].poi # p \/ place[req[q].story] = p
      BY <1>4 DEF Link, Locked
    <3>2. QED
      BY <1>1, <2>1, <2>2, <3>1
  <2>3. QED
    BY <1>2, <1>4, <2>2 DEF Link, storyVars
<1>5. ASSUME NEW q \in Requests, Insert(q) PROVE At(p)' \subseteq At(p)
  <2>1. req[q].story \in Stories
    BY <1>5, Kinds DEF TypeOK, Insert, Publish
  <2>2. req[q].poi # p
    BY <1>5 DEF Insert, Locked
  <2>3. QED
    BY <1>1, <1>2, <1>5, <2>1, <2>2 DEF Insert, storyVars
<1>6. ASSUME NEW s \in Stories, CreateStory(s) PROVE At(p)' \subseteq At(p)
  <2>1. PICK o \in pois, k \in Typed, active \in BOOLEAN :
          ~Locked({o}) /\ SetStory(s, o, k, active)
    BY <1>6 DEF CreateStory
  <2>2. o # p
    BY <2>1 DEF Locked
  <2>3. QED
    BY <1>1, <2>1, <2>2
<1>7. ASSUME NEW q \in Requests, Cascade(q) PROVE At(p)' \subseteq At(p)
  BY <1>7 DEF Cascade, TypeOK, StoryType
<1>8. QED
  BY <1>2, <1>3, <1>4, <1>5, <1>6, <1>7, Writers

\* Nobody changes a report that another request has locked, or brings a report
\* back to where it was before it was made.
LEMMA ReportStays ==
  ASSUME LockInv, [Next]_vars, NEW r \in Reports, report[r] # "none"
  PROVE  /\ report'[r] # "none"
         /\ \A p \in Requests :
              lock[r] = p /\ ~Acts(p) => report'[r] = report[r]
<1> USE DEF LockInv
<1>1. ASSUME NEW q \in Requests, Cascade(q)
      PROVE  report'[r] # "none" /\ (lock[r] # Free => report'[r] = report[r])
  BY <1>1 DEF Cascade, Locked, TypeOK, StoryType, Rows
<1>2. ASSUME NEW q \in Requests, Apply(q)
      PROVE  report'[r] # "none" /\ (lock[r] # q => report'[r] = report[r])
  <2>1. req[q].report \in Reports /\ req[q].at = "apply"
    BY <1>2, Kinds DEF TypeOK, Apply, Disable
  <2>2. lock[req[q].report] = q
    BY <2>1 DEF ModerationHolds
  <2>3. QED
    BY <1>2, <2>1, <2>2 DEF Apply, TypeOK, StoryType
<1>3. ASSUME NEW o \in Reports, CreateReport(o) PROVE report'[r] = report[r]
  BY <1>3 DEF CreateReport, TypeOK, StoryType
<1>4. ASSUME NEW o \in Reports, UpdateReport(o)
      PROVE  report'[r] # "none" /\ (lock[r] # Free => report'[r] = report[r])
  BY <1>4 DEF UpdateReport, Locked, TypeOK, StoryType, Open, Rows
<1>5. \A p \in Requests : p # Free
  BY ContentAssumption
<1>6. QED
  BY <1>1, <1>2, <1>3, <1>4, <1>5, Writers DEF Acts, Step

\* Nobody deletes a story that another request has locked.
LEMMA LiveStays ==
  ASSUME LockInv, [Next]_vars, NEW s \in Stories, Live(s),
         NEW p \in Requests, lock[s] = p, ~Acts(p)
  PROVE  Live(s)'
<1> USE DEF LockInv, Live
<1>1. ASSUME NEW t, NEW o, NEW k, NEW active, SetStory(t, o, k, active) PROVE Live(s)'
  BY <1>1 DEF SetStory, TypeOK, StoryType
<1>2. CASE row' = row
  BY <1>2
<1>3. ASSUME NEW q \in Requests, Cascade(q) PROVE Live(s)'
  <2>1. q # p
    BY <1>3 DEF Acts, Step
  <2>2. s \notin Doomed(req[q])
    BY <1>3, <2>1 DEF DeletionHolds, Cascade
  <2>3. QED
    BY <1>3, <2>2 DEF Cascade, TypeOK, StoryType
<1>4. ASSUME NEW q \in Requests, WriteStory(q) \/ Insert(q) \/ Link(q) PROVE Live(s)'
  BY <1>1, <1>2, <1>4 DEF WriteStory, Insert, Link, storyVars
<1>5. ASSUME NEW t \in Stories, CreateStory(t) PROVE Live(s)'
  BY <1>1, <1>5 DEF CreateStory
<1>6. QED
  BY <1>2, <1>3, <1>4, <1>5, Writers

\* What a request holds stays held while others act.
LEMMA OthersKeepLockInv ==
  ASSUME LockInv, [Next]_vars, NEW p \in Requests, ~Acts(p), req'[p] = req[p],
         \A x \in Rows : lock[x] = p => lock'[x] = p
  PROVE  ModerationHolds(p)' /\ DeletionHolds(p)'
<1> DEFINE x == req[p]
<1> USE DEF LockInv
<1>1. ModerationHolds(p)'
  <2>1. CASE x.op # "disable"
    <3>1. x.at \notin {"story", "apply"}
      BY <2>1, Kinds DEF TypeOK, Disable
    <3>2. QED
      BY <2>1, <3>1 DEF ModerationHolds
  <2>2. CASE x.op = "disable"
    <3>1. x.report \in Reports /\ ReportOn[x.report] \in Stories
      BY <2>2, Kinds, ContentAssumption DEF TypeOK, Disable
    <3>2. /\ report'[x.report] # "none"
          /\ lock[x.report] = p => report'[x.report] = report[x.report]
      BY <2>2, <3>1, ReportStays DEF ModerationHolds
    <3>3. x.at = "apply" => Live(ReportOn[x.report])'
      BY <3>1, LiveStays DEF ModerationHolds
    <3>4. QED
      BY <2>2, <3>1, <3>2, <3>3 DEF ModerationHolds, Rows
  <2>3. QED
    BY <2>1, <2>2
<1>2. DeletionHolds(p)'
  <2> SUFFICES ASSUME x.at = "cascade" PROVE DeletionHolds(p)'
    BY DEF DeletionHolds
  <2>1. x \in DeleteStory \cup DeletePOI \cup Publish
    BY Kinds DEF TypeOK
  <2>2. CASE x.op = "deletePOI"
    <3>1. x.poi \in POIs /\ lock[x.poi] = p
      BY <2>2, Kinds DEF TypeOK, DeletePOI, DeletionHolds
    <3>2. At(x.poi)' \subseteq At(x.poi)
      BY <3>1, NoStoryMovesIn, ContentAssumption
    <3>3. \A s \in At(x.poi) : s \in Stories /\ lock[s] = p
      BY <2>2 DEF DeletionHolds, Doomed, At
    <3>4. Doomed(x)' = At(x.poi)'
      BY <2>2 DEF Doomed
    <3>5. QED
      BY <2>2, <3>1, <3>2, <3>3, <3>4 DEF DeletionHolds, Rows
  <2>3. CASE x.op # "deletePOI"
    <3>1. x.story \in Stories /\ lock[x.story] = p
      BY <2>1, <2>3 DEF DeleteStory, DeletePOI, Publish, DeletionHolds
    <3>2. Doomed(x)' \subseteq {x.story}
      BY <2>3 DEF Doomed
    <3>3. QED
      BY <2>3, <3>1, <3>2 DEF DeletionHolds, Rows
  <2>4. QED
    BY <2>2, <2>3
<1>3. QED
  BY <1>1, <1>2

\* What a request holds after a step of its own.
LEMMA OwnStepKeepsLockInv ==
  ASSUME LockInv, TypeOK', NEW p \in Requests, Acts(p)
  PROVE  ModerationHolds(p)' /\ DeletionHolds(p)'
<1> USE DEF LockInv
<1>1. ASSUME req'[p].op # "disable", req'[p].at # "cascade"
      PROVE  ModerationHolds(p)' /\ DeletionHolds(p)'
  <2>1. req'[p].at \notin {"story", "apply"}
    <3>1. req'[p] \in {Idle} \cup Update \cup DeleteStory \cup DeletePOI \cup Publish \cup Disable
      BY DEF TypeOK, RequestType
    <3>2. QED
      BY <1>1, <3>1 DEF Idle, Update, DeleteStory, DeletePOI, Publish, Disable
  <2>2. QED
    BY <1>1, <2>1 DEF ModerationHolds, DeletionHolds
<1>2. CASE Fail(p) \/ End(p)
  BY <1>1, <1>2 DEF Fail, End, TypeOK, RequestType, Idle
<1>3. CASE Start(p)
  <2>1. CASE StartDisable(p)
    BY <2>1 DEF StartDisable, Begin, TypeOK, RequestType, storyVars, ModerationHolds, DeletionHolds
  <2>2. CASE StartUpdate(p) \/ StartDeleteStory(p) \/ StartDeletePOI(p) \/ StartPublish(p)
    <3>1. ASSUME NEW x, Begin(p, x), x.op # "disable", x.at # "cascade"
          PROVE  req'[p].op # "disable" /\ req'[p].at # "cascade"
      BY <3>1 DEF Begin, TypeOK, RequestType
    <3>2. req'[p].op # "disable" /\ req'[p].at # "cascade"
      BY <2>2, <3>1 DEF StartUpdate, StartDeleteStory, StartDeletePOI, StartPublish
    <3>3. QED
      BY <1>1, <3>2
  <2>3. QED
    BY <1>3, <2>1, <2>2 DEF Start
<1>4. CASE ReadOld(p) \/ WriteStory(p) \/ Collect(p)
  <2>1. req[p] \in Update \cup DeleteStory \cup DeletePOI
    BY <1>4, Kinds DEF TypeOK, ReadOld, WriteStory, Collect
  <2>2. req'[p].op # "disable" /\ req'[p].at # "cascade"
    BY <1>4, <2>1 DEF ReadOld, WriteStory, Collect, Goto, End, TypeOK, RequestType, Idle,
                      Update, DeleteStory, DeletePOI
  <2>3. QED
    BY <1>1, <2>2
<1>5. CASE Insert(p) \/ Upload(p) \/ Link(p) \/ RemoveObject(p)
  <2>1. req[p] \in Publish
    BY <1>5, Kinds DEF TypeOK, Insert, Upload, Link, RemoveObject
  <2>2. ASSUME NEW l \in {"upload", "link", "rmobject", "delete"}, Goto(p, l)
        PROVE  req'[p].op # "disable" /\ req'[p].at # "cascade"
    BY <2>1, <2>2 DEF Goto, TypeOK, RequestType, Publish
  <2>3. QED
    BY <1>1, <1>2, <1>5, <2>2 DEF Insert, Upload, Link, RemoveObject
<1>6. CASE Cascade(p)
  <2>1. req[p] \in DeleteStory \cup DeletePOI \cup Publish
    BY <1>6, Kinds DEF TypeOK, Cascade
  <2>2. req'[p].op # "disable" /\ req'[p].at # "cascade"
    BY <1>6, <2>1 DEF Cascade, Goto, End, TypeOK, RequestType, Idle, DeleteStory, DeletePOI, Publish
  <2>3. QED
    BY <1>1, <2>2
<1>7. CASE LockDoomed(p)
  <2> DEFINE x == req[p]
             target == IF x.op = "deletePOI" THEN {x.poi} ELSE {}
             S == target \cup Doomed(x)
  <2>1. x \in DeleteStory \cup DeletePOI \cup Publish
    BY <1>7, Kinds DEF TypeOK, LockDoomed
  <2>2. CASE S # {} /\ Take(p, S) /\ Goto(p, "cascade")
    <3>1. /\ req'[p].at = "cascade" /\ req'[p].op = x.op
          /\ x.op = "deletePOI" => x \in DeletePOI /\ req'[p].poi = x.poi
          /\ x.op # "deletePOI" => x \in DeleteStory \cup Publish /\ req'[p].story = x.story
      BY <2>1, <2>2 DEF Goto, TypeOK, RequestType, DeleteStory, DeletePOI, Publish
    <3>2. row' = row /\ place' = place
      BY <1>7 DEF LockDoomed, storyVars
    <3>3. Doomed(req[p])' = Doomed(x)
      BY <3>1, <3>2 DEF Doomed, At, Live
    <3>4. \A y \in S \cap Rows : lock'[y] = p
      BY <2>2 DEF Take
    <3>5. Doomed(x) \subseteq S \cap Rows
      BY DoomedType DEF Rows
    <3>6. CASE x.op = "deletePOI"
      <4>1. x.poi \in S \cap Rows
        BY <3>1, <3>6 DEF DeletePOI, Rows
      <4>2. QED
        BY <3>1, <3>3, <3>4, <3>5, <3>6, <4>1 DEF DeletionHolds, ModerationHolds
    <3>7. CASE x.op # "deletePOI"
      <4>1. x.story \in Doomed(x)
        BY <2>2, <3>7 DEF Doomed
      <4>2. x.op # "disable"
        BY <2>1 DEF DeleteStory, DeletePOI, Publish
      <4>3. QED
        BY <3>1, <3>3, <3>4, <3>5, <3>7, <4>1, <4>2 DEF DeletionHolds, ModerationHolds
    <3>8. QED
      BY <3>6, <3>7
  <2>3. QED
    BY <1>2, <1>7, <2>2 DEF LockDoomed
<1>8. CASE ReadReport(p)
  <2>1. req[p] \in Disable
    BY <1>8, Kinds DEF TypeOK, ReadReport
  <2>2. CASE /\ ForUpdate(p, req[p].report)
             /\ req' = [req EXCEPT ![p].at = "story", ![p].seen = report[req[p].report]]
    <3>1. /\ req'[p].at = "story" /\ req'[p].report = req[p].report
          /\ req'[p].seen = report[req[p].report]
      BY <2>1, <2>2 DEF TypeOK, RequestType, Disable
    <3>2. lock'[req[p].report] = p /\ report' = report /\ report[req[p].report] # "none"
      BY <1>8, <2>1, <2>2 DEF ReadReport, ForUpdate, Take, Rows, Disable, storyVars, ModerationHolds
    <3>3. QED
      BY <3>1, <3>2 DEF ModerationHolds, DeletionHolds
  <2>3. QED
    BY <1>2, <1>8, <2>2 DEF ReadReport
<1>9. CASE ReadStory(p)
  <2>1. req[p] \in Disable /\ req[p].at = "story"
    BY <1>9, Kinds DEF TypeOK, ReadStory
  <2>2. CASE /\ Live(ReportOn[req[p].report]) /\ ForUpdate(p, ReportOn[req[p].report])
             /\ Goto(p, "apply")
    <3>1. /\ req'[p].at = "apply" /\ req'[p].report = req[p].report /\ req'[p].seen = req[p].seen
      BY <2>1, <2>2 DEF Goto, TypeOK, RequestType, Disable
    <3>2. req[p].report \in Rows /\ ReportOn[req[p].report] \in Rows
      BY <2>1, ContentAssumption DEF Disable, Rows
    <3>3. lock'[req[p].report] = p /\ lock'[ReportOn[req[p].report]] = p
      BY <2>1, <2>2, <3>2 DEF ForUpdate, Take, ModerationHolds
    <3>4. UNCHANGED <<row, report>>
      BY <1>9 DEF ReadStory, storyVars
    <3>5. report[req[p].report] = req[p].seen /\ report[req[p].report] # "none"
      BY <2>1 DEF ModerationHolds, Disable
    <3>6. QED
      BY <2>2, <3>1, <3>3, <3>4, <3>5 DEF ModerationHolds, DeletionHolds, Live
  <2>3. QED
    BY <1>2, <1>9, <2>2 DEF ReadStory
<1>10. CASE Deadlock(p)
  <2>1. CASE /\ req[p].op = "disable"
             /\ req' = [req EXCEPT ![p].at = "report", ![p].again = FALSE]
    <3>1. req[p] \in Disable
      BY <2>1, Kinds DEF TypeOK
    <3>2. req'[p].at = "report" /\ req'[p].report = req[p].report
      BY <2>1, <3>1 DEF TypeOK, RequestType, Disable
    <3>3. report' = report /\ report[req[p].report] # "none"
      BY <1>10, <2>1 DEF Deadlock, storyVars, ModerationHolds
    <3>4. QED
      BY <3>2, <3>3 DEF ModerationHolds, DeletionHolds
  <2>2. QED
    BY <1>2, <1>10, <2>1 DEF Deadlock
<1>11. CASE Enqueue(p) \/ Apply(p)
  BY <1>2, <1>11 DEF Enqueue, Apply
<1>12. QED
  BY <1>2, <1>3, <1>4, <1>5, <1>6, <1>7, <1>8, <1>9, <1>10, <1>11 DEF Acts, Step

\* The locks hold what they are to hold.
LEMMA LockInvariant == Spec => []LockInv
<1>1. Init => LockInv
  <2> SUFFICES ASSUME Init, NEW q \in Requests PROVE ModerationHolds(q) /\ DeletionHolds(q)
    BY TypeInit DEF LockInv
  <2>1. req[q].op = "none" /\ req[q].at = "idle"
    BY DEF Init, Idle
  <2>2. QED
    BY <2>1 DEF ModerationHolds, DeletionHolds
<1>2. LockInv /\ [Next]_vars => LockInv'
  <2> SUFFICES ASSUME LockInv, [Next]_vars PROVE LockInv'
    OBVIOUS
  <2>1. TypeOK'
    BY TypeStory, TypeRequest, TypeLock, TypeStore DEF TypeOK, LockInv
  <2>2. ASSUME NEW p \in Requests PROVE ModerationHolds(p)' /\ DeletionHolds(p)'
    <3>1. CASE Acts(p)
      BY <2>1, <3>1, OwnStepKeepsLockInv
    <3>2. CASE ~Acts(p)
      <4>1. req'[p] = req[p] /\ \A x \in Rows : lock[x] = p => lock'[x] = p
        <5>1. CASE \E q \in Requests : Acts(q)
          BY <3>2, <5>1, OthersStay, LockStays DEF LockInv, TypeOK, Acts
        <5>2. CASE ~\E q \in Requests : Acts(q)
          BY <5>2, RequestsStay DEF Next, Acts
        <5>3. QED
          BY <5>1, <5>2
      <4>2. QED
        BY <3>2, <4>1, OthersKeepLockInv
    <3>3. QED
      BY <3>1, <3>2
  <2>3. QED
    BY <2>1, <2>2 DEF LockInv
<1>3. QED
  BY <1>1, <1>2, PTL DEF Spec

\* Whatever deletions, updates and other moderations run at the same time, a
\* moderation changes only a report that is still open and a story that is
\* still there, and always both.
THEOREM ModerationIsSound == Spec => ModerationSound
<1>1. LockInv /\ [Next]_vars =>
        [\A q \in Requests :
           LET r == req[q].report IN
           req[q].at = "apply" /\ ~Busy(q)' /\ <<shown, report>>' # <<shown, report>> =>
             /\ report[r] \in Open /\ Live(ReportOn[r])
             /\ report'[r] = "resolved" /\ ~shown'[ReportOn[r]]]_vars
  <2> SUFFICES ASSUME LockInv, [Next]_vars, NEW q \in Requests, req[q].at = "apply", ~Busy(q)',
                      <<shown, report>>' # <<shown, report>>
               PROVE  LET r == req[q].report IN
                      /\ report[r] \in Open /\ Live(ReportOn[r])
                      /\ report'[r] = "resolved" /\ ~shown'[ReportOn[r]]
    OBVIOUS
  <2>1. Apply(q)
    <3>1. Acts(q)
      <4>1. req'[q] # req[q]
        BY DEF Busy
      <4>2. QED
        BY <4>1, OthersStay, RequestsStay DEF LockInv, TypeOK, Next, Acts
    <3>2. ~Start(q)
      BY DEF Start, StartUpdate, StartDeleteStory, StartDeletePOI, StartPublish, StartDisable,
             Begin, Busy
    <3>3. ~Fail(q)
      BY DEF Fail, storyVars
    <3>4. ~Deadlock(q)
      BY DEF Deadlock, storyVars
    <3>5. QED
      BY <3>1, <3>2, <3>3, <3>4 DEF Acts, Step, ReadOld, WriteStory, Collect, LockDoomed, Cascade,
         Enqueue, Insert, Upload, Link, RemoveObject, ReadReport, ReadStory
  <2>2. req[q] \in Disable
    BY Kinds DEF LockInv, TypeOK
  <2>3. req[q].report \in Reports /\ ReportOn[req[q].report] \in Stories
    BY <2>2, ContentAssumption DEF Disable
  <2>4. report[req[q].report] = req[q].seen /\ Live(ReportOn[req[q].report])
    BY DEF LockInv, ModerationHolds
  <2>5. QED
    BY <2>1, <2>3, <2>4 DEF Apply, LockInv, TypeOK, StoryType
<1>2. QED
  BY <1>1, LockInvariant, PTL DEF Spec, ModerationSound

-----------------------------------------------------------------------------
(***************************************************************************)
(* Cleanup.                                                                *)
(***************************************************************************)
\* Before its upload nobody has met the address of a story.
Unborn(s) == \/ row[s] = "none"
             \/ \E q \in Requests : /\ req[q].op = "publish" /\ req[q].story = s
                                    /\ req[q].at \in {"insert", "upload"}

\* The addresses a request, and anything at all, has met.
KnownTo(q) == (IF req[q].op = "update" THEN {req[q].key} ELSE {})
              \cup (IF req[q].op \in {"none", "disable"} THEN {} ELSE req[q].got)
Known == objects \cup {key[s] : s \in Stories} \cup {jobs[i].key : i \in DOMAIN jobs}
         \cup UNION {KnownTo(q) : q \in Requests}

\* A story is published once.
PublishedOnce ==
    \A q \in Requests : req[q].op = "publish" =>
      /\ req[q].at # "insert" => row[req[q].story] # "none"
      /\ \A p \in Requests \ {q} : req[p].op = "publish" => req[p].story # req[q].story

\* What a worker is about to mark completed is gone.
SeenGone ==
    \A w \in Cleaners :
      cleaner[w].at = "mark" =>
        /\ cleaner[w].job \in DOMAIN jobs
        /\ cleaner[w].result = "completed" => jobs[cleaner[w].job].key \notin objects

CleanInv ==
    /\ TypeOK /\ PublishedOnce /\ SeenGone /\ CompletedMeansGone
    /\ \A s \in Stories : Unborn(s) => Home[s] \notin Known

\* Rows keep existing, or having existed.
LEMMA RowsRemain ==
  ASSUME TypeOK, [Next]_vars, NEW s \in Stories, row[s] # "none"
  PROVE  row'[s] # "none"
<1>1. ASSUME NEW t, NEW o, NEW k, NEW active, SetStory(t, o, k, active) PROVE row'[s] # "none"
  BY <1>1 DEF SetStory, TypeOK, StoryType
<1>2. CASE row' = row
  BY <1>2
<1>3. ASSUME NEW q \in Requests, Cascade(q) PROVE row'[s] # "none"
  BY <1>3 DEF Cascade, TypeOK, StoryType
<1>4. ASSUME NEW q \in Requests, WriteStory(q) \/ Insert(q) \/ Link(q) PROVE row'[s] # "none"
  BY <1>1, <1>2, <1>4 DEF WriteStory, Insert, Link, storyVars
<1>5. ASSUME NEW t \in Stories, CreateStory(t) PROVE row'[s] # "none"
  BY <1>1, <1>5 DEF CreateStory
<1>6. QED
  BY <1>2, <1>3, <1>4, <1>5, Writers

\* A row that is not there yet appears by an insertion only.
LEMMA RowsAppear ==
  ASSUME TypeOK, [Next]_vars, NEW q \in Requests, Acts(q), NEW s \in Stories,
         row[s] = "none", row'[s] # "none"
  PROVE  Insert(q) /\ req[q].story = s
<1>1. ASSUME NEW t, NEW o, NEW k, NEW active, SetStory(t, o, k, active) PROVE t = s
  BY <1>1 DEF SetStory, TypeOK, StoryType
<1>2. ~Cascade(q)
  BY DoomedType DEF Cascade, Doomed, At, Live, TypeOK, StoryType
<1>3. ~WriteStory(q) /\ ~Link(q)
  BY <1>1 DEF WriteStory, Link, Live, storyVars
<1>4. row' # row
  OBVIOUS
<1>5. Insert(q)
  BY <1>2, <1>3, <1>4 DEF Acts, Step, ReadOld, Collect, LockDoomed, Enqueue, Upload, RemoveObject,
     ReadReport, ReadStory, Apply, Deadlock, Start, StartUpdate, StartDeleteStory, StartDeletePOI,
     StartPublish, StartDisable, Begin, Fail, storyVars
<1>6. QED
  BY <1>1, <1>4, <1>5 DEF Insert, storyVars

\* How a request becomes, or goes on, publishing.
LEMMA PublishStep ==
  ASSUME TypeOK, NEW q \in Requests, Acts(q), req'[q].op = "publish"
  PROVE  \/ /\ row[req'[q].story] = "none" /\ req'[q].at = "insert"
            /\ \A p \in Requests : req[p].op = "publish" => req[p].story # req'[q].story
         \/ /\ req[q].op = "publish" /\ req'[q].story = req[q].story
            /\ \/ Insert(q) /\ req'[q].at = "upload" /\ row'[req[q].story] = "live"
               \/ req[q].at # "insert" /\ req'[q].at \notin {"insert", "upload"}
<1>1. CASE Start(q)
  <2>1. ASSUME NEW x, Begin(q, x) PROVE req'[q] = x
    BY <2>1 DEF Begin, TypeOK, RequestType
  <2>2. ~StartUpdate(q) /\ ~StartDeleteStory(q) /\ ~StartDeletePOI(q) /\ ~StartDisable(q)
    <3>1. ASSUME NEW x, Begin(q, x) PROVE x.op = "publish"
      BY <2>1, <3>1
    <3>2. ASSUME StartUpdate(q) PROVE FALSE
      <4>1. PICK s \in Stories, p \in POIs, active \in BOOLEAN : \E k :
              Begin(q, [op |-> "update", at |-> "read", story |-> s, poi |-> p,
                        key |-> k, active |-> active, got |-> {}])
        BY <3>2 DEF StartUpdate
      <4>2. QED
        BY <3>1, <4>1
    <3>3. ASSUME StartDeleteStory(q) PROVE FALSE
      <4>1. PICK s \in Stories :
              Begin(q, [op |-> "deleteStory", at |-> "collect", story |-> s, got |-> {}])
        BY <3>3 DEF StartDeleteStory
      <4>2. QED
        BY <3>1, <4>1
    <3>4. ASSUME StartDeletePOI(q) PROVE FALSE
      <4>1. PICK p \in pois :
              Begin(q, [op |-> "deletePOI", at |-> "collect", poi |-> p, got |-> {}])
        BY <3>4 DEF StartDeletePOI
      <4>2. QED
        BY <3>1, <4>1
    <3>5. ASSUME StartDisable(q) PROVE FALSE
      <4>1. PICK r \in Reports :
              Begin(q, [op |-> "disable", at |-> "report", report |-> r,
                        seen |-> report[r], again |-> TRUE])
        BY <3>5 DEF StartDisable
      <4>2. QED
        BY <3>1, <4>1
    <3>6. QED
      BY <3>2, <3>3, <3>4, <3>5
  <2>3. PICK s \in Stories, p \in POIs :
          /\ row[s] = "none" /\ \A o \in Requests : req[o].op = "publish" => req[o].story # s
          /\ Begin(q, [op |-> "publish", at |-> "insert", story |-> s, poi |-> p, got |-> {}])
    BY <1>1, <2>2 DEF Start, StartPublish
  <2>4. req'[q] = [op |-> "publish", at |-> "insert", story |-> s, poi |-> p, got |-> {}]
    BY <2>1, <2>3
  <2>5. QED
    BY <2>3, <2>4
<1>2. CASE End(q) \/ Fail(q)
  BY <1>2 DEF End, Fail, Idle, TypeOK, RequestType
<1>3. ASSUME NEW l, Goto(q, l) PROVE req'[q].at = l /\ req'[q].op = req[q].op /\ (req[q] \in Publish => req'[q].story = req[q].story)
  BY <1>3 DEF Goto, TypeOK, RequestType, Idle, Update, DeleteStory, DeletePOI, Publish, Disable
<1>4. CASE Insert(q)
  <2>1. req[q] \in Publish
    BY <1>4, Kinds DEF TypeOK, Insert
  <2>2. CASE SetStory(req[q].story, req[q].poi, NoKey, TRUE) /\ Goto(q, "upload")
    <3>1. req[q].story \in Stories
      BY <2>1 DEF Publish
    <3>2. row'[req[q].story] = "live"
      BY <2>2, <3>1 DEF SetStory, TypeOK, StoryType
    <3>3. QED
      BY <1>3, <1>4, <2>1, <2>2, <3>2 DEF Publish
  <2>3. QED
    BY <1>2, <1>4, <2>2 DEF Insert
<1>5. CASE Upload(q) \/ Link(q) \/ RemoveObject(q)
  <2>1. req[q] \in Publish
    BY <1>5, Kinds DEF TypeOK, Upload, Link, RemoveObject
  <2>2. End(q) \/ \E l \in {"link", "delete", "rmobject"} : Goto(q, l)
    BY <1>5 DEF Upload, Link, RemoveObject
  <2>3. req[q].op = "publish" /\ req[q].at # "insert"
    BY <1>5, <2>1 DEF Upload, Link, RemoveObject, Publish
  <2>4. QED
    BY <1>2, <1>3, <2>1, <2>2, <2>3
<1>6. CASE LockDoomed(q) \/ Cascade(q)
  <2>1. req[q] \in DeleteStory \cup DeletePOI \cup Publish
    BY <1>6, Kinds DEF TypeOK, LockDoomed, Cascade
  <2>2. \E l \in {"cascade", "enqueue"} : Goto(q, l) \/ End(q)
    BY <1>6 DEF LockDoomed, Cascade
  <2>3. QED
    BY <1>2, <1>3, <1>6, <2>1, <2>2 DEF LockDoomed, Cascade, DeleteStory, DeletePOI
<1>7. CASE ReadOld(q) \/ WriteStory(q)
  <2>1. req[q] \in Update
    BY <1>7, Kinds DEF TypeOK, ReadOld, WriteStory
  <2>2. req'[q].op # "publish"
    BY <1>7, <2>1, <1>2 DEF ReadOld, WriteStory, Goto, End, Update, TypeOK, RequestType, Idle
  <2>3. QED
    BY <2>2
<1>8. CASE Collect(q)
  <2>1. req[q] \in DeleteStory \cup DeletePOI
    BY <1>8, Kinds DEF TypeOK, Collect
  <2>2. req'[q].op # "publish"
    BY <1>8, <2>1 DEF Collect, Goto, DeleteStory, DeletePOI, TypeOK, RequestType
  <2>3. QED
    BY <2>2
<1>9. CASE ReadReport(q) \/ ReadStory(q) \/ Deadlock(q)
  <2>1. req[q].op = "publish" => Deadlock(q) /\ End(q)
    BY <1>9, Kinds DEF TypeOK, ReadReport, ReadStory, Deadlock, Disable
  <2>2. req[q] \in Disable /\ ~End(q) => req'[q].op # "publish"
    BY <1>9 DEF ReadReport, ReadStory, Deadlock, Goto, Disable, TypeOK, RequestType
  <2>3. ~End(q) => req[q] \in Disable
    BY <1>9, Kinds DEF TypeOK, ReadReport, ReadStory, Deadlock
  <2>4. QED
    BY <1>2, <2>1, <2>2, <2>3
<1>10. CASE Enqueue(q) \/ Apply(q)
  BY <1>2, <1>10 DEF Enqueue, Apply
<1>11. QED
  BY <1>1, <1>2, <1>4, <1>5, <1>6, <1>7, <1>8, <1>9, <1>10 DEF Acts, Step

\* Where an address may turn up that nobody had met.
Publishes(k) == \E q \in Requests : (Upload(q) \/ Link(q)) /\ Home[req[q].story] = k

\* Not in the store.
LEMMA StoreLearns ==
  ASSUME TypeOK, [Next]_vars, NEW k \in Keys \ Known, ~Publishes(k)
  PROVE  k \notin objects'
<1>1. k \notin objects
  BY DEF Known
<1>2. ASSUME NEW q \in Requests, Upload(q) PROVE k \notin objects'
  BY <1>1, <1>2 DEF Upload, Uploaded, Publishes
<1>3. QED
  BY <1>1, <1>2, Writers

\* Not in a row: what is written was typed in, kept, or just uploaded.
LEMMA RowsLearn ==
  ASSUME TypeOK, [Next]_vars, NEW k \in Keys \ Known, ~Publishes(k), NEW s \in Stories
  PROVE  key'[s] # k
<1>1. key[s] # k /\ k # NoKey
  BY ContentAssumption DEF Known
<1>2. ASSUME NEW t, NEW o, NEW a, NEW active, SetStory(t, o, a, active), a # k PROVE key'[s] # k
  BY <1>1, <1>2 DEF SetStory, TypeOK, StoryType
<1>3. ASSUME NEW q \in Requests, WriteStory(q) PROVE key'[s] # k
  <2>1. req[q].op = "update" /\ req[q].key # k
    BY <1>3 DEF WriteStory, Known, KnownTo
  <2>2. QED
    BY <1>1, <1>2, <1>3, <2>1 DEF WriteStory, storyVars
<1>4. ASSUME NEW q \in Requests, Insert(q) PROVE key'[s] # k
  BY <1>1, <1>2, <1>4 DEF Insert, storyVars
<1>5. ASSUME NEW q \in Requests, Link(q) PROVE key'[s] # k
  <2>1. Home[req[q].story] # k
    BY <1>5 DEF Publishes
  <2>2. QED
    BY <1>1, <1>2, <1>5, <2>1 DEF Link, storyVars
<1>6. ASSUME NEW t \in Stories, CreateStory(t) PROVE key'[s] # k
  <2>1. PICK p \in pois, a \in Typed, active \in BOOLEAN : SetStory(t, p, a, active)
    BY <1>6 DEF CreateStory
  <2>2. a # k
    BY <1>1 DEF Typed, Known
  <2>3. QED
    BY <1>2, <2>1, <2>2
<1>7. ASSUME NEW q \in Requests, Cascade(q) PROVE key' = key
  BY <1>7 DEF Cascade
<1>8. QED
  BY <1>1, <1>3, <1>4, <1>5, <1>6, <1>7, Writers

\* Not in a job: what is scheduled a request had collected.
LEMMA JobsLearn ==
  ASSUME TypeOK, [Next]_vars, NEW k \in Keys \ Known, NEW i \in DOMAIN jobs'
  PROVE  jobs'[i].key # k
<1> USE DEF TypeOK
<1>1. \A j \in DOMAIN jobs : jobs[j] \in Job /\ jobs[j].key # k
  BY DEF StoreType, Known
<1>2. CASE jobs' = jobs
  BY <1>1, <1>2
<1>3. ASSUME NEW q \in Requests, Enqueue(q) PROVE jobs'[i].key # k
  <2>1. k \notin req[q].got
    <3>1. req[q] \in Update \cup DeleteStory \cup DeletePOI
      BY <1>3, Kinds DEF Enqueue
    <3>2. req[q].op \notin {"none", "disable"}
      BY <3>1 DEF Update, DeleteStory, DeletePOI
    <3>3. QED
      BY <3>2 DEF Known, KnownTo
  <2>2. QED
    BY <1>1, <1>2, <1>3, <2>1, EnqueueJobs
<1>4. ASSUME NEW w \in Cleaners, Clean(w) \/ Die(w) PROVE jobs'[i].key # k
  <2>1. CASE Claim(w)
    BY <1>1, <2>1 DEF Claim, Claimed, Job
  <2>2. CASE Erase(w) \/ Die(w)
    BY <1>2, <2>2 DEF Erase, Die
  <2>3. CASE Mark(w)
    <3>1. CASE jobs' = [jobs EXCEPT ![cleaner[w].job].status = cleaner[w].result]
      BY <1>1, <3>1 DEF Job
    <3>2. QED
      BY <1>2, <2>3, <3>1 DEF Mark
  <2>4. CASE Reclaim(w)
    BY <1>1, <2>4 DEF Reclaim, Job
  <2>5. QED
    BY <1>4, <2>1, <2>2, <2>3, <2>4 DEF Clean
<1>5. QED
  BY <1>2, <1>3, <1>4, Writers DEF Clean

\* Not in a request: what it collects was in a row, what it is given was
\* typed in.
LEMMA RequestsLearn ==
  ASSUME TypeOK, [Next]_vars, NEW k \in Keys \ Known, NEW q \in Requests
  PROVE  k \notin KnownTo(q)'
<1> USE DEF TypeOK
<1>1. k \notin KnownTo(q) /\ k # NoKey
  BY ContentAssumption DEF Known
<1>2. CASE req'[q] = req[q]
  BY <1>1, <1>2 DEF KnownTo
<1>3. CASE End(q)
  BY <1>3 DEF End, KnownTo, Idle, RequestType
<1>4. ASSUME NEW l, Goto(q, l) PROVE k \notin KnownTo(q)'
  BY <1>1, <1>4 DEF Goto, KnownTo, RequestType, Idle, Update, DeleteStory, DeletePOI, Publish, Disable
<1>5. \A S \in SUBSET Stories : k \notin KeysOf(S)
  BY DEF KeysOf, Known
<1>6. CASE Start(q)
  <2>1. ASSUME NEW x, Begin(q, x) PROVE req'[q] = x
    BY <2>1 DEF Begin, RequestType
  <2>2. CASE StartUpdate(q)
    <3>1. PICK s \in Stories, p \in POIs, active \in BOOLEAN :
            \E a \in Typed \cup KeysOf({s}) :
              Begin(q, [op |-> "update", at |-> "read", story |-> s, poi |-> p,
                        key |-> a, active |-> active, got |-> {}])
      BY <2>2 DEF StartUpdate
    <3>2. PICK a \in Typed \cup KeysOf({s}) :
            req'[q] = [op |-> "update", at |-> "read", story |-> s, poi |-> p,
                       key |-> a, active |-> active, got |-> {}]
      BY <2>1, <3>1
    <3>3. a # k
      BY <1>1, <1>5 DEF Typed, Known
    <3>4. QED
      BY <3>2, <3>3 DEF KnownTo
  <2>3. CASE StartDeleteStory(q)
    <3>1. PICK s \in Stories :
            Begin(q, [op |-> "deleteStory", at |-> "collect", story |-> s, got |-> {}])
      BY <2>3 DEF StartDeleteStory
    <3>2. QED
      BY <2>1, <3>1 DEF KnownTo
  <2>4. CASE StartDeletePOI(q)
    <3>1. PICK p \in pois :
            Begin(q, [op |-> "deletePOI", at |-> "collect", poi |-> p, got |-> {}])
      BY <2>4 DEF StartDeletePOI
    <3>2. QED
      BY <2>1, <3>1 DEF KnownTo
  <2>5. CASE StartPublish(q)
    <3>1. PICK s \in Stories, p \in POIs :
            Begin(q, [op |-> "publish", at |-> "insert", story |-> s, poi |-> p, got |-> {}])
      BY <2>5 DEF StartPublish
    <3>2. QED
      BY <2>1, <3>1 DEF KnownTo
  <2>6. CASE StartDisable(q)
    <3>1. PICK r \in Reports :
            Begin(q, [op |-> "disable", at |-> "report", report |-> r,
                      seen |-> report[r], again |-> TRUE])
      BY <2>6 DEF StartDisable
    <3>2. QED
      BY <2>1, <3>1 DEF KnownTo
  <2>7. QED
    BY <1>6, <2>2, <2>3, <2>4, <2>5, <2>6 DEF Start
<1>7. CASE ReadOld(q)
  <2>1. req[q] \in Update
    BY <1>7, Kinds DEF ReadOld
  <2>2. CASE req' = [req EXCEPT ![q].at = "write",
                                ![q].got = IF Live(req[q].story) THEN KeysOf({req[q].story}) ELSE {}]
    <3>1. k \notin KeysOf({req[q].story})
      BY <1>5, <2>1 DEF Update
    <3>2. /\ req'[q].op = "update" /\ req'[q].key = req[q].key
          /\ req'[q].got \subseteq KeysOf({req[q].story})
      BY <2>1, <2>2 DEF Update, RequestType
    <3>3. req[q].key # k
      BY <1>1, <2>1 DEF KnownTo, Update
    <3>4. QED
      BY <3>1, <3>2, <3>3 DEF KnownTo
  <2>3. QED
    BY <1>4, <1>7, <2>2 DEF ReadOld
<1>8. CASE WriteStory(q)
  <2>1. req[q] \in Update
    BY <1>8, Kinds DEF WriteStory
  <2>2. CASE req' = [req EXCEPT ![q].at = "enqueue", ![q].got = Dropped(req[q])]
    <3>1. /\ req'[q].op = "update" /\ req'[q].key = req[q].key
          /\ req'[q].got \subseteq req[q].got
      BY <2>1, <2>2 DEF Update, RequestType, Dropped
    <3>2. req[q].key # k /\ k \notin req[q].got
      BY <1>1, <2>1 DEF KnownTo, Update
    <3>3. QED
      BY <3>1, <3>2 DEF KnownTo
  <2>3. QED
    BY <1>2, <1>3, <1>8, <2>2 DEF WriteStory
<1>9. CASE Collect(q)
  <2>1. req[q] \in DeleteStory \cup DeletePOI
    BY <1>9, Kinds DEF Collect
  <2>2. CASE req' = [req EXCEPT ![q].at = "delete", ![q].got = KeysOf(Doomed(req[q]))]
    <3>1. k \notin KeysOf(Doomed(req[q]))
      BY <1>5, DoomedType
    <3>2. req'[q].op # "update" /\ req'[q].got = KeysOf(Doomed(req[q]))
      BY <2>1, <2>2 DEF DeleteStory, DeletePOI, RequestType
    <3>3. QED
      BY <3>1, <3>2 DEF KnownTo
  <2>3. QED
    BY <1>4, <1>9, <2>2 DEF Collect
<1>10. CASE ReadReport(q) \/ Deadlock(q)
  <2>1. CASE End(q)
    BY <1>3, <2>1
  <2>2. CASE ~End(q)
    <3>1. req[q] \in Disable
      BY <1>10, <2>2, Kinds DEF ReadReport, Deadlock
    <3>2. req'[q].op = "disable"
      BY <1>10, <2>2, <3>1 DEF ReadReport, Deadlock, Disable, RequestType
    <3>3. QED
      BY <3>2 DEF KnownTo
  <2>3. QED
    BY <2>1, <2>2
<1>11. CASE \/ LockDoomed(q) \/ Cascade(q) \/ Enqueue(q) \/ Insert(q) \/ Upload(q) \/ Link(q)
            \/ RemoveObject(q) \/ ReadStory(q) \/ Apply(q) \/ Fail(q)
  BY <1>3, <1>4, <1>11 DEF LockDoomed, Cascade, Enqueue, Insert, Upload, Link, RemoveObject,
     ReadStory, Apply, Fail
<1>12. CASE Acts(q)
  BY <1>6, <1>7, <1>8, <1>9, <1>10, <1>11, <1>12 DEF Acts, Step
<1>13. CASE ~Acts(q)
  <2>1. CASE \E p \in Requests : Acts(p)
    BY <1>2, <1>13, <2>1, OthersStay DEF Acts
  <2>2. CASE ~\E p \in Requests : Acts(p)
    BY <1>2, <2>2, RequestsStay DEF Next, Acts
  <2>3. QED
    BY <2>1, <2>2
<1>14. QED
  BY <1>12, <1>13

\* Nobody meets an address before its upload.
LEMMA NothingLearned ==
  ASSUME TypeOK, [Next]_vars, NEW k \in Keys \ Known, ~Publishes(k)
  PROVE  k \notin Known'
BY StoreLearns, RowsLearn, JobsLearn, RequestsLearn DEF Known

\* A story that is to be published stays unborn until its upload, and no story
\* becomes unborn again.
LEMMA UnbornStep ==
  ASSUME TypeOK, PublishedOnce, [Next]_vars, NEW s \in Stories, Unborn(s)'
  PROVE  Unborn(s) /\ ~Publishes(Home[s])
<1>1. Unborn(s)
  <2>1. CASE row'[s] = "none"
    BY <2>1, RowsRemain DEF Unborn
  <2>2. ASSUME NEW q \in Requests, req'[q].op = "publish", req'[q].story = s,
               req'[q].at \in {"insert", "upload"}
        PROVE  Unborn(s)
    <3>1. CASE req'[q] = req[q]
      BY <2>2, <3>1 DEF Unborn
    <3>2. CASE Acts(q)
      <4>1. CASE Insert(q) /\ req[q].story = s
        <5>1. req[q] \in Publish /\ req[q].at = "insert"
          BY <4>1, Kinds DEF TypeOK, Insert
        <5>2. QED
          BY <4>1, <5>1 DEF Unborn, Publish
      <4>2. QED
        BY <2>2, <3>2, <4>1, PublishStep DEF Unborn
    <3>3. CASE ~Acts(q)
      BY <3>1, <3>3, OthersStay, RequestsStay DEF Next, Acts, TypeOK
    <3>4. QED
      BY <3>2, <3>3
  <2>3. QED
    BY <2>1, <2>2 DEF Unborn
<1>2. ASSUME NEW q \in Requests, Upload(q) \/ Link(q), Home[req[q].story] = Home[s] PROVE FALSE
  <2>1. req[q] \in Publish /\ req[q].at \in {"upload", "link"}
    BY <1>2, Kinds DEF TypeOK, Upload, Link
  <2>2. req[q].story = s
    BY <1>2, <2>1, ContentAssumption DEF Publish
  <2>3. row'[s] # "none"
    BY <2>1, <2>2, RowsRemain DEF PublishedOnce, Publish
  <2>4. PICK p \in Requests : /\ req'[p].op = "publish" /\ req'[p].story = s
                              /\ req'[p].at \in {"insert", "upload"}
    BY <2>3 DEF Unborn
  <2>5. p # q
    <3>1. ASSUME p = q PROVE FALSE
      <4>1. /\ Acts(q) /\ ~Insert(q) /\ row[s] # "none"
        BY <1>2, <2>1, <2>2 DEF Acts, Step, Insert, PublishedOnce, Publish
      <4>2. QED
        BY <2>4, <3>1, <4>1, PublishStep
    <3>2. QED
      BY <3>1
  <2>6. req'[p] = req[p]
    BY <1>2, <2>5, OthersStay DEF Step, TypeOK
  <2>7. QED
    BY <2>1, <2>2, <2>4, <2>5, <2>6 DEF PublishedOnce, Publish
<1>3. QED
  BY <1>1, <1>2 DEF Publishes

\* A story is still published once.
LEMMA PublishedOnceStep ==
  ASSUME TypeOK, PublishedOnce, [Next]_vars
  PROVE  PublishedOnce'
<1>1. CASE \E q \in Requests : Acts(q)
  <2> PICK q \in Requests : Acts(q)
    BY <1>1
  <2>1. \A p \in Requests \ {q} : req'[p] = req[p]
    BY OthersStay DEF Acts, TypeOK
  <2>2. \A p \in Requests : req[p].op = "publish" => req[p].story \in Stories
    BY Kinds DEF TypeOK, Publish
  <2>3. ASSUME NEW p \in Requests \ {q}, req'[p].op = "publish", req'[p].at # "insert"
        PROVE  row'[req'[p].story] # "none"
    BY <2>1, <2>2, <2>3, RowsRemain DEF PublishedOnce
  <2>4. ASSUME req'[q].op = "publish", req'[q].at # "insert"
        PROVE  row'[req'[q].story] # "none"
    BY <2>2, <2>4, PublishStep, RowsRemain DEF PublishedOnce
  <2>5. ASSUME NEW p \in Requests \ {q}, req'[p].op = "publish", req'[q].op = "publish"
        PROVE  req'[p].story # req'[q].story
    BY <2>1, <2>5, PublishStep DEF PublishedOnce
  <2>6. ASSUME NEW p \in Requests \ {q}, NEW o \in Requests \ {p, q},
               req'[p].op = "publish", req'[o].op = "publish"
        PROVE  req'[p].story # req'[o].story
    BY <2>1, <2>6 DEF PublishedOnce
  <2>7. QED
    BY <2>3, <2>4, <2>5, <2>6 DEF PublishedOnce
<1>2. CASE ~\E q \in Requests : Acts(q)
  <2>1. req' = req
    BY <1>2, RequestsStay DEF Next, Acts
  <2>2. \A p \in Requests : req[p].op = "publish" => req[p].story \in Stories
    BY Kinds DEF TypeOK, Publish
  <2>3. QED
    BY <2>1, <2>2, RowsRemain DEF PublishedOnce
<1>3. QED
  BY <1>1, <1>2

\* An object whose address is scheduled, and which is gone, does not come back.
LEMMA GoneStaysGone ==
  ASSUME CleanInv, [Next]_vars, NEW i \in DOMAIN jobs, jobs[i].key \notin objects
  PROVE  jobs[i].key \notin objects'
<1> USE DEF CleanInv
<1>1. jobs[i].key \in Known
  BY DEF Known
<1>2. ASSUME NEW q \in Requests, Upload(q) PROVE jobs[i].key \notin objects'
  <2>1. req[q] \in Publish /\ req[q].at = "upload"
    BY <1>2, Kinds DEF TypeOK, Upload
  <2>2. Unborn(req[q].story) /\ req[q].story \in Stories
    BY <2>1 DEF Unborn, Publish
  <2>3. Home[req[q].story] # jobs[i].key
    BY <1>1, <2>2
  <2>4. QED
    BY <1>2, <2>3 DEF Upload, Uploaded
<1>3. QED
  BY <1>2, Writers

\* What becomes of a job.
LEMMA JobStep ==
  ASSUME CleanInv, [Next]_vars
  PROVE  /\ DOMAIN jobs \subseteq DOMAIN jobs'
         /\ \A i \in DOMAIN jobs :
              /\ jobs'[i].key = jobs[i].key
              /\ \/ jobs'[i].status # "completed" \/ jobs'[i].status = jobs[i].status
                 \/ jobs[i].key \notin objects
         /\ \A i \in DOMAIN jobs' \ DOMAIN jobs : jobs'[i].status = "pending"
<1> USE DEF CleanInv, TypeOK
<1>1. \A i \in DOMAIN jobs : jobs[i] \in Job
  BY DEF StoreType
<1>2. CASE jobs' = jobs
  BY <1>2
<1>3. ASSUME NEW q \in Requests, Enqueue(q), jobs' # jobs
      PROVE  /\ DOMAIN jobs \subseteq DOMAIN jobs'
             /\ \A i \in DOMAIN jobs : jobs'[i] = jobs[i]
             /\ \A i \in DOMAIN jobs' \ DOMAIN jobs : jobs'[i].status = "pending"
  BY <1>3, EnqueueJobs
<1>4. ASSUME NEW w \in Cleaners, Mark(w), jobs' # jobs
      PROVE  /\ DOMAIN jobs' = DOMAIN jobs
             /\ \A i \in DOMAIN jobs :
                  /\ jobs'[i].key = jobs[i].key
                  /\ \/ jobs'[i].status # "completed" \/ jobs'[i].status = jobs[i].status
                     \/ jobs[i].key \notin objects
  <2>1. jobs' = [jobs EXCEPT ![cleaner[w].job].status = cleaner[w].result]
    BY <1>4 DEF Mark
  <2>2. /\ cleaner[w].job \in DOMAIN jobs
        /\ cleaner[w].result = "completed" => jobs[cleaner[w].job].key \notin objects
    BY <1>4 DEF Mark, SeenGone
  <2>3. QED
    BY <1>1, <2>1, <2>2 DEF Job
<1>5. ASSUME NEW w \in Cleaners, Claim(w) \/ Reclaim(w)
      PROVE  /\ DOMAIN jobs' = DOMAIN jobs
             /\ \A i \in DOMAIN jobs :
                  /\ jobs'[i].key = jobs[i].key
                  /\ jobs'[i].status # "completed" \/ jobs'[i].status = jobs[i].status
  BY <1>1, <1>5 DEF Claim, Claimed, Reclaim, Job
<1>6. QED
  BY <1>2, <1>3, <1>4, <1>5, Writers

\* What a worker marks next it has seen gone.
LEMMA SeenGoneStep ==
  ASSUME CleanInv, [Next]_vars, NEW w \in Cleaners, cleaner'[w].at = "mark"
  PROVE  /\ cleaner'[w].job \in DOMAIN jobs'
         /\ cleaner'[w].result = "completed" => jobs'[cleaner'[w].job].key \notin objects'
<1> USE DEF CleanInv, TypeOK
<1>1. CASE cleaner'[w] = cleaner[w]
  <2>1. /\ cleaner[w].job \in DOMAIN jobs
        /\ cleaner[w].result = "completed" => jobs[cleaner[w].job].key \notin objects
    BY <1>1 DEF SeenGone
  <2>2. QED
    BY <1>1, <2>1, JobStep, GoneStaysGone
<1>2. CASE Erase(w)
  <2>1. PICK i \in cleaner[w].batch, result \in {"completed", "failed"} :
          /\ cleaner' = [cleaner EXCEPT ![w] =
               [at |-> "mark", batch |-> @.batch \ {i}, job |-> i, result |-> result]]
          /\ result = "completed" => jobs[i].key \notin objects'
    <3>1. PICK i \in cleaner[w].batch :
            \/ /\ objects' = objects \ {jobs[i].key}
               /\ cleaner' = [cleaner EXCEPT ![w] =
                    [at |-> "mark", batch |-> @.batch \ {i}, job |-> i, result |-> "completed"]]
            \/ \E result \in AfterError(jobs[i].key) :
                 cleaner' = [cleaner EXCEPT ![w] =
                    [at |-> "mark", batch |-> @.batch \ {i}, job |-> i, result |-> result]]
      BY <1>2 DEF Erase
    <3>2. QED
      BY <3>1 DEF AfterError
  <2>2. cleaner'[w].job = i /\ cleaner'[w].result = result
    BY <2>1 DEF StoreType
  <2>3. i \in DOMAIN jobs /\ jobs' = jobs
    BY <1>2 DEF StoreType, Erase
  <2>4. QED
    BY <2>1, <2>2, <2>3
<1>3. ASSUME NEW v \in Cleaners, Claim(v) \/ Mark(v) \/ Reclaim(v) \/ Die(v)
      PROVE  cleaner'[w] = cleaner[w]
  <2>1. CASE Reclaim(v)
    BY <2>1 DEF Reclaim
  <2>2. CASE v # w
    BY <1>3, <2>2 DEF Claim, Mark, Reclaim, Die, StoreType
  <2>3. CASE v = w /\ ~Reclaim(v)
    <3>1. cleaner'[w].at \in {"idle", "erase"}
      BY <1>3, <2>3 DEF Claim, Mark, Die, Rest, Working, StoreType
    <3>2. QED
      BY <3>1
  <2>4. QED
    BY <2>1, <2>2, <2>3
<1>4. ASSUME NEW v \in Cleaners \ {w}, Erase(v) PROVE cleaner'[w] = cleaner[w]
  BY <1>4 DEF Erase, StoreType
<1>5. QED
  BY <1>1, <1>2, <1>3, <1>4, Writers

\* At first every address is where the rows say.
LEMMA CleanInit == Init => CleanInv
<1> SUFFICES ASSUME Init PROVE CleanInv
  OBVIOUS
<1>1. PublishedOnce /\ SeenGone /\ CompletedMeansGone
  BY DEF Init, Idle, Rest, PublishedOnce, SeenGone, CompletedMeansGone
<1>2. ASSUME NEW s \in Stories, Unborn(s) PROVE Home[s] \notin Known
  <2>1. row[s] = "none"
    BY <1>2 DEF Init, Idle, Unborn
  <2>2. Home[s] \in Keys /\ Home[s] # NoKey
    BY ContentAssumption
  <2>3. Home[s] \notin objects /\ \A t \in Stories : key[t] # Home[s]
    BY <2>1, <2>2, ContentAssumption DEF Init
  <2>4. jobs = <<>> /\ \A q \in Requests : KnownTo(q) = {}
    BY DEF Init, Idle, KnownTo
  <2>5. QED
    BY <2>3, <2>4 DEF Known
<1>3. QED
  BY <1>1, <1>2, TypeInit DEF CleanInv

\* No step brings an object back whose job is done.
LEMMA CleanNext == CleanInv /\ [Next]_vars => CleanInv'
<1> SUFFICES ASSUME CleanInv, [Next]_vars PROVE CleanInv'
  OBVIOUS
<1>1. TypeOK'
  BY TypeStory, TypeRequest, TypeLock, TypeStore DEF TypeOK, CleanInv
<1>2. PublishedOnce'
  BY PublishedOnceStep DEF CleanInv
<1>3. SeenGone'
  BY SeenGoneStep DEF SeenGone
<1>4. CompletedMeansGone'
  BY JobStep, GoneStaysGone DEF CleanInv, CompletedMeansGone
<1>5. ASSUME NEW s \in Stories, Unborn(s)' PROVE Home[s] \notin Known'
  BY <1>5, UnbornStep, NothingLearned, ContentAssumption DEF CleanInv
<1>6. QED
  BY <1>1, <1>2, <1>3, <1>4, <1>5 DEF CleanInv

\* Whatever the workers share, whatever calls fail and whoever dies, a job that
\* is completed has its object gone, and for good.
THEOREM CompletedIsGone == Spec => []CompletedMeansGone
<1>1. CleanInv => CompletedMeansGone
  BY DEF CleanInv
<1>2. QED
  BY <1>1, CleanInit, CleanNext, PTL DEF Spec

-----------------------------------------------------------------------------
(***************************************************************************)
(* Audio.                                                                  *)
(***************************************************************************)
\* The stories a request works on.
OnStory(x)  == x.op \in {"update", "publish", "deleteStory"}
Concerns(x) == IF x.op = "deletePOI" THEN At(x.poi)
               ELSE IF OnStory(x) THEN {x.story} ELSE {}

GhostType == held \in [Keys -> SUBSET Stories]

\* A story that nobody has published has no audio, and nobody works on its row
\* as if it were there.
Born ==
    /\ \A s \in Stories : Unborn(s) => held[Home[s]] = {}
    /\ \A s \in Stories : row[s] = "none" => key[s] = NoKey
    /\ \A q \in Requests :
         /\ req[q].op \in {"update", "deleteStory"} => row[req[q].story] # "none"
         /\ req[q].at = "insert" => row[req[q].story] = "none"

\* Only an address that was given twice has been the audio of two stories, or
\* of a story it is not named after.
Holding ==
    /\ \A s \in Stories : key[s] # NoKey => s \in held[key[s]]
    /\ \A k \in Keys \ reused : \A s \in held[k] :
         /\ \A t \in held[k] : s = t
         /\ \A t \in Stories : Home[t] = k => s = t

\* Requests that work on one story have been seen to meet on it.
Met ==
    \A p, q \in Requests : p # q =>
      /\ Concerns(req[p]) \cap Concerns(req[q]) \subseteq mixed
      /\ /\ req[p].op \in {"update", "publish"} /\ req[q].op = "deletePOI"
         /\ req[p].poi = req[q].poi
         => req[p].story \in mixed

\* What a request has collected is the audio of the stories it works on, and
\* all of it.
Gathered ==
    \A q \in Requests :
      /\ req[q].at \in {"read", "collect"} => req[q].got = {}
      /\ req[q].at \in {"write", "delete", "cascade"} =>
           /\ \A k \in req[q].got : \E s \in held[k] :
                s \in mixed \/ (Live(s) /\ key[s] = k /\ s \in Concerns(req[q]))
           /\ \A s \in Concerns(req[q]) :
                Live(s) /\ key[s] # NoKey /\ s \notin mixed => key[s] \in req[q].got \cup lost
      /\ req[q].at = "enqueue" => \A k \in req[q].got : held[k] # {}

\* A story in publication has no audio yet, and what it is about to be linked
\* to was uploaded.
Publishing ==
    \A q \in Requests : req[q].op = "publish" =>
      /\ key[req[q].story] = NoKey \/ req[q].story \in mixed
      /\ req[q].at = "link" =>
           Home[req[q].story] \in objects \cup lost \/ held[Home[req[q].story]] # {}

\* An address that was typed in is there still, unless a story had it, or one
\* that is being published had it uploaded.
Typing ==
    \A q \in Requests : req[q].at \in {"read", "write"} /\ req[q].key # NoKey =>
      \/ req[q].key \in objects \cup lost \/ held[req[q].key] # {}
      \/ Others(req[q].story, req[q].key) \/ req[q].story \in mixed

\* No story has audio k, but for those that two requests worked on.
Unused(k) == k \in reused \/ \A s \in Stories : Live(s) /\ key[s] = k => s \in mixed

\* What is scheduled, or about to be, no story has.
LetGo ==
    /\ \A q \in Requests : req[q].at = "enqueue" => \A k \in req[q].got : Unused(k)
    /\ \A i \in DOMAIN jobs : held[jobs[i].key] # {} /\ Unused(jobs[i].key)

AudioInv ==
    /\ CleanInv /\ GhostType /\ Born /\ Holding /\ Met /\ Gathered /\ Publishing /\ Typing
    /\ LetGo /\ LiveAudioKept /\ OrphansQueued

\* Who writes the history.
LEMMA Historians ==
  ASSUME [Next]_vars
  PROVE  /\ \/ UNCHANGED <<row, place, key, held, reused>>
            \/ \E q \in Requests : WriteStory(q) \/ Insert(q) \/ Link(q) \/ Cascade(q)
            \/ \E s \in Stories : CreateStory(s)
         /\ \/ UNCHANGED mixed
            \/ \E q \in Requests : Start(q)
            \/ \E s \in Stories : CreateStory(s)
         /\ lost \subseteq lost'
<1>1. ASSUME NEW q \in Requests, Start(q) \/ Fail(q)
      PROVE  /\ UNCHANGED <<row, place, key, held, reused>>
             /\ UNCHANGED mixed \/ Start(q)
             /\ lost \subseteq lost'
  BY <1>1 DEF Start, StartUpdate, StartDeleteStory, StartDeletePOI, StartPublish, StartDisable,
              Begin, Fail, storyVars
<1>2. ASSUME NEW q \in Requests, ReadOld(q) \/ Collect(q) \/ LockDoomed(q)
                                 \/ ReadReport(q) \/ ReadStory(q) \/ Deadlock(q)
      PROVE  UNCHANGED <<row, place, key, held, reused, mixed>> /\ lost \subseteq lost'
  BY <1>2 DEF ReadOld, Collect, LockDoomed, ReadReport, ReadStory, Deadlock, storyVars, ghostVars
<1>3. ASSUME NEW q \in Requests, Enqueue(q) \/ Upload(q) \/ RemoveObject(q) \/ Apply(q)
      PROVE  UNCHANGED <<row, place, key, held, reused, mixed>> /\ lost \subseteq lost'
  BY <1>3 DEF Enqueue, Upload, RemoveObject, Apply, storyVars, ghostVars
<1>4. ASSUME NEW q \in Requests, WriteStory(q) \/ Insert(q) \/ Link(q) \/ Cascade(q)
      PROVE  UNCHANGED <<mixed, lost>>
  BY <1>4 DEF WriteStory, Insert, Link, Cascade, ghostVars
<1>5. ASSUME NEW s \in Stories, CreateStory(s) PROVE UNCHANGED lost
  BY <1>5 DEF CreateStory, Handler
<1>6. ASSUME NEW r \in Reports, CreateReport(r) \/ UpdateReport(r)
      PROVE  UNCHANGED <<row, place, key, held, reused, mixed, lost>>
  BY <1>6 DEF CreateReport, UpdateReport, Handler
<1>7. ASSUME NEW w \in Cleaners, Clean(w) \/ Die(w)
      PROVE  UNCHANGED <<row, place, key, held, reused, mixed, lost>>
  BY <1>7 DEF Clean, Claim, Erase, Mark, Reclaim, Die, storyVars, ghostVars
<1>8. CASE UNCHANGED vars
  BY <1>8 DEF vars, storyVars, ghostVars
<1>9. QED
  BY <1>1, <1>2, <1>3, <1>4, <1>5, <1>6, <1>7, <1>8 DEF Next, Step

\* What it means to write a row whole.
LEMMA SetStoryStep ==
  ASSUME TypeOK, GhostType, NEW s \in Stories, NEW p, NEW k, NEW active, SetStory(s, p, k, active)
  PROVE  /\ row'[s] = "live" /\ place'[s] = p /\ key'[s] = k
         /\ \A t \in Stories \ {s} : row'[t] = row[t] /\ place'[t] = place[t] /\ key'[t] = key[t]
         /\ held' \in [Keys -> SUBSET Stories]
         /\ \A h \in Keys \ {k} : held'[h] = held[h]
         /\ k \in Keys => held'[k] = held[k] \cup {s}
         /\ reused \subseteq reused' /\ \A h \in reused' : h \in reused \/ h = k
         /\ k # NoKey /\ k \notin reused' /\ key[s] # k => held[k] = {} /\ ~Others(s, k)
BY DEF SetStory, Hold, GhostType, TypeOK, StoryType

\* How rows are written.
LEMMA RowWrites ==
  ASSUME TypeOK, GhostType, [Next]_vars
  PROVE  \/ UNCHANGED <<row, place, key, held, reused>>
         \/ \E q \in Requests : /\ WriteStory(q) /\ req[q] \in Update /\ Live(req[q].story)
                                /\ SetStory(req[q].story, req[q].poi, req[q].key, req[q].active)
         \/ \E q \in Requests : /\ Insert(q) /\ req[q] \in Publish
                                /\ SetStory(req[q].story, req[q].poi, NoKey, TRUE)
         \/ \E q \in Requests : /\ Link(q) /\ req[q] \in Publish /\ Live(req[q].story)
                                /\ SetStory(req[q].story, req[q].poi, Home[req[q].story], TRUE)
         \/ \E q \in Requests : /\ Cascade(q) /\ UNCHANGED <<place, key, held, reused>>
                                /\ row' = [s \in Stories |-> IF s \in Doomed(req[q]) THEN "gone" ELSE row[s]]
         \/ \E s \in Stories, p \in pois, k \in Typed, active \in BOOLEAN :
              /\ row[s] = "none" /\ \A q \in Requests : req[q].op = "publish" => req[q].story # s
              /\ SetStory(s, p, k, active)
              /\ mixed' = mixed \cup (Meets([op |-> "update", story |-> s, poi |-> p]) \cap Stories)
<1>1. ASSUME NEW q \in Requests, WriteStory(q)
      PROVE  \/ UNCHANGED <<row, place, key, held, reused>>
             \/ /\ req[q] \in Update /\ Live(req[q].story)
                /\ SetStory(req[q].story, req[q].poi, req[q].key, req[q].active)
  BY <1>1, Kinds DEF TypeOK, WriteStory, storyVars
<1>2. ASSUME NEW q \in Requests, Insert(q)
      PROVE  \/ UNCHANGED <<row, place, key, held, reused>>
             \/ req[q] \in Publish /\ SetStory(req[q].story, req[q].poi, NoKey, TRUE)
  BY <1>2, Kinds DEF TypeOK, Insert, storyVars
<1>3. ASSUME NEW q \in Requests, Link(q)
      PROVE  \/ UNCHANGED <<row, place, key, held, reused>>
             \/ /\ req[q] \in Publish /\ Live(req[q].story)
                /\ SetStory(req[q].story, req[q].poi, Home[req[q].story], TRUE)
  BY <1>3, Kinds DEF TypeOK, Link, storyVars
<1>4. ASSUME NEW q \in Requests, Cascade(q)
      PROVE  /\ UNCHANGED <<place, key, held, reused>>
             /\ row' = [s \in Stories |-> IF s \in Doomed(req[q]) THEN "gone" ELSE row[s]]
  BY <1>4 DEF Cascade, ghostVars
<1>5. ASSUME NEW s \in Stories, CreateStory(s)
      PROVE  \E p \in pois, k \in Typed, active \in BOOLEAN :
              /\ row[s] = "none" /\ \A q \in Requests : req[q].op = "publish" => req[q].story # s
              /\ SetStory(s, p, k, active)
              /\ mixed' = mixed \cup (Meets([op |-> "update", story |-> s, poi |-> p]) \cap Stories)
  BY <1>5 DEF CreateStory
<1>6. QED
  BY <1>1, <1>2, <1>3, <1>4, <1>5, Historians

\* The history grows.
LEMMA HistoryGrows ==
  ASSUME TypeOK, GhostType, [Next]_vars
  PROVE  /\ GhostType' /\ \A k \in Keys : held[k] \subseteq held'[k]
         /\ reused \subseteq reused' /\ mixed \subseteq mixed' /\ lost \subseteq lost'
<1>1. ASSUME NEW s \in Stories, NEW p, NEW k, NEW active, SetStory(s, p, k, active)
      PROVE  /\ GhostType' /\ \A h \in Keys : held[h] \subseteq held'[h]
             /\ reused \subseteq reused'
  <2>1. /\ held' \in [Keys -> SUBSET Stories] /\ \A h \in Keys \ {k} : held'[h] = held[h]
        /\ k \in Keys => held'[k] = held[k] \cup {s}
        /\ reused \subseteq reused'
    BY <1>1, SetStoryStep
  <2>2. QED
    BY <2>1 DEF GhostType
<1>2. /\ GhostType' /\ \A k \in Keys : held[k] \subseteq held'[k]
      /\ reused \subseteq reused'
  <2>1. \A q \in Requests : req[q] \in Update \cup Publish => req[q].story \in Stories
    BY DEF Update, Publish
  <2>2. CASE UNCHANGED <<held, reused>>
    BY <2>2 DEF GhostType
  <2>3. QED
    BY <1>1, <2>1, <2>2, RowWrites
<1>3. mixed \subseteq mixed'
  <2>1. ASSUME NEW q \in Requests, Start(q) PROVE mixed \subseteq mixed'
    BY <2>1 DEF Start, StartUpdate, StartDeleteStory, StartDeletePOI, StartPublish, StartDisable, Begin
  <2>2. ASSUME NEW s \in Stories, CreateStory(s) PROVE mixed \subseteq mixed'
    BY <2>2 DEF CreateStory
  <2>3. QED
    BY <2>1, <2>2, Historians
<1>4. QED
  BY <1>2, <1>3, Historians

\* How a request begins.
LEMMA StartStep ==
  ASSUME TypeOK, NEW q \in Requests, Start(q)
  PROVE  \E x : /\ Begin(q, x) /\ req'[q] = x
                /\ \/ /\ x.op = "update" /\ x.at = "read" /\ x.got = {} /\ x.story \in Stories
                      /\ row[x.story] # "none" /\ x.key \in Typed \cup KeysOf({x.story})
                   \/ /\ x.op = "deleteStory" /\ x.at = "collect" /\ x.got = {} /\ Live(x.story)
                      /\ x.story \in Stories
                   \/ x.op = "deletePOI" /\ x.at = "collect" /\ x.got = {}
                   \/ /\ x.op = "publish" /\ x.at = "insert" /\ x.got = {} /\ x.story \in Stories
                      /\ row[x.story] = "none"
                   \/ x.op = "disable" /\ x.at = "report"
<1>1. ASSUME NEW x, Begin(q, x) PROVE req'[q] = x
  BY <1>1 DEF Begin, TypeOK, RequestType
<1>2. CASE StartUpdate(q)
  <2>1. PICK s \in Stories, p \in POIs, active \in BOOLEAN :
          \E k \in Typed \cup KeysOf({s}) :
            /\ row[s] # "none"
            /\ Begin(q, [op |-> "update", at |-> "read", story |-> s, poi |-> p,
                         key |-> k, active |-> active, got |-> {}])
    BY <1>2 DEF StartUpdate
  <2>2. PICK k \in Typed \cup KeysOf({s}) :
            /\ row[s] # "none"
            /\ Begin(q, [op |-> "update", at |-> "read", story |-> s, poi |-> p,
                         key |-> k, active |-> active, got |-> {}])
    BY <2>1
  <2> DEFINE x == [op |-> "update", at |-> "read", story |-> s, poi |-> p,
                   key |-> k, active |-> active, got |-> {}]
  <2>3. /\ x.op = "update" /\ x.at = "read" /\ x.got = {} /\ x.story = s /\ x.key = k
        /\ Begin(q, x)
    BY <2>2
  <2> HIDE DEF x
  <2>4. QED
    BY <1>1, <2>2, <2>3
<1>3. CASE StartDeleteStory(q)
  <2>1. PICK s \in Stories :
          /\ Live(s)
          /\ Begin(q, [op |-> "deleteStory", at |-> "collect", story |-> s, got |-> {}])
    BY <1>3 DEF StartDeleteStory
  <2>2. QED
    BY <1>1, <2>1
<1>4. CASE StartDeletePOI(q)
  <2>1. PICK p \in pois :
          Begin(q, [op |-> "deletePOI", at |-> "collect", poi |-> p, got |-> {}])
    BY <1>4 DEF StartDeletePOI
  <2>2. QED
    BY <1>1, <2>1
<1>5. CASE StartPublish(q)
  <2>1. PICK s \in Stories, p \in POIs :
          /\ row[s] = "none"
          /\ Begin(q, [op |-> "publish", at |-> "insert", story |-> s, poi |-> p, got |-> {}])
    BY <1>5 DEF StartPublish
  <2>2. QED
    BY <1>1, <2>1
<1>6. CASE StartDisable(q)
  <2>1. PICK r \in Reports :
          Begin(q, [op |-> "disable", at |-> "report", report |-> r,
                    seen |-> report[r], again |-> TRUE])
    BY <1>6 DEF StartDisable
  <2>2. QED
    BY <1>1, <2>1
<1>7. QED
  BY <1>2, <1>3, <1>4, <1>5, <1>6 DEF Start

\* A beginning changes no row and nothing in the store.
LEMMA BeginStays ==
  ASSUME NEW q, NEW x, Begin(q, x)
  PROVE  /\ UNCHANGED <<pois, row, place, key, held, reused, lost, objects, jobs>>
         /\ mixed' = mixed \cup (Meets(x) \cap Stories)
BY DEF Begin, storyVars, storeVars

\* What a request in flight keeps, and who moved it where it is.
Keeps(q) == /\ req'[q].op = req[q].op
            /\ OnStory(req[q]) => req'[q].story = req[q].story
            /\ req[q].op \in {"update", "publish", "deletePOI"} => req'[q].poi = req[q].poi
            /\ req[q].op = "update" => req'[q].key = req[q].key

LEMMA RequestStep ==
  ASSUME TypeOK, NEW q \in Requests, Step(q) \/ Fail(q)
  PROVE  \/ req'[q] = Idle
         \/ /\ Keeps(q)
            /\ \/ req'[q].at = "write" /\ ReadOld(q)
               \/ /\ req'[q].at = "delete" /\ Collect(q)
               \/ /\ req'[q].at \in {"upload", "link", "rmobject", "delete"} /\ req'[q].got = {}
                  /\ req[q].op = "publish"
                  /\ req'[q].at = "upload" => Insert(q)
                  /\ req'[q].at = "link" => Upload(q) /\ objects' = Uploaded(q)
               \/ /\ req'[q].at = "cascade" /\ LockDoomed(q) /\ req'[q].got = req[q].got
               \/ req'[q].at = "enqueue" /\ WriteStory(q) /\ req'[q].got = Dropped(req[q])
               \/ req'[q].at = "enqueue" /\ Cascade(q) /\ req'[q].got = req[q].got
               \/ req'[q].at \in {"report", "story", "apply"} /\ req[q].op = "disable"
<1> USE DEF TypeOK
<1>1. CASE End(q)
  BY <1>1 DEF End, RequestType
<1>2. CASE ReadOld(q)
  <2>1. req[q] \in Update
    BY <1>2, Kinds DEF ReadOld
  <2>2. Keeps(q) /\ req'[q].at = "write"
    BY <1>2, <2>1 DEF ReadOld, Keeps, OnStory, Goto, RequestType, Update
  <2>3. QED
    BY <1>2, <2>2
<1>3. CASE WriteStory(q) /\ ~End(q)
  <2>1. req[q] \in Update
    BY <1>3, Kinds DEF WriteStory
  <2>2. Keeps(q) /\ req'[q].at = "enqueue" /\ req'[q].got = Dropped(req[q])
    BY <1>3, <2>1 DEF WriteStory, Keeps, OnStory, RequestType, Update
  <2>3. QED
    BY <1>3, <2>2
<1>4. CASE Collect(q)
  <2>1. req[q] \in DeleteStory \cup DeletePOI
    BY <1>4, Kinds DEF Collect
  <2>2. Keeps(q) /\ req'[q].at = "delete"
    BY <1>4, <2>1 DEF Collect, Keeps, OnStory, Goto, RequestType, DeleteStory, DeletePOI
  <2>3. QED
    BY <1>4, <2>2
<1>5. ASSUME NEW l, Goto(q, l), req[q] \in DeleteStory \cup DeletePOI \cup Publish \cup Disable
      PROVE  /\ Keeps(q) /\ req'[q].at = l
             /\ req[q] \notin Disable => req'[q].got = req[q].got
  BY <1>5 DEF Goto, Keeps, OnStory, RequestType, DeleteStory, DeletePOI, Publish, Disable
<1>6. CASE LockDoomed(q) /\ ~End(q)
  <2>1. req[q] \in DeleteStory \cup DeletePOI \cup Publish /\ req[q] \notin Disable
    BY <1>6, Kinds DEF LockDoomed, DeleteStory, DeletePOI, Publish, Disable
  <2>2. Goto(q, "cascade")
    BY <1>6 DEF LockDoomed
  <2>3. QED
    BY <1>5, <1>6, <2>1, <2>2
<1>7. CASE Cascade(q) /\ ~End(q)
  <2>1. req[q] \in DeleteStory \cup DeletePOI \cup Publish /\ req[q] \notin Disable
    BY <1>7, Kinds DEF Cascade, DeleteStory, DeletePOI, Publish, Disable
  <2>2. Goto(q, "enqueue")
    BY <1>7 DEF Cascade
  <2>3. QED
    BY <1>5, <1>7, <2>1, <2>2
<1>8. CASE (Insert(q) \/ Upload(q) \/ Link(q) \/ RemoveObject(q)) /\ ~End(q)
  <2>1. /\ req[q] \in Publish /\ req[q] \notin Disable /\ req[q].op = "publish"
        /\ req[q].got = {}
    BY <1>8, Kinds DEF Insert, Upload, Link, RemoveObject, Publish, Disable
  <2>2. \/ Goto(q, "upload") /\ Insert(q)
        \/ Goto(q, "link") /\ Upload(q) /\ objects' = Uploaded(q)
        \/ \E l \in {"rmobject", "delete"} : Goto(q, l)
    BY <1>8 DEF Insert, Upload, Link, RemoveObject
  <2>3. QED
    BY <1>5, <2>1, <2>2
<1>9. CASE (ReadReport(q) \/ ReadStory(q) \/ Deadlock(q)) /\ ~End(q)
  <2>1. req[q] \in Disable /\ req[q].op = "disable"
    BY <1>9, Kinds DEF ReadReport, ReadStory, Deadlock, Disable
  <2>2. Keeps(q) /\ req'[q].at \in {"report", "story", "apply"}
    BY <1>9, <2>1 DEF ReadReport, ReadStory, Deadlock, Goto, Keeps, OnStory, RequestType, Disable
  <2>3. QED
    BY <2>1, <2>2
<1>10. CASE Enqueue(q) \/ Apply(q) \/ Fail(q)
  BY <1>1, <1>10 DEF Enqueue, Apply, Fail
<1>11. QED
  BY <1>1, <1>2, <1>3, <1>4, <1>6, <1>7, <1>8, <1>9, <1>10 DEF Step

\* Who is not acting stays as it is.
LEMMA StaysPut ==
  ASSUME TypeOK, [Next]_vars, NEW q \in Requests, ~Acts(q)
  PROVE  req'[q] = req[q]
<1>1. CASE \E p \in Requests : Acts(p)
  BY <1>1, OthersStay DEF Acts, TypeOK
<1>2. CASE ~\E p \in Requests : Acts(p)
  BY <1>2, RequestsStay DEF Next, Acts
<1>3. QED
  BY <1>1, <1>2

\* A request works on the story whose row it writes.
LEMMA ConcernTypes ==
  ASSUME TypeOK, NEW q \in Requests
  PROVE  /\ Concerns(req[q]) \subseteq Stories
         /\ req[q] \in Update => Concerns(req[q]) = {req[q].story} /\ req[q].story \in Stories
         /\ req[q] \in Publish => Concerns(req[q]) = {req[q].story} /\ req[q].story \in Stories
         /\ req[q] \in DeleteStory => Concerns(req[q]) = {req[q].story} /\ req[q].story \in Stories
         /\ req[q].at = "cascade" \/ req[q].at = "collect" \/ req[q].at = "delete" =>
              Doomed(req[q]) = {s \in Concerns(req[q]) : Live(s)}
<1>1. /\ req[q] \in Update => Concerns(req[q]) = {req[q].story} /\ req[q].story \in Stories
      /\ req[q] \in Publish => Concerns(req[q]) = {req[q].story} /\ req[q].story \in Stories
      /\ req[q] \in DeleteStory => Concerns(req[q]) = {req[q].story} /\ req[q].story \in Stories
  BY DEF Concerns, OnStory, Update, Publish, DeleteStory
<1>2. Concerns(req[q]) \subseteq Stories
  BY <1>1, Kinds DEF Concerns, OnStory, At, TypeOK
<1>3. ASSUME req[q].at \in {"cascade", "collect", "delete"}
      PROVE  Doomed(req[q]) = {s \in Concerns(req[q]) : Live(s)}
  <2>1. req[q] \in DeleteStory \cup DeletePOI \cup Publish
    BY <1>3, Kinds DEF TypeOK
  <2>2. CASE req[q].op = "deletePOI"
    BY <2>2 DEF Doomed, Concerns, At
  <2>3. CASE req[q].op # "deletePOI"
    <3>1. req[q] \in DeleteStory \cup Publish
      BY <2>1, <2>3 DEF DeletePOI
    <3>2. QED
      BY <1>1, <2>3, <3>1 DEF Doomed
  <2>4. QED
    BY <2>2, <2>3
<1>4. QED
  BY <1>1, <1>2, <1>3

\* Only a request that works on a story changes its row, once it is there.
LEMMA RowChanges ==
  ASSUME AudioInv, [Next]_vars, NEW s \in Stories,
         ~(row'[s] = row[s] /\ place'[s] = place[s] /\ key'[s] = key[s])
  PROVE  \/ \E q \in Requests : /\ WriteStory(q) \/ Insert(q) \/ Link(q) \/ Cascade(q)
                                /\ s \in Concerns(req[q])
         \/ row[s] = "none" /\ \A q \in Requests : req[q].op = "publish" => req[q].story # s
<1> USE DEF AudioInv, CleanInv
<1>1. ASSUME NEW t \in Stories, NEW p, NEW k, NEW active, SetStory(t, p, k, active) PROVE s = t
  BY <1>1, SetStoryStep
<1>2. ASSUME NEW q \in Requests, WriteStory(q), req[q] \in Update,
             SetStory(req[q].story, req[q].poi, req[q].key, req[q].active)
      PROVE  s \in Concerns(req[q])
  BY <1>1, <1>2, ConcernTypes
<1>3. ASSUME NEW q \in Requests, req[q] \in Publish, NEW k,
             SetStory(req[q].story, req[q].poi, k, TRUE)
      PROVE  s \in Concerns(req[q])
  BY <1>1, <1>3, ConcernTypes
<1>4. ASSUME NEW q \in Requests, Cascade(q), UNCHANGED <<place, key>>,
             row' = [t \in Stories |-> IF t \in Doomed(req[q]) THEN "gone" ELSE row[t]]
      PROVE  s \in Concerns(req[q])
  <2>1. s \in Doomed(req[q])
    BY <1>4 DEF TypeOK, StoryType
  <2>2. QED
    BY <1>4, <2>1, ConcernTypes DEF Cascade
<1>5. ~UNCHANGED <<row, place, key>>
  OBVIOUS
<1>6. QED
  BY <1>1, <1>2, <1>3, <1>4, <1>5, RowWrites

\* While a request does nothing, its stories stay as they are, unless it has
\* met the one that changes them.
LEMMA Undisturbed ==
  ASSUME AudioInv, [Next]_vars, NEW q \in Requests, ~Acts(q),
         NEW s \in Concerns(req[q]), s \notin mixed'
  PROVE  row'[s] = row[s] /\ place'[s] = place[s] /\ key'[s] = key[s]
<1> USE DEF AudioInv, CleanInv
<1>1. s \in Stories /\ s \notin mixed
  BY ConcernTypes, HistoryGrows
<1> SUFFICES ASSUME ~(row'[s] = row[s] /\ place'[s] = place[s] /\ key'[s] = key[s]) PROVE FALSE
  OBVIOUS
<1>2. ASSUME NEW p \in Requests, WriteStory(p) \/ Insert(p) \/ Link(p) \/ Cascade(p),
             s \in Concerns(req[p])
      PROVE  FALSE
  <2>1. p # q
    BY <1>2 DEF Acts, Step
  <2>2. QED
    BY <1>1, <1>2, <2>1 DEF Met
<1>3. ASSUME row[s] = "none", \A p \in Requests : req[p].op = "publish" => req[p].story # s
      PROVE  FALSE
  BY <1>3 DEF Concerns, OnStory, At, Live, Born
<1>4. QED
  BY <1>1, <1>2, <1>3, RowChanges

\* A story that comes to a point somebody is deleting has met the deletion.
LEMMA Arrivals ==
  ASSUME AudioInv, [Next]_vars, NEW q \in Requests, req[q].op = "deletePOI",
         NEW o, o = req[q].poi, NEW s \in Stories, s \in At(o)', s \notin At(o)
  PROVE  s \in mixed'
<1> USE DEF AudioInv, CleanInv
<1>1. row'[s] = "live" /\ place'[s] = o /\ ~(row[s] = "live" /\ place[s] = o)
  BY DEF At, Live
<1>2. ASSUME NEW t \in Stories, NEW p, NEW k, NEW active, SetStory(t, p, k, active)
      PROVE  s = t /\ p = o
  BY <1>1, <1>2, SetStoryStep
<1>3. ASSUME NEW p \in Requests, req[p] \in Update \cup Publish, NEW k, NEW active,
             SetStory(req[p].story, req[p].poi, k, active)
      PROVE  s \in mixed'
  <2>1. req[p].story \in Stories /\ req[p].op \in {"update", "publish"}
    BY <1>3 DEF Update, Publish
  <2>2. s = req[p].story /\ req[p].poi = req[q].poi /\ p # q
    BY <1>2, <1>3, <2>1
  <2>3. s \in mixed
    BY <2>1, <2>2 DEF Met
  <2>4. QED
    BY <2>3, HistoryGrows
<1>4. ASSUME NEW p \in Requests, Cascade(p), UNCHANGED place,
             row' = [t \in Stories |-> IF t \in Doomed(req[p]) THEN "gone" ELSE row[t]]
      PROVE  FALSE
  BY <1>1, <1>4 DEF TypeOK, StoryType
<1>5. ASSUME NEW t \in Stories, NEW p \in pois, NEW k \in Typed, NEW active \in BOOLEAN,
             SetStory(t, p, k, active),
             mixed' = mixed \cup (Meets([op |-> "update", story |-> t, poi |-> p]) \cap Stories)
      PROVE  s \in mixed'
  <2> DEFINE x == [op |-> "update", story |-> t, poi |-> p]
  <2>1. s = t /\ p = o
    BY <1>2, <1>5
  <2>2. p \in Touches(x) \cap Touches(req[q]) /\ s \in Touches(x)
    BY <2>1 DEF Touches
  <2>3. s \in Meets(x)
    BY <2>2 DEF Meets
  <2>4. QED
    BY <1>5, <2>3
<1>6. ~UNCHANGED <<row, place>>
  BY <1>1
<1>7. QED
  BY <1>3, <1>4, <1>5, <1>6, RowWrites

\* Nobody comes to work on a story in flight, but with one it has met.
LEMMA ConcernsStep ==
  ASSUME AudioInv, [Next]_vars, NEW q \in Requests, ~Start(q)
  PROVE  Concerns(req[q])' \subseteq Concerns(req[q]) \cup mixed'
<1> USE DEF AudioInv, CleanInv
<1>1. CASE req'[q] = Idle
  BY <1>1 DEF Concerns, OnStory, Idle
<1>2. CASE Keeps(q)
  <2>1. CASE req[q].op = "deletePOI"
    <3>1. PICK o : o = req[q].poi
      OBVIOUS
    <3>2. Concerns(req[q])' = At(o)' /\ Concerns(req[q]) = At(o)
      BY <1>2, <2>1, <3>1 DEF Keeps, Concerns, At, Live
    <3>3. At(o)' \subseteq Stories
      BY DEF At
    <3>4. QED
      BY <2>1, <3>1, <3>2, <3>3, Arrivals
  <2>2. CASE req[q].op # "deletePOI"
    BY <1>2, <2>2 DEF Keeps, Concerns, OnStory
  <2>3. QED
    BY <2>1, <2>2
<1>3. CASE req'[q] = req[q]
  <2>1. Keeps(q)
    BY <1>3 DEF Keeps
  <2>2. QED
    BY <1>2, <2>1
<1>4. QED
  BY <1>1, <1>2, <1>3, RequestStep, StaysPut DEF Acts

\* Requests that work on one story have met on it.
LEMMA MetStep ==
  ASSUME AudioInv, TypeOK', [Next]_vars
  PROVE  Met'
<1> USE DEF AudioInv, CleanInv
<1> DEFINE M(p, q) == /\ Concerns(req[p]) \cap Concerns(req[q]) \subseteq mixed
                      /\ /\ req[p].op \in {"update", "publish"} /\ req[q].op = "deletePOI"
                         /\ req[p].poi = req[q].poi
                         => req[p].story \in mixed
<1>1. ASSUME NEW q \in Requests, NEW p \in Requests \ {q}, Start(q)
      PROVE  M(p, q)' /\ M(q, p)'
  <2>1. PICK x : Begin(q, x) /\ req'[q] = x
    BY <1>1, StartStep
  <2>2. /\ req'[p] = req[p] /\ UNCHANGED <<row, place>>
        /\ mixed' = mixed \cup (Meets(x) \cap Stories)
    BY <1>1, <2>1, BeginStays, OthersStay DEF TypeOK
  <2>3. ASSUME NEW z \in Touches(x), z \in Touches(req[p])
        PROVE  (Touches(x) \cup Touches(req[p])) \cap Stories \subseteq mixed'
    BY <2>2, <2>3 DEF Meets
  <2>4. ASSUME NEW y PROVE Concerns(y) \subseteq Touches(y)
    BY DEF Concerns, OnStory, Touches
  <2>5. Concerns(x)' = Concerns(x) /\ Concerns(req[p])' = Concerns(req[p])
    BY <2>2 DEF Concerns, OnStory, At, Live
  <2>6. Concerns(req[p])' \cap Concerns(req[q])' \subseteq mixed'
    <3>1. Concerns(req[p]) \subseteq Stories
      BY ConcernTypes
    <3>2. Concerns(req[q])' = Concerns(x)
      BY <2>1, <2>2 DEF Concerns, OnStory, At, Live
    <3>3. QED
      BY <2>3, <2>4, <2>5, <3>1, <3>2
  <2>7. ASSUME req'[p].op \in {"update", "publish"}, req'[q].op = "deletePOI",
               req'[p].poi = req'[q].poi
        PROVE  req'[p].story \in mixed'
    <3>1. req[p].story \in Stories
      BY <2>2, <2>7, Kinds DEF TypeOK, Update, Publish
    <3>2. QED
      BY <2>1, <2>2, <2>3, <2>7, <3>1 DEF Touches
  <2>8. ASSUME req'[q].op \in {"update", "publish"}, req'[p].op = "deletePOI",
               req'[q].poi = req'[p].poi
        PROVE  req'[q].story \in mixed'
    <3>1. req'[q].story \in Stories
      BY <2>8, Kinds DEF Update, Publish, TypeOK, RequestType, Idle, DeleteStory, DeletePOI, Disable
    <3>2. QED
      BY <2>1, <2>2, <2>3, <2>8, <3>1 DEF Touches
  <2>9. QED
    BY <2>6, <2>7, <2>8
<1>2. ASSUME NEW p \in Requests, NEW q \in Requests \ {p}, ~Start(p), ~Start(q)
      PROVE  M(p, q)'
  <2>1. \A o \in {p, q} : req'[o] = Idle \/ Keeps(o) \/ req'[o] = req[o]
    BY <1>2, RequestStep, StaysPut DEF Acts
  <2>2. /\ Concerns(req[p])' \subseteq Concerns(req[p]) \cup mixed'
        /\ Concerns(req[q])' \subseteq Concerns(req[q]) \cup mixed'
        /\ mixed \subseteq mixed'
    BY <1>2, ConcernsStep, HistoryGrows
  <2>3. Concerns(req[p]) \cap Concerns(req[q]) \subseteq mixed
    BY DEF Met
  <2>4. ASSUME req'[p].op \in {"update", "publish"}, req'[q].op = "deletePOI",
               req'[p].poi = req'[q].poi
        PROVE  req'[p].story \in mixed'
    <3>1. /\ req[p].op = req'[p].op /\ req[q].op = req'[q].op /\ req[p].poi = req'[p].poi
          /\ req[q].poi = req'[q].poi /\ req[p].story = req'[p].story
      BY <2>1, <2>4 DEF Keeps, Idle, OnStory
    <3>2. QED
      BY <2>2, <2>4, <3>1 DEF Met
  <2>5. QED
    BY <2>2, <2>3, <2>4
<1>3. \A p, q \in Requests : p # q => M(p, q)'
  BY <1>1, <1>2
<1>4. QED
  BY <1>3 DEF Met

\* An address stays unused until its story is published, and a row is not
\* worked on before it is there.
LEMMA BornStep ==
  ASSUME AudioInv, TypeOK', [Next]_vars
  PROVE  Born'
<1> USE DEF AudioInv, CleanInv
<1>1. ASSUME NEW s \in Stories, Unborn(s)' PROVE held'[Home[s]] = {}
  <2>1. Unborn(s) /\ ~Publishes(Home[s])
    BY <1>1, UnbornStep
  <2>2. Home[s] \in Keys /\ Home[s] \notin Known /\ held[Home[s]] = {} /\ Home[s] # NoKey
    BY <2>1, ContentAssumption DEF Born
  <2>3. ASSUME NEW t \in Stories, NEW p, NEW k, NEW active, SetStory(t, p, k, active), k # Home[s]
        PROVE  held'[Home[s]] = {}
    BY <2>2, <2>3, SetStoryStep
  <2>4. ASSUME NEW q \in Requests, req[q] \in Update
        PROVE  req[q].key # Home[s] /\ req[q].story \in Stories
    BY <2>2, <2>4 DEF Known, KnownTo, Update
  <2>5. ASSUME NEW q \in Requests, Link(q) PROVE Home[req[q].story] # Home[s]
    BY <2>1, <2>5 DEF Publishes
  <2>6. \A k \in Typed : k # Home[s]
    BY <2>2 DEF Typed, Known
  <2>7. \A q \in Requests : req[q] \in Publish => req[q].story \in Stories
    BY DEF Publish
  <2>8. QED
    BY <2>2, <2>3, <2>4, <2>5, <2>6, <2>7, RowWrites
<1>2. ASSUME NEW s \in Stories, row'[s] = "none" PROVE key'[s] = NoKey
  <2>1. row[s] = "none"
    BY <1>2, RowsRemain
  <2>2. ASSUME NEW t \in Stories, NEW p, NEW k, NEW active, SetStory(t, p, k, active)
        PROVE  key'[s] = key[s]
    BY <1>2, <2>2, SetStoryStep
  <2>3. key'[s] = key[s]
    BY <2>2, RowWrites DEF Update, Publish
  <2>4. QED
    BY <2>1, <2>3 DEF Born
<1>3. ASSUME NEW q \in Requests, req'[q].op \in {"update", "deleteStory"}
      PROVE  row'[req'[q].story] # "none"
  <2>1. req'[q].story \in Stories /\ row[req'[q].story] # "none"
    <3>1. CASE Start(q)
      BY <1>3, <3>1, StartStep DEF Live
    <3>2. CASE ~Start(q)
      <4>1. req[q].op = req'[q].op /\ req[q].story = req'[q].story
        BY <1>3, <3>2, RequestStep, StaysPut DEF Acts, Keeps, Idle, OnStory
      <4>2. QED
        BY <1>3, <4>1, Kinds DEF Born, TypeOK, Update, DeleteStory
    <3>3. QED
      BY <3>1, <3>2
  <2>2. QED
    BY <2>1, RowsRemain
<1>4. ASSUME NEW q \in Requests, req'[q].at = "insert" PROVE row'[req'[q].story] = "none"
  <2>1. CASE Start(q)
    <3>1. row[req'[q].story] = "none"
      BY <1>4, <2>1, StartStep
    <3>2. row' = row
      BY <2>1, StartStep, BeginStays
    <3>3. QED
      BY <3>1, <3>2
  <2>2. CASE ~Start(q)
    <3>1. ~Acts(q)
      BY <1>4, <2>2, RequestStep DEF Acts, Idle
    <3>2. req'[q] = req[q] /\ req[q] \in Publish /\ req[q].op = "publish"
      BY <1>4, <3>1, StaysPut, Kinds DEF TypeOK, Publish
    <3>3. row[req[q].story] = "none" /\ req[q].story \in Stories
      BY <1>4, <3>2 DEF Born, Publish
    <3>4. ASSUME row'[req[q].story] # "none" PROVE FALSE
      <4>1. req[q].story \in Concerns(req[q])
        BY <3>2 DEF Concerns, OnStory
      <4>2. PICK p \in Requests : /\ WriteStory(p) \/ Insert(p) \/ Link(p) \/ Cascade(p)
                                  /\ req[q].story \in Concerns(req[p])
        BY <3>2, <3>3, <3>4, RowChanges
      <4>3. Insert(p) /\ req[p].story = req[q].story
        BY <3>3, <3>4, <4>2, RowsAppear DEF Acts, Step
      <4>4. p # q /\ req[p].op = "publish"
        BY <3>1, <4>3, Kinds DEF Acts, Step, TypeOK, Insert, Publish
      <4>5. QED
        BY <3>2, <4>3, <4>4 DEF PublishedOnce
    <3>5. QED
      BY <3>2, <3>4
  <2>3. QED
    BY <2>1, <2>2
<1>5. QED
  BY <1>1, <1>2, <1>3, <1>4 DEF Born

\* A row that is written has its audio on record, and audio that another story
\* has had, or is named after, counts as given twice.
LEMMA HoldingStep ==
  ASSUME AudioInv, [Next]_vars
  PROVE  Holding'
<1> USE DEF AudioInv, CleanInv
<1> DEFINE H(s) == key[s] # NoKey => s \in held[key[s]]
           One(k) == \A s \in held[k] : /\ \A t \in held[k] : s = t
                                        /\ \A t \in Stories : Home[t] = k => s = t
<1>1. ASSUME NEW s \in Stories, NEW p, NEW k \in Keys \cup {NoKey}, NEW active,
             SetStory(s, p, k, active)
      PROVE  Holding'
  <2>1. /\ key'[s] = k /\ \A t \in Stories \ {s} : key'[t] = key[t]
        /\ \A h \in Keys \ {k} : held'[h] = held[h]
        /\ k \in Keys => held'[k] = held[k] \cup {s}
        /\ reused \subseteq reused'
        /\ k # NoKey /\ k \notin reused' /\ key[s] # k => held[k] = {} /\ ~Others(s, k)
    BY <1>1, SetStoryStep
  <2>2. ASSUME NEW t \in Stories, key'[t] # NoKey PROVE t \in held'[key'[t]]
    <3>1. CASE t = s
      BY <2>1, <2>2, <3>1
    <3>2. CASE t # s
      <4>1. key[t] = key'[t] /\ t \in held[key[t]] /\ key[t] \in Keys
        BY <2>1, <2>2, <3>2 DEF Holding, TypeOK, StoryType
      <4>2. QED
        BY <2>1, <4>1
    <3>3. QED
      BY <3>1, <3>2
  <2>3. ASSUME NEW h \in Keys \ reused' PROVE One(h)'
    <3>1. One(h)
      BY <2>1, <2>3 DEF Holding
    <3>2. CASE h # k
      BY <2>1, <3>1, <3>2
    <3>3. CASE h = k /\ key[s] = k
      <4>1. s \in held[k]
        BY <3>3, ContentAssumption DEF Holding
      <4>2. QED
        BY <2>1, <3>1, <3>3, <4>1
    <3>4. CASE h = k /\ key[s] # k
      <4>1. held'[k] = {s} /\ ~Others(s, k)
        BY <2>1, <2>3, <3>4, ContentAssumption
      <4>2. QED
        BY <3>4, <4>1 DEF Others
    <3>5. QED
      BY <3>2, <3>3, <3>4
  <2>4. QED
    BY <2>2, <2>3 DEF Holding
<1>2. CASE UNCHANGED <<key, held, reused>>
  BY <1>2 DEF Holding
<1>3. \A q \in Requests : /\ req[q] \in Update => req[q].story \in Stories /\ req[q].key \in Keys \cup {NoKey}
                          /\ req[q] \in Publish => req[q].story \in Stories /\ Home[req[q].story] \in Keys
  BY ContentAssumption DEF Update, Publish
<1>4. Typed \subseteq Keys \cup {NoKey}
  BY TypedType
<1>5. QED
  BY <1>1, <1>2, <1>3, <1>4, RowWrites

\* What is on record of a request's stories goes with the request.
LEMMA GatheredStep ==
  ASSUME AudioInv, TypeOK', Holding', [Next]_vars
  PROVE  Gathered'
<1> USE DEF AudioInv, CleanInv
<1> DEFINE Found(q, k) == \E s \in held[k] : s \in mixed \/ (Live(s) /\ key[s] = k /\ s \in Concerns(req[q]))
           All(q) == \A s \in Concerns(req[q]) :
                       Live(s) /\ key[s] # NoKey /\ s \notin mixed => key[s] \in req[q].got \cup lost
           G(q) == /\ req[q].at \in {"read", "collect"} => req[q].got = {}
                   /\ req[q].at \in {"write", "delete", "cascade"} =>
                        (\A k \in req[q].got : Found(q, k)) /\ All(q)
                   /\ req[q].at = "enqueue" => \A k \in req[q].got : held[k] # {}
<1>0. /\ \A k \in Keys : held[k] \subseteq held'[k]
      /\ mixed \subseteq mixed' /\ lost \subseteq lost'
  BY HistoryGrows
<1>1. ASSUME NEW q \in Requests, req'[q].at \in {"write", "delete", "cascade", "enqueue"}
      PROVE  req'[q].got \subseteq Keys
  BY <1>1, Kinds DEF TypeOK, RequestType, Idle, Update, DeleteStory, DeletePOI, Publish, Disable
<1>2. ASSUME NEW q \in Requests, ~Acts(q) PROVE G(q)'
  <2>1. req'[q] = req[q] /\ G(q)
    BY <1>2, StaysPut DEF Gathered
  <2>2. ASSUME NEW k \in Keys, Found(q, k) PROVE Found(q, k)'
    <3>1. PICK s \in held[k] : s \in mixed \/ (Live(s) /\ key[s] = k /\ s \in Concerns(req[q]))
      BY <2>2
    <3>2. s \in held'[k]
      BY <1>0, <3>1
    <3>3. CASE s \in mixed'
      BY <3>2, <3>3
    <3>4. CASE s \notin mixed'
      <4>1. Live(s) /\ key[s] = k /\ s \in Concerns(req[q])
        BY <1>0, <3>1, <3>4
      <4>2. row'[s] = row[s] /\ place'[s] = place[s] /\ key'[s] = key[s]
        BY <1>2, <3>4, <4>1, Undisturbed
      <4>3. Live(s)' /\ key'[s] = k /\ s \in Concerns(req[q])'
        BY <2>1, <4>1, <4>2 DEF Concerns, OnStory, At, Live
      <4>4. QED
        BY <3>2, <4>3
    <3>5. QED
      BY <3>3, <3>4
  <2>3. ASSUME All(q), NEW s \in Concerns(req[q])', Live(s)', key'[s] # NoKey, s \notin mixed'
        PROVE  key'[s] \in req'[q].got \cup lost'
    <3>1. s \in Concerns(req[q])
      BY <1>2, <2>3, ConcernsStep DEF Acts
    <3>2. row'[s] = row[s] /\ place'[s] = place[s] /\ key'[s] = key[s]
      BY <1>2, <2>3, <3>1, Undisturbed
    <3>3. key[s] \in req[q].got \cup lost
      BY <1>0, <2>3, <3>1, <3>2 DEF Live
    <3>4. QED
      BY <1>0, <2>1, <3>2, <3>3
  <2>4. ASSUME NEW k \in Keys, held[k] # {} PROVE held'[k] # {}
    BY <1>0, <2>4
  <2>5. QED
    BY <1>1, <2>1, <2>2, <2>3, <2>4
<1>3. ASSUME NEW q \in Requests, Start(q) PROVE G(q)'
  <2>1. /\ req'[q].at \notin {"write", "delete", "cascade", "enqueue"}
        /\ req'[q].at \in {"read", "collect"} => req'[q].got = {}
    BY <1>3, StartStep
  <2>2. QED
    BY <2>1
<1>4. ASSUME NEW q \in Requests, Step(q) \/ Fail(q) PROVE G(q)'
  <2>1. CASE req'[q] = Idle
    BY <2>1 DEF Idle
  <2>2. CASE req'[q].at \in {"write", "delete"} /\ (ReadOld(q) \/ Collect(q))
    <3> DEFINE S == {s \in Concerns(req[q]) : Live(s)}
    <3>1. UNCHANGED <<row, place, key, held>> /\ req'[q].at \notin {"cascade", "enqueue"}
      BY <2>2 DEF ReadOld, Collect, storyVars
    <3>2. Keeps(q)
      BY <1>4, <2>2, RequestStep DEF Idle
    <3>3. Concerns(req[q])' = Concerns(req[q])
      BY <2>2, <3>1, <3>2, Kinds DEF Concerns, Keeps, OnStory, At, Live
    <3>4. \/ req'[q].got = KeysOf(S)
          \/ req'[q].got = {} /\ KeysOf(S) \subseteq lost'
      <4>1. CASE ReadOld(q)
        <5>1. req[q] \in Update /\ req[q].got = {}
          BY <4>1, Kinds DEF ReadOld, TypeOK, Gathered
        <5>2. Concerns(req[q]) = {req[q].story}
          BY <5>1, ConcernTypes
        <5>3. CASE req' = [req EXCEPT ![q].at = "write",
                             ![q].got = IF Live(req[q].story) THEN KeysOf({req[q].story}) ELSE {}]
          <6>1. req'[q].got = IF Live(req[q].story) THEN KeysOf({req[q].story}) ELSE {}
            BY <5>1, <5>3 DEF TypeOK, RequestType, Update
          <6>2. KeysOf({}) = {}
            BY DEF KeysOf
          <6>3. S = IF Live(req[q].story) THEN {req[q].story} ELSE {}
            BY <5>2
          <6>4. QED
            BY <6>1, <6>2, <6>3
        <5>4. CASE Goto(q, "write") /\ lost' = lost \cup KeysOf({req[q].story})
          <6>1. req'[q].got = {}
            BY <5>1, <5>4 DEF Goto, TypeOK, RequestType, Update
          <6>2. KeysOf(S) \subseteq KeysOf({req[q].story})
            BY <5>2 DEF KeysOf
          <6>3. QED
            BY <5>4, <6>1, <6>2
        <5>5. QED
          BY <4>1, <5>3, <5>4 DEF ReadOld
      <4>2. CASE Collect(q)
        <5>1. req[q] \in DeleteStory \cup DeletePOI /\ req[q].got = {}
          BY <4>2, Kinds DEF Collect, TypeOK, Gathered
        <5>2. Doomed(req[q]) = S
          BY <4>2, ConcernTypes DEF Collect
        <5>3. CASE req' = [req EXCEPT ![q].at = "delete", ![q].got = KeysOf(Doomed(req[q]))]
          BY <5>1, <5>2, <5>3 DEF TypeOK, RequestType, DeleteStory, DeletePOI
        <5>4. CASE Goto(q, "delete") /\ lost' = lost \cup KeysOf(Doomed(req[q]))
          BY <5>1, <5>2, <5>4 DEF Goto, TypeOK, RequestType, DeleteStory, DeletePOI
        <5>5. QED
          BY <4>2, <5>3, <5>4 DEF Collect
      <4>3. QED
        BY <2>2, <4>1, <4>2
    <3>5. ASSUME NEW k \in KeysOf(S) PROVE Found(q, k)'
      <4>1. PICK s \in S : key[s] = k /\ k # NoKey
        BY DEF KeysOf
      <4>2. s \in held[k]
        BY <4>1, ConcernTypes DEF Holding
      <4>3. QED
        BY <3>1, <3>3, <4>1, <4>2 DEF Live
    <3>6. ASSUME NEW s \in S, key[s] # NoKey PROVE key[s] \in KeysOf(S)
      BY <3>6 DEF KeysOf
    <3>7. ASSUME NEW s \in Concerns(req[q])', Live(s)', key'[s] # NoKey
          PROVE  key'[s] \in req'[q].got \cup lost'
      <4>1. s \in S /\ key[s] = key'[s]
        BY <3>1, <3>3, <3>7 DEF Live
      <4>2. QED
        BY <3>4, <3>6, <3>7, <4>1
    <3> HIDE DEF S
    <3>8. QED
      BY <2>2, <3>1, <3>4, <3>5, <3>7
  <2>3. CASE /\ req'[q].at \in {"upload", "link", "rmobject", "delete"} /\ req'[q].got = {}
             /\ req[q].op = "publish" /\ Keeps(q)
    <3> SUFFICES ASSUME req'[q].at = "delete" PROVE All(q)'
      BY <2>3
    <3>1. Upload(q) \/ RemoveObject(q)
      <4>1. req[q] \in Publish
        BY <2>3, Kinds DEF TypeOK
      <4>2. ~ReadOld(q) /\ ~WriteStory(q) /\ ~Collect(q) /\ ~Enqueue(q) /\ ~Apply(q) /\ ~ReadReport(q) /\ ~ReadStory(q)
        BY <4>1 DEF ReadOld, WriteStory, Collect, Enqueue, Apply, ReadReport, ReadStory, Publish
      <4>3. ASSUME NEW l, Goto(q, l) PROVE l = "delete"
        BY <4>3 DEF Goto, TypeOK, RequestType
      <4>4. ~End(q)
        BY DEF End, Idle, TypeOK, RequestType
      <4>5. QED
        BY <1>4, <2>3, <4>2, <4>3, <4>4 DEF Step, LockDoomed, Cascade, Insert, Link, Deadlock, Fail
    <3>2. UNCHANGED <<row, place, key, mixed>>
      BY <3>1 DEF Upload, RemoveObject, storyVars
    <3>3. Concerns(req[q])' = {req[q].story}
      BY <2>3 DEF Keeps, Concerns, OnStory
    <3>4. key[req[q].story] = NoKey \/ req[q].story \in mixed
      BY <2>3 DEF Publishing
    <3>5. QED
      BY <3>2, <3>3, <3>4
  <2>4. CASE req'[q].at = "cascade" /\ LockDoomed(q) /\ req'[q].got = req[q].got /\ Keeps(q)
    <3>1. UNCHANGED <<row, place, key, held, mixed, lost>>
      BY <2>4 DEF LockDoomed, storyVars, ghostVars
    <3>2. Concerns(req[q])' = Concerns(req[q])
      BY <2>4, <3>1, Kinds DEF Concerns, Keeps, OnStory, At, Live, LockDoomed
    <3>3. (\A k \in req[q].got : Found(q, k)) /\ All(q)
      BY <2>4 DEF LockDoomed, Gathered
    <3>4. QED
      BY <2>4, <3>1, <3>2, <3>3 DEF Live
  <2>5. CASE req'[q].at = "enqueue" /\ req'[q].got \subseteq req[q].got /\ (WriteStory(q) \/ Cascade(q))
    <3>1. \A k \in req[q].got : held[k] # {}
      BY <2>5 DEF Gathered, WriteStory, Cascade
    <3>2. \A k \in req'[q].got : k \in Keys /\ held'[k] # {}
      BY <1>0, <1>1, <2>5, <3>1
    <3>3. QED
      BY <2>5, <3>2
  <2>6. CASE req'[q].at \in {"report", "story", "apply"}
    BY <2>6
  <2>7. QED
    BY <1>4, <2>1, <2>2, <2>3, <2>4, <2>5, <2>6, RequestStep DEF Dropped
<1>5. \A q \in Requests : G(q)'
  BY <1>2, <1>3, <1>4 DEF Acts
<1>6. QED
  BY <1>5 DEF Gathered

\* How an object goes: a worker had a job for it, or its publication is undone.
LEMMA ObjectGoes ==
  ASSUME AudioInv, [Next]_vars, NEW k \in objects, k \notin objects'
  PROVE  /\ UNCHANGED <<row, place, key, held, reused, mixed>>
         /\ \/ held[k] # {} /\ Unused(k)
            \/ \E q \in Requests : /\ RemoveObject(q) /\ req[q] \in Publish
                                   /\ req[q].at = "rmobject" /\ Home[req[q].story] = k
<1> USE DEF AudioInv, CleanInv, TypeOK
<1>1. ASSUME NEW w \in Cleaners, Erase(w) PROVE held[k] # {} /\ Unused(k)
  <2>1. PICK i \in cleaner[w].batch : objects' \in {objects, objects \ {jobs[i].key}}
    BY <1>1 DEF Erase
  <2>2. jobs[i].key = k /\ i \in DOMAIN jobs
    BY <1>1, <2>1 DEF StoreType
  <2>3. QED
    BY <2>2 DEF LetGo
<1>2. ASSUME NEW q \in Requests, RemoveObject(q)
      PROVE  /\ req[q] \in Publish /\ req[q].at = "rmobject" /\ Home[req[q].story] = k
             /\ UNCHANGED <<row, place, key, held, reused, mixed>>
  BY <1>2, Kinds DEF RemoveObject, storyVars
<1>3. ASSUME NEW w \in Cleaners, Clean(w) \/ Die(w)
      PROVE  Erase(w) /\ UNCHANGED <<row, place, key, held, reused, mixed>>
  BY <1>3 DEF Clean, Claim, Erase, Mark, Reclaim, Die, storyVars, ghostVars
<1>4. ASSUME NEW q \in Requests, Start(q) \/ Fail(q) PROVE FALSE
  BY <1>4, StartStep, BeginStays DEF Fail, storeVars
<1>5. ASSUME NEW q \in Requests, Step(q) PROVE RemoveObject(q)
  BY <1>5 DEF Step, ReadOld, WriteStory, Collect, LockDoomed, Cascade, Enqueue, Insert, Upload,
     Uploaded, Link, ReadReport, ReadStory, Apply, Deadlock, storeVars
<1>6. ASSUME NEW s \in Stories, CreateStory(s) PROVE FALSE
  BY <1>6 DEF CreateStory, Handler, storeVars
<1>7. ASSUME NEW r \in Reports, CreateReport(r) \/ UpdateReport(r) PROVE FALSE
  BY <1>7 DEF CreateReport, UpdateReport, Handler, storeVars
<1>8. ~UNCHANGED vars
  BY DEF vars, storeVars
<1>9. QED
  BY <1>1, <1>2, <1>3, <1>4, <1>5, <1>6, <1>7, <1>8 DEF Next

\* A publication finds its story without audio, and its object uploaded.
LEMMA PublishingStep ==
  ASSUME AudioInv, TypeOK', PublishedOnce', Born', [Next]_vars
  PROVE  Publishing'
<1> USE DEF AudioInv, CleanInv
<1> SUFFICES ASSUME NEW q \in Requests, req'[q].op = "publish"
             PROVE  /\ key'[req'[q].story] = NoKey \/ req'[q].story \in mixed'
                    /\ req'[q].at = "link" =>
                         Home[req'[q].story] \in objects' \cup lost' \/ held'[Home[req'[q].story]] # {}
  BY DEF Publishing
<1>1. CASE Start(q)
  <2>1. row'[req'[q].story] = "none" /\ req'[q].at = "insert" /\ req'[q].story \in Stories
    BY <1>1, StartStep, BeginStays
  <2>2. QED
    BY <2>1 DEF Born
<1>2. CASE ~Start(q)
  <2>1. req[q].op = "publish" /\ req'[q].story = req[q].story
    BY <1>2, RequestStep, StaysPut DEF Acts, Keeps, Idle, OnStory
  <2>2. PICK s \in Stories : s = req[q].story
    BY <2>1, Kinds DEF TypeOK, Publish
  <2>3. s \in Concerns(req[q]) /\ Home[s] \in Keys
    BY <2>1, <2>2, ContentAssumption DEF Concerns, OnStory
  <2>4. key'[s] = NoKey \/ s \in mixed'
    <3>1. CASE row'[s] = row[s] /\ place'[s] = place[s] /\ key'[s] = key[s]
      BY <2>1, <2>2, <3>1, HistoryGrows DEF Publishing
    <3>2. CASE ~Acts(q) /\ s \notin mixed'
      BY <2>3, <3>1, <3>2, Undisturbed
    <3>3. CASE Acts(q) /\ ~(row'[s] = row[s] /\ place'[s] = place[s] /\ key'[s] = key[s])
      <4>1. Step(q) \/ Fail(q)
        BY <1>2, <3>3 DEF Acts
      <4>2. req[q] \in Publish
        BY <2>1, Kinds DEF TypeOK
      <4>3. Insert(q)
        <5>1. ~UNCHANGED <<row, place, key>>
          BY <3>3
        <5>2. ~Cascade(q)
          <6>1. ASSUME Cascade(q) PROVE FALSE
            <7>1. req[q].got = {}
              BY <4>2 DEF Publish
            <7>2. req'[q] = Idle
              BY <6>1, <7>1 DEF Cascade, End, TypeOK, RequestType
            <7>3. QED
              BY <2>1, <7>2 DEF Idle
          <6>2. QED
            BY <6>1
        <5>3. ~Link(q)
          <6>1. ASSUME Link(q) PROVE FALSE
            <7>1. ~End(q)
              BY DEF End, Idle, TypeOK, RequestType
            <7>2. QED
              BY <5>1, <6>1, <7>1 DEF Link, storyVars
          <6>2. QED
            BY <6>1
        <5>4. ~WriteStory(q)
          BY <4>2, Kinds DEF TypeOK, WriteStory, Update, Publish
        <5>5. QED
          BY <4>1, <5>1, <5>2, <5>3, <5>4 DEF Step, ReadOld, Collect, LockDoomed, Enqueue, Upload,
             RemoveObject, ReadReport, ReadStory, Apply, Deadlock, Fail, storyVars
      <4>4. SetStory(s, req[q].poi, NoKey, TRUE)
        BY <2>2, <3>3, <4>3 DEF Insert, storyVars
      <4>5. key'[s] = NoKey
        BY <4>4 DEF SetStory, TypeOK, StoryType
      <4>6. QED
        BY <4>5
    <3>4. QED
      BY <3>1, <3>2, <3>3
  <2>5. ASSUME req'[q].at = "link"
        PROVE  Home[s] \in objects' \cup lost' \/ held'[Home[s]] # {}
    <3>1. CASE Acts(q)
      <4>1. objects' = Uploaded(q)
        BY <1>2, <2>5, <3>1, RequestStep DEF Acts, Idle
      <4>2. QED
        BY <2>2, <4>1 DEF Uploaded
    <3>2. CASE ~Acts(q)
      <4>1. req[q].at = "link"
        BY <2>5, <3>2, StaysPut
      <4>2. Home[s] \in objects \cup lost \/ held[Home[s]] # {}
        BY <2>1, <2>2, <4>1 DEF Publishing
      <4>3. lost \subseteq lost' /\ held[Home[s]] \subseteq held'[Home[s]]
        BY <2>3, HistoryGrows
      <4>4. ASSUME Home[s] \in objects, Home[s] \notin objects' PROVE held[Home[s]] # {}
        <5>1. ASSUME NEW p \in Requests, RemoveObject(p), req[p] \in Publish, Home[req[p].story] = Home[s]
              PROVE  FALSE
          <6>1. p # q
            BY <3>2, <5>1 DEF Acts, Step
          <6>2. req[p].story = s /\ req[p].op = "publish"
            BY <5>1, ContentAssumption DEF Publish
          <6>3. QED
            BY <2>1, <2>2, <6>1, <6>2 DEF PublishedOnce
        <5>2. QED
          BY <4>4, <5>1, ObjectGoes
      <4>5. QED
        BY <4>2, <4>3, <4>4
    <3>3. QED
      BY <3>1, <3>2
  <2>6. QED
    BY <2>1, <2>2, <2>4, <2>5
<1>3. QED
  BY <1>1, <1>2

\* An address that is typed in is there, or counts as given twice.
LEMMA TypingStep ==
  ASSUME AudioInv, TypeOK', [Next]_vars
  PROVE  Typing'
<1> USE DEF AudioInv, CleanInv
<1> SUFFICES ASSUME NEW q \in Requests, req'[q].at \in {"read", "write"}, req'[q].key # NoKey
             PROVE  \/ req'[q].key \in objects' \cup lost' \/ held'[req'[q].key] # {}
                    \/ Others(req'[q].story, req'[q].key) \/ req'[q].story \in mixed'
  BY DEF Typing, Others
<1>1. req'[q] \in Update /\ req'[q].op = "update"
  BY DEF TypeOK, RequestType, Idle, Update, DeleteStory, DeletePOI, Publish, Disable
<1>2. CASE Start(q)
  <2>1. req'[q].key \in Typed \cup KeysOf({req'[q].story}) /\ req'[q].story \in Stories
    BY <1>2, StartStep
  <2>2. UNCHANGED <<objects, held>>
    BY <1>2, StartStep, BeginStays
  <2>3. QED
    BY <2>1, <2>2 DEF Typed, KeysOf, Holding
<1>3. CASE ~Start(q)
  <2>1. /\ req[q].op = "update" /\ req'[q].story = req[q].story /\ req'[q].key = req[q].key
        /\ req[q].at \in {"read", "write"}
    <3>1. CASE ~Acts(q)
      BY <1>1, <3>1, StaysPut
    <3>2. CASE Acts(q)
      <4>1. Keeps(q) /\ ReadOld(q)
        BY <1>3, <3>2, RequestStep DEF Acts, Idle
      <4>2. QED
        BY <4>1 DEF Keeps, ReadOld, OnStory
    <3>3. QED
      BY <3>1, <3>2
  <2>2. PICK k \in Keys, s \in Stories : k = req[q].key /\ s = req[q].story
    BY <1>1, <2>1 DEF Update
  <2>3. k \in objects \cup lost \/ held[k] # {} \/ Others(s, k) \/ s \in mixed
    BY <2>1, <2>2, ContentAssumption DEF Typing
  <2>4. lost \subseteq lost' /\ held[k] \subseteq held'[k] /\ mixed \subseteq mixed'
    BY HistoryGrows
  <2>5. ASSUME k \in objects, k \notin objects' PROVE held[k] # {} \/ Others(s, k) \/ s \in mixed
    <3>1. ASSUME NEW p \in Requests, req[p] \in Publish, Home[req[p].story] = k
          PROVE  Others(s, k) \/ s \in mixed
      <4>1. CASE req[p].story = s
        <5>1. p # q
          BY <2>1, <3>1 DEF Publish
        <5>2. s \in Concerns(req[p]) /\ s \in Concerns(req[q])
          BY <2>1, <2>2, <3>1, <4>1 DEF Concerns, OnStory, Publish
        <5>3. QED
          BY <5>1, <5>2 DEF Met
      <4>2. CASE req[p].story # s
        BY <3>1, <4>2 DEF Others, Publish
      <4>3. QED
        BY <4>1, <4>2
    <3>2. QED
      BY <2>5, <3>1, ObjectGoes
  <2>6. QED
    BY <2>1, <2>2, <2>3, <2>4, <2>5
<1>4. QED
  BY <1>2, <1>3

\* How a live story comes by audio: it was typed in or uploaded, and no other
\* story has had it, or it counts as given twice.
LEMMA GetsAudio ==
  ASSUME AudioInv, [Next]_vars, NEW s \in Stories, NEW k \in Keys, Live(s)', key'[s] = k,
         k \notin reused', ~(Live(s) /\ key[s] = k)
  PROVE  /\ held[k] = {} /\ ~Others(s, k)
         /\ \/ k \in objects
            \/ \E q \in Requests : /\ req[q].at = "write" /\ req[q].story = s /\ req[q].key = k
            \/ \E q \in Requests : /\ req[q].op = "publish" /\ req[q].at = "link"
                                   /\ req[q].story = s /\ Home[s] = k
<1> USE DEF AudioInv, CleanInv
<1>1. k # NoKey /\ (Live(s) \/ key[s] # k)
  <2>1. CASE row[s] = "none"
    BY <2>1, ContentAssumption DEF Born
  <2>2. CASE row[s] # "none" /\ key[s] = k
    <3>1. row[s] = "gone" /\ row'[s] = "live"
      BY <2>2 DEF Live, TypeOK, StoryType
    <3>2. ASSUME NEW t \in Stories, NEW p, NEW a, NEW active, SetStory(t, p, a, active), Live(t) \/ row[t] = "none"
          PROVE  FALSE
      <4>1. s # t
        BY <3>1, <3>2 DEF Live
      <4>2. QED
        BY <3>1, <3>2, <4>1, SetStoryStep
    <3>3. ASSUME NEW q \in Requests, Insert(q), req[q] \in Publish
          PROVE  row[req[q].story] = "none" /\ req[q].story \in Stories
      BY <3>3 DEF Insert, Born, Publish
    <3>4. ASSUME NEW q \in Requests, row' = [t \in Stories |-> IF t \in Doomed(req[q]) THEN "gone" ELSE row[t]]
          PROVE  FALSE
      BY <3>1, <3>4
    <3>5. \A q \in Requests : req[q] \in Update \cup Publish => req[q].story \in Stories
      BY DEF Update, Publish
    <3>6. row' # row
      BY <3>1
    <3>7. QED
      BY <3>2, <3>3, <3>4, <3>5, <3>6, RowWrites
  <2>3. QED
    BY <2>1, <2>2, ContentAssumption
<1>2. ASSUME NEW t \in Stories, NEW p, NEW a, NEW active, SetStory(t, p, a, active), Live(t) \/ row[t] = "none"
      PROVE  t = s /\ a = k /\ held[k] = {} /\ ~Others(s, k)
  <2>1. t = s
    BY <1>2, SetStoryStep DEF Live
  <2>2. a = k
    BY <1>2, <2>1, SetStoryStep
  <2>3. key[s] # k
    BY <1>1, <1>2, <2>1, ContentAssumption DEF Born
  <2>4. QED
    BY <1>1, <1>2, <2>1, <2>2, <2>3, SetStoryStep
<1>3. ASSUME NEW q \in Requests, WriteStory(q), req[q] \in Update, Live(req[q].story),
             SetStory(req[q].story, req[q].poi, req[q].key, req[q].active)
      PROVE  /\ held[k] = {} /\ ~Others(s, k)
             /\ req[q].at = "write" /\ req[q].story = s /\ req[q].key = k
  <2>1. req[q].story \in Stories
    BY <1>3 DEF Update
  <2>2. QED
    BY <1>2, <1>3, <2>1 DEF WriteStory
<1>4. ASSUME NEW q \in Requests, Insert(q), req[q] \in Publish,
             SetStory(req[q].story, req[q].poi, NoKey, TRUE)
      PROVE  FALSE
  <2>1. req[q].story \in Stories /\ row[req[q].story] = "none"
    BY <1>4 DEF Publish, Insert, Born
  <2>2. QED
    BY <1>1, <1>2, <1>4, <2>1
<1>5. ASSUME NEW q \in Requests, Link(q), req[q] \in Publish, Live(req[q].story),
             SetStory(req[q].story, req[q].poi, Home[req[q].story], TRUE)
      PROVE  /\ held[k] = {} /\ ~Others(s, k)
             /\ req[q].op = "publish" /\ req[q].at = "link" /\ req[q].story = s /\ Home[s] = k
  <2>1. req[q].story \in Stories /\ req[q].op = "publish"
    BY <1>5 DEF Publish
  <2>2. QED
    BY <1>2, <1>5, <2>1 DEF Link
<1>6. ASSUME NEW q \in Requests, key' = key,
             row' = [t \in Stories |-> IF t \in Doomed(req[q]) THEN "gone" ELSE row[t]]
      PROVE  FALSE
  BY <1>6 DEF Live, TypeOK, StoryType
<1>7. ASSUME NEW t \in Stories, NEW p \in pois, NEW a \in Typed, NEW active \in BOOLEAN,
             row[t] = "none", SetStory(t, p, a, active)
      PROVE  held[k] = {} /\ ~Others(s, k) /\ k \in objects
  BY <1>1, <1>2, <1>7 DEF Typed
<1>8. ~UNCHANGED <<row, key>>
  BY DEF Live
<1>9. QED
  BY <1>3, <1>4, <1>5, <1>6, <1>7, <1>8, RowWrites

\* Audio that no story has, though one had it, no story gets again without its
\* counting as given twice.
LEMMA UnusedStep ==
  ASSUME AudioInv, [Next]_vars, NEW k \in Keys, held[k] # {}, Unused(k)
  PROVE  Unused(k)' /\ held'[k] # {}
<1> USE DEF AudioInv, CleanInv
<1>1. held'[k] # {} /\ reused \subseteq reused' /\ mixed \subseteq mixed'
  BY HistoryGrows
<1>2. ASSUME k \notin reused', NEW s \in Stories, Live(s)', key'[s] = k PROVE s \in mixed'
  <2>1. Live(s) /\ key[s] = k
    BY <1>2, GetsAudio
  <2>2. QED
    BY <1>1, <1>2, <2>1 DEF Unused
<1>3. QED
  BY <1>1, <1>2 DEF Unused

\* Where a job comes from.
LEMMA NewJobs ==
  ASSUME CleanInv, [Next]_vars, NEW i \in DOMAIN jobs' \ DOMAIN jobs
  PROVE  \E q \in Requests : req[q].at = "enqueue" /\ jobs'[i].key \in req[q].got
<1>1. ASSUME NEW q \in Requests, Enqueue(q)
      PROVE  req[q].at = "enqueue" /\ jobs'[i].key \in req[q].got
  BY <1>1, EnqueueJobs DEF Enqueue, CleanInv
<1>2. ASSUME NEW w \in Cleaners, Claim(w) \/ Mark(w) \/ Reclaim(w) PROVE FALSE
  BY <1>2 DEF Claim, Mark, Reclaim, CleanInv, TypeOK, StoreType
<1>3. QED
  BY <1>1, <1>2, Writers

\* What a request is about to schedule when it was not before.
LEMMA Schedules ==
  ASSUME AudioInv, [Next]_vars, NEW q \in Requests, Acts(q), req'[q].at = "enqueue"
  PROVE  /\ req'[q].got \subseteq req[q].got /\ req[q].at \in {"write", "cascade"}
         /\ \A s \in Concerns(req[q]), k \in req'[q].got : ~(Live(s)' /\ key'[s] = k)
<1> USE DEF AudioInv, CleanInv
<1>1. ~Start(q)
  BY StartStep
<1>2. CASE WriteStory(q) /\ req'[q].got = Dropped(req[q])
  <2>1. req[q] \in Update /\ Concerns(req[q]) = {req[q].story} /\ req[q].story \in Stories
    BY <1>2, Kinds, ConcernTypes DEF WriteStory, TypeOK
  <2>2. SetStory(req[q].story, req[q].poi, req[q].key, req[q].active)
    <3>1. ~End(q)
      BY DEF End, Idle, TypeOK, RequestType
    <3>2. QED
      BY <1>2, <3>1 DEF WriteStory
  <2>3. key'[req[q].story] = req[q].key
    BY <2>1, <2>2, SetStoryStep
  <2>4. QED
    BY <1>2, <2>1, <2>3 DEF Dropped, WriteStory
<1>3. CASE Cascade(q) /\ req'[q].got = req[q].got
  <2>1. Doomed(req[q]) = {s \in Concerns(req[q]) : Live(s)} /\ Concerns(req[q]) \subseteq Stories
    BY <1>3, ConcernTypes DEF Cascade
  <2>2. \A s \in Concerns(req[q]) : ~Live(s)'
    BY <1>3, <2>1 DEF Cascade, Live
  <2>3. QED
    BY <1>3, <2>2 DEF Cascade
<1>4. QED
  BY <1>1, <1>2, <1>3, RequestStep DEF Acts, Idle

\* Nothing is scheduled that a story has.
LEMMA LetGoStep ==
  ASSUME AudioInv, TypeOK', Holding', [Next]_vars
  PROVE  LetGo'
<1> USE DEF AudioInv, CleanInv
<1>1. ASSUME NEW q \in Requests, req'[q].at = "enqueue", NEW k \in req'[q].got
      PROVE  Unused(k)'
  <2>1. k \in Keys
    BY <1>1, Kinds DEF TypeOK, RequestType, Idle, Update, DeleteStory, DeletePOI, Publish, Disable
  <2>2. CASE ~Acts(q)
    <3>1. held[k] # {} /\ Unused(k)
      BY <1>1, <2>2, StaysPut DEF LetGo, Gathered
    <3>2. QED
      BY <2>1, <3>1, UnusedStep
  <2>3. CASE Acts(q)
    <3>1. /\ k \in req[q].got /\ req[q].at \in {"write", "cascade"}
          /\ \A s \in Concerns(req[q]) : ~(Live(s)' /\ key'[s] = k)
      BY <1>1, <2>3, Schedules
    <3>2. PICK s \in held[k] : s \in mixed \/ s \in Concerns(req[q])
      BY <3>1 DEF Gathered
    <3>3. ASSUME k \notin reused', NEW t \in Stories, Live(t)', key'[t] = k PROVE t \in mixed'
      <4>1. t \in held'[k] /\ s \in held'[k]
        BY <2>1, <3>2, <3>3, HistoryGrows, ContentAssumption DEF Holding
      <4>2. s = t
        BY <2>1, <3>3, <4>1 DEF Holding
      <4>3. QED
        BY <3>1, <3>2, <3>3, <4>2, HistoryGrows
    <3>4. QED
      BY <3>3 DEF Unused
  <2>4. QED
    BY <2>2, <2>3
<1>2. ASSUME NEW i \in DOMAIN jobs' PROVE held'[jobs'[i].key] # {} /\ Unused(jobs[i].key)'
  <2>1. PICK k : k = jobs'[i].key
    OBVIOUS
  <2>2. k \in Keys
    <3>1. jobs' \in Seq(Job)
      BY DEF TypeOK, StoreType
    <3>2. jobs'[i] \in Job
      BY <1>2, <3>1
    <3>3. QED
      BY <2>1, <3>2 DEF Job
  <2>3. held[k] # {} /\ Unused(k)
    <3>1. CASE i \in DOMAIN jobs
      BY <2>1, <3>1, JobStep DEF LetGo
    <3>2. CASE i \notin DOMAIN jobs
      BY <1>2, <2>1, <3>2, NewJobs DEF LetGo, Gathered
    <3>3. QED
      BY <3>1, <3>2
  <2>4. Unused(k)' /\ held'[k] # {}
    BY <2>2, <2>3, UnusedStep
  <2>5. QED
    BY <2>1, <2>4 DEF Unused
<1>3. QED
  BY <1>1, <1>2 DEF LetGo

\* The audio of a live story is there after any step.
LEMMA LiveAudioStep ==
  ASSUME AudioInv, [Next]_vars
  PROVE  LiveAudioKept'
<1> USE DEF AudioInv, CleanInv
<1>1. ASSUME NEW s \in Stories, NEW k \in Keys, Live(s)', key'[s] = k,
             k \notin reused' \cup lost', s \notin mixed'
      PROVE  k \in objects'
  <2>1. k \notin reused \cup lost /\ s \notin mixed
    BY <1>1, HistoryGrows
  <2>2. CASE Live(s) /\ key[s] = k
    <3>1. k \in objects
      BY <2>1, <2>2, ContentAssumption DEF LiveAudioKept
    <3>2. ASSUME k \notin objects' PROVE FALSE
      <4>1. ~Unused(k)
        BY <2>1, <2>2 DEF Unused
      <4>2. PICK q \in Requests : req[q] \in Publish /\ Home[req[q].story] = k
        BY <3>1, <3>2, <4>1, ObjectGoes
      <4>3. s \in held[k]
        BY <2>2, ContentAssumption DEF Holding
      <4>4. req[q].story = s
        BY <2>1, <4>2, <4>3 DEF Holding, Publish
      <4>5. QED
        BY <2>1, <2>2, <4>2, <4>4, ContentAssumption DEF Publishing, Publish
    <3>3. QED
      BY <3>2
  <2>3. CASE ~(Live(s) /\ key[s] = k)
    <3>1. held[k] = {} /\ ~Others(s, k)
      BY <1>1, <2>3, GetsAudio
    <3>2. k \in objects
      <4>1. ASSUME NEW q \in Requests, req[q].at = "write", req[q].story = s, req[q].key = k
            PROVE  k \in objects
        BY <2>1, <3>1, <4>1, ContentAssumption DEF Typing
      <4>2. ASSUME NEW q \in Requests, req[q].op = "publish", req[q].at = "link",
                   req[q].story = s, Home[s] = k
            PROVE  k \in objects
        BY <2>1, <3>1, <4>2 DEF Publishing
      <4>3. QED
        BY <1>1, <2>3, <4>1, <4>2, GetsAudio
    <3>3. ~UNCHANGED <<row, key>>
      BY <1>1, <2>3 DEF Live
    <3>4. QED
      BY <3>2, <3>3, ObjectGoes
  <2>4. QED
    BY <2>2, <2>3
<1>2. \A s \in Stories : key'[s] \in Keys \cup {NoKey}
  BY TypeStory DEF StoryType
<1>3. QED
  BY <1>1, <1>2 DEF LiveAudioKept

\* A batch is scheduled whole.
LEMMA WholeBatch ==
  ASSUME TypeOK, NEW q \in Requests, Enqueue(q), NEW k \in req[q].got
  PROVE  \/ k \in lost'
         \/ \E i \in DOMAIN jobs' : jobs'[i].key = k /\ jobs'[i].status = "pending"
<1>1. req[q].got \subseteq Keys
  BY Kinds DEF TypeOK, Enqueue, Update, DeleteStory, DeletePOI
<1> DEFINE n == Cardinality(req[q].got)
<1>2. IsFiniteSet(req[q].got) /\ n \in Nat
  BY <1>1, ContentAssumption, FS_Subset, FS_CardinalityType
<1>3. CASE lost' = lost \cup req[q].got
  BY <1>3
<1>4. CASE \E order \in [1..n -> req[q].got] :
             /\ \A i, j \in DOMAIN order : i # j => order[i] # order[j]
             /\ jobs' = jobs \o [i \in DOMAIN order |->
                                   [key |-> order[i], status |-> "pending", attempts |-> 0]]
  <2>1. PICK order \in [1..n -> req[q].got] :
             /\ \A i, j \in DOMAIN order : i # j => order[i] # order[j]
             /\ jobs' = jobs \o [i \in DOMAIN order |->
                                   [key |-> order[i], status |-> "pending", attempts |-> 0]]
    BY <1>4
  <2>2. PICK S : S = req[q].got
    OBVIOUS
  <2> DEFINE m == Cardinality(S)
  <2>3. order \in [1..m -> S] /\ \A a, b \in 1..m : order[a] = order[b] => a = b
    BY <2>1, <2>2
  <2>4. order \in Injection(1..m, S)
    BY <2>3 DEF Injection, IsInjective
  <2>5. m \in Nat /\ IsFiniteSet(S)
    BY <1>2, <2>2
  <2>6. Cardinality(1..m) = m
    BY <2>5, FS_Interval
  <2>7. order \in Surjection(1..m, S)
    BY <2>4, <2>5, <2>6, FS_Injection
  <2>8. PICK j \in 1..m : order[j] = k
    BY <2>2, <2>7 DEF Surjection
  <2> DEFINE new == [i \in 1..m |-> [key |-> order[i], status |-> "pending", attempts |-> 0]]
  <2>9. new \in Seq(Job) /\ Len(new) = m
    <3>1. \A i \in 1..m : new[i] \in Job
      BY <1>1, <2>1, <2>2 DEF Job
    <3>2. m \in Nat /\ new = [i \in 1..m |-> new[i]]
      BY <2>5
    <3> HIDE DEF new, m
    <3>3. QED
      BY <3>1, <3>2
  <2>10. jobs' = jobs \o new
    BY <2>1, <2>2
  <2>11. new[j].key = k /\ new[j].status = "pending"
    BY <2>8
  <2> HIDE DEF new, m
  <2>12. jobs \in Seq(Job)
    BY DEF TypeOK, StoreType
  <2>13. Len(jobs) + j \in DOMAIN jobs' /\ jobs'[Len(jobs) + j] = new[j]
    BY <2>5, <2>8, <2>9, <2>10, <2>12
  <2>14. QED
    BY <2>11, <2>13
<1>5. QED
  BY <1>3, <1>4 DEF Enqueue

\* When a live story gives its audio up, a request that knows of it is about to
\* schedule it.
LEMMA GivesAudioUp ==
  ASSUME AudioInv, [Next]_vars, NEW s \in Stories, NEW k \in Keys, Live(s), key[s] = k,
         s \notin mixed, k \notin lost, ~(Live(s)' /\ key'[s] = k)
  PROVE  \E q \in Requests : req'[q].at = "enqueue" /\ k \in req'[q].got
<1> USE DEF AudioInv, CleanInv
<1>1. k # NoKey /\ row[s] = "live"
  BY ContentAssumption DEF Live
<1>2. ASSUME NEW q \in Requests, req[q].at \in {"write", "cascade"}, s \in Concerns(req[q])
      PROVE  k \in req[q].got
  BY <1>1, <1>2 DEF Gathered
<1>3. ASSUME NEW t \in Stories, NEW p, NEW a, NEW active, SetStory(t, p, a, active)
      PROVE  t = s /\ a # k
  <2>1. t = s
    BY <1>3, SetStoryStep DEF Live
  <2>2. QED
    BY <1>3, <2>1, SetStoryStep DEF Live
<1>4. ASSUME NEW q \in Requests, WriteStory(q), req[q] \in Update,
             SetStory(req[q].story, req[q].poi, req[q].key, req[q].active)
      PROVE  req'[q].at = "enqueue" /\ k \in req'[q].got
  <2>1. req[q].story = s /\ req[q].key # k /\ s \in Concerns(req[q]) /\ req[q].at = "write"
    <3>1. Concerns(req[q]) = {req[q].story} /\ req[q].story \in Stories
      BY <1>4, ConcernTypes
    <3>2. QED
      BY <1>3, <1>4, <3>1 DEF WriteStory
  <2>2. k \in Dropped(req[q])
    BY <1>2, <2>1 DEF Dropped
  <2>3. req' = [req EXCEPT ![q].at = "enqueue", ![q].got = Dropped(req[q])]
    <3>1. ~(~Live(req[q].story))
      BY <2>1
    <3>2. \/ IF Dropped(req[q]) = {} THEN End(q)
             ELSE req' = [req EXCEPT ![q].at = "enqueue", ![q].got = Dropped(req[q])]
          \/ UNCHANGED storyVars
      BY <1>4 DEF WriteStory
    <3>3. ~UNCHANGED storyVars
      BY DEF storyVars, Live
    <3>4. QED
      BY <2>2, <3>2, <3>3
  <2>4. QED
    BY <1>4, <2>2, <2>3 DEF TypeOK, RequestType, Update
<1>5. ASSUME NEW q \in Requests, Insert(q), req[q] \in Publish,
             SetStory(req[q].story, req[q].poi, NoKey, TRUE)
      PROVE  FALSE
  <2>1. req[q].story \in Stories /\ row[req[q].story] = "none"
    BY <1>5 DEF Publish, Insert, Born
  <2>2. QED
    BY <1>1, <1>3, <1>5, <2>1
<1>6. ASSUME NEW q \in Requests, Link(q), req[q] \in Publish,
             SetStory(req[q].story, req[q].poi, Home[req[q].story], TRUE)
      PROVE  FALSE
  <2>1. req[q].story \in Stories /\ req[q].op = "publish"
    BY <1>6 DEF Publish
  <2>2. req[q].story = s
    BY <1>3, <1>6, <2>1
  <2>3. QED
    BY <1>1, <2>1, <2>2 DEF Publishing
<1>7. ASSUME NEW q \in Requests, Cascade(q), key' = key,
             row' = [t \in Stories |-> IF t \in Doomed(req[q]) THEN "gone" ELSE row[t]]
      PROVE  req'[q].at = "enqueue" /\ k \in req'[q].got
  <2>1. s \in Doomed(req[q]) /\ req[q].at = "cascade"
    BY <1>1, <1>7 DEF Live, Cascade
  <2>2. k \in req[q].got
    BY <1>2, <2>1, ConcernTypes
  <2>3. Goto(q, "enqueue")
    BY <1>7, <2>2 DEF Cascade
  <2>4. req[q] \in DeleteStory \cup DeletePOI \cup Publish
    BY <2>1, Kinds DEF TypeOK
  <2>5. QED
    BY <2>2, <2>3, <2>4 DEF Goto, TypeOK, RequestType, DeleteStory, DeletePOI, Publish
<1>8. ASSUME NEW t \in Stories, NEW p \in pois, NEW a \in Typed, NEW active \in BOOLEAN,
             row[t] = "none", SetStory(t, p, a, active)
      PROVE  FALSE
  BY <1>1, <1>3, <1>8
<1>9. ~UNCHANGED <<row, key>>
  BY DEF Live
<1>10. QED
  BY <1>4, <1>5, <1>6, <1>7, <1>8, <1>9, RowWrites

\* An object that turns up nobody has had.
LEMMA ObjectComes ==
  ASSUME AudioInv, [Next]_vars, NEW k \in objects', k \notin objects
  PROVE  held[k] = {} /\ UNCHANGED held
<1> USE DEF AudioInv, CleanInv
<1>1. PICK q \in Requests : Upload(q)
  BY Writers
<1>2. req[q] \in Publish /\ req[q].at = "upload"
  BY <1>1, Kinds DEF TypeOK, Upload
<1>3. Unborn(req[q].story) /\ req[q].story \in Stories
  BY <1>2 DEF Unborn, Publish
<1>4. k = Home[req[q].story]
  BY <1>1 DEF Upload, Uploaded
<1>5. QED
  BY <1>1, <1>3, <1>4 DEF Born, Upload

\* Audio that nobody has any more is accounted for after any step.
LEMMA OrphansStep ==
  ASSUME AudioInv, TypeOK', Holding', [Next]_vars
  PROVE  OrphansQueued'
<1> USE DEF AudioInv, CleanInv
<1> SUFFICES ASSUME NEW k \in objects', held'[k] # {}, held'[k] \cap mixed' = {},
                    k \notin reused' \cup lost',
                    \A s \in Stories : ~(Live(s)' /\ key'[s] = k),
                    \A q \in Requests : ~(Busy(q)' /\ req'[q].op # "disable" /\ k \in req'[q].got),
                    \A i \in DOMAIN jobs' : ~(jobs'[i].key = k /\ jobs'[i].status # "completed")
             PROVE  FALSE
  BY DEF OrphansQueued, Live, Busy
<1>1. k \in Keys
  BY DEF TypeOK, StoreType
<1>2. held[k] \subseteq held'[k] /\ reused \subseteq reused' /\ mixed \subseteq mixed' /\ lost \subseteq lost'
  BY <1>1, HistoryGrows
<1>3. k \in objects
  BY ObjectComes
<1>4. held[k] # {}
  <2>1. ASSUME NEW s \in Stories, NEW p, NEW a, NEW active, SetStory(s, p, a, active) PROVE a # k
    BY <2>1, SetStoryStep DEF Live
  <2>2. ASSUME NEW s \in Stories, NEW p, NEW a, NEW active, SetStory(s, p, a, active)
        PROVE  held'[k] = held[k]
    <3>1. a # k
      BY <2>1, <2>2
    <3>2. QED
      BY <1>1, <2>2, <3>1, SetStoryStep
  <2>3. held'[k] = held[k]
    BY <2>2, RowWrites DEF Update, Publish
  <2>4. QED
    BY <2>3
<1>5. \A s \in Stories : ~(Live(s) /\ key[s] = k)
  <2> SUFFICES ASSUME NEW s \in Stories, Live(s), key[s] = k PROVE FALSE
    OBVIOUS
  <2>1. s \in held[k]
    BY <1>1, ContentAssumption DEF Holding
  <2>2. s \notin mixed /\ k \notin lost
    BY <1>2, <2>1
  <2>3. PICK q \in Requests : req'[q].at = "enqueue" /\ k \in req'[q].got
    BY <1>1, <2>2, GivesAudioUp
  <2>4. req'[q].op # "disable"
    BY <2>3 DEF TypeOK, RequestType, Idle, Update, DeleteStory, DeletePOI, Publish, Disable
  <2>5. QED
    BY <2>3, <2>4 DEF Busy
<1>6. ASSUME NEW q \in Requests, Busy(q), req[q].op # "disable", k \in req[q].got PROVE FALSE
  <2>1. req[q] \in Update \cup DeleteStory \cup DeletePOI \cup Publish
    BY <1>6 DEF Busy, TypeOK, RequestType, Idle, Disable
  <2>2. req[q].at \in {"write", "delete", "cascade", "enqueue"}
    BY <1>6, <2>1 DEF Gathered, Update, DeleteStory, DeletePOI, Publish
  <2>3. CASE req[q].at # "enqueue"
    <3>1. PICK s \in held[k] : s \in mixed \/ (Live(s) /\ key[s] = k /\ s \in Concerns(req[q]))
      BY <1>6, <2>2, <2>3 DEF Gathered
    <3>2. s \in Stories
      BY <1>1, <3>1 DEF GhostType
    <3>3. QED
      BY <1>2, <1>5, <3>1, <3>2
  <2>4. CASE req[q].at = "enqueue"
    <3>1. Acts(q)
      BY <1>6, StaysPut DEF Busy
    <3>2. Enqueue(q) \/ Fail(q)
      <4>1. ~Start(q)
        BY <2>4, <3>1 DEF Start, StartUpdate, StartDeleteStory, StartDeletePOI, StartPublish, StartDisable,
           Begin, Busy
      <4>2. req[q] \notin Disable
        BY <1>6 DEF Disable
      <4>3. QED
        BY <2>4, <3>1, <4>1, <4>2 DEF Acts, Step, ReadOld, WriteStory, Collect, LockDoomed, Cascade,
           Insert, Upload, Link, RemoveObject, ReadReport, ReadStory, Apply, Deadlock
    <3>3. CASE Fail(q)
      BY <1>6, <2>4, <3>3 DEF Fail
    <3>4. CASE Enqueue(q)
      BY <1>6, <3>4, WholeBatch
    <3>5. QED
      BY <3>2, <3>3, <3>4
  <2>5. QED
    BY <2>3, <2>4
<1>7. ASSUME NEW i \in DOMAIN jobs, jobs[i].key = k, jobs[i].status # "completed" PROVE FALSE
  BY <1>3, <1>7, JobStep
<1>8. QED
  BY <1>2, <1>3, <1>4, <1>5, <1>6, <1>7 DEF OrphansQueued

\* Before anybody asks for anything each story has the audio it is named after.
LEMMA AudioInit == Init => AudioInv
<1> SUFFICES ASSUME Init PROVE AudioInv
  OBVIOUS
<1>1. CleanInv
  BY CleanInit
<1>2. /\ \A q \in Requests : req[q].op = "none" /\ req[q].at = "idle"
      /\ jobs = <<>> /\ reused = {} /\ mixed = {} /\ lost = {}
  BY DEF Init, Idle
<1>3. PICK S \in SUBSET Stories :
        /\ row = [s \in Stories |-> IF s \in S THEN "live" ELSE "none"]
        /\ key = [s \in Stories |-> IF s \in S THEN Home[s] ELSE NoKey]
        /\ held = [k \in Keys |-> {s \in S : Home[s] = k}]
        /\ objects = {Home[s] : s \in S} \cup (Keys \ {Home[s] : s \in Stories})
  BY DEF Init
<1>4. GhostType
  BY <1>3 DEF GhostType
<1>5. Born
  BY <1>2, <1>3, ContentAssumption DEF Born, Unborn
<1>6. Holding
  BY <1>3, ContentAssumption DEF Holding
<1>7. Met /\ Gathered /\ Publishing /\ Typing /\ LetGo
  BY <1>2 DEF Met, Concerns, OnStory, Gathered, Publishing, Typing, LetGo
<1>8. LiveAudioKept
  BY <1>3 DEF LiveAudioKept, Live
<1>9. OrphansQueued
  <2> SUFFICES ASSUME NEW k \in objects, NEW s \in held[k]
               PROVE  s \in Stories /\ Live(s) /\ key[s] = k
    BY DEF OrphansQueued
  <2>1. k \in Keys
    BY <1>1 DEF CleanInv, TypeOK, StoreType
  <2>2. s \in S /\ Home[s] = k
    BY <1>3, <2>1
  <2>3. QED
    BY <1>3, <2>2 DEF Live
<1>10. QED
  BY <1>1, <1>4, <1>5, <1>6, <1>7, <1>8, <1>9 DEF AudioInv

\* Every step keeps the account of who had, has and schedules what.
LEMMA AudioNext == AudioInv /\ [Next]_vars => AudioInv'
<1> SUFFICES ASSUME AudioInv, [Next]_vars PROVE AudioInv'
  OBVIOUS
<1>1. CleanInv'
  BY CleanNext DEF AudioInv
<1>2. TypeOK' /\ PublishedOnce'
  BY <1>1 DEF CleanInv
<1>3. GhostType'
  BY HistoryGrows DEF AudioInv, CleanInv
<1>4. Born' /\ Holding'
  BY <1>2, BornStep, HoldingStep
<1>5. QED
  BY <1>1, <1>2, <1>3, <1>4, MetStep, GatheredStep, PublishingStep, TypingStep, LetGoStep,
     LiveAudioStep, OrphansStep DEF AudioInv

\* Whatever is deleted, replaced, published, undone and cleaned up at the same
\* time, the audio of a live story exists.
THEOREM LiveAudioIsKept == Spec => []LiveAudioKept
<1>1. AudioInv => LiveAudioKept
  BY DEF AudioInv
<1>2. QED
  BY <1>1, AudioInit, AudioNext, PTL DEF Spec

\* And audio that no story has any more has a job, or will have one.
THEOREM OrphansAreQueued == Spec => []OrphansQueued
<1>1. AudioInv => OrphansQueued
  BY DEF AudioInv
<1>2. QED
  BY <1>1, AudioInit, AudioNext, PTL DEF Spec
=============================================================================
