--------------------------- MODULE SyncQueueProofs ---------------------------
(***************************************************************************)
(* Theorems about SyncQueue for any events, retry limit, queue size and    *)
(* number of sessions, deaths of the process and failing statements.       *)
(*                                                                         *)
(* The argument: a mutation is either still with its request or has its    *)
(* one row, never both, and only events with a row or in the snapshot of   *)
(* the running loop are sent.  For those the counters are tied to the      *)
(* retry_count column, off by one just between a send and its bookkeeping, *)
(* which is where a death or a failed statement costs one repetition.      *)
(***************************************************************************)
EXTENDS SyncQueue, TLAPS, FiniteSetTheorems

\* The head of the loop: the loop ends, or takes the next item of the snapshot.
LEMMA ProceedCases ==
  ASSUME NEW S \in SUBSET Events, Proceed(S)
  PROVE  /\ todo' \subseteq S
         /\ \/ loop' = "off" /\ todo' = {} /\ item' = item
            \/ /\ loop' = "send" /\ item' \in S /\ item' \notin todo'
               /\ tries[item'] < MaxRetry
BY DEF Proceed

-----------------------------------------------------------------------------
(***************************************************************************)
(* Type correctness, by group of variables.                                *)
(***************************************************************************)
\* Initially every variable has its type.
LEMMA TypeInit == Init => TypeOK
<1> SUFFICES ASSUME Init PROVE TypeOK
  OBVIOUS
<1>1. RequestType /\ LoopType /\ CountType
  BY BoundAssumption DEF Init, RequestType, LoopType, CountType, Stages, LoopStages
<1>2. FlagType
  BY DEF Init, FlagType
<1>3. TableType /\ ServerType
  BY LimitAssumption DEF Init, TableType, ServerType
<1>4. QED
  BY <1>1, <1>2, <1>3 DEF TypeOK

\* Where requests are, who performed them.
LEMMA RequestStep == ASSUME TypeOK, [Next]_vars PROVE RequestType'
<1> USE DEF TypeOK, RequestType
<1>1. ASSUME NEW e \in Events, Request(e) \/ Handle(e)
      PROVE  RequestType'
  BY <1>1 DEF Taken, Request, Handle, ServerAnswers, NetworkError, CountRows, InsertRow,
              EnqueueFails, Goto, Stages, Enqueueing, Answered
<1>2. CASE GoOffline \/ GoOnline \/ TimerFires \/ Process
  BY <1>2 DEF GoOffline, GoOnline, TimerFires, Process, Send, DeleteSent,
              Bump, BumpFails, Wake
<1>3. CASE SwitchUser \/ OpenQueue
  BY <1>3, BoundAssumption DEF SwitchUser, OpenQueue
<1>4. CASE Kill
  BY <1>4 DEF Kill, Stages, Enqueueing, Answered
<1>5. CASE UNCHANGED vars
  BY <1>5 DEF vars
<1>6. QED
  BY <1>1, <1>2, <1>3, <1>4, <1>5 DEF Next

\* The flags.
LEMMA FlagStep == ASSUME TypeOK, [Next]_vars PROVE FlagType'
<1> USE DEF TypeOK, FlagType
<1>1. ASSUME NEW e \in Events, Request(e) \/ Handle(e)
      PROVE  FlagType'
  <2>1. CASE NetworkError(e)
    <3>1. Cardinality({d \in Events : req'[d] \in Enqueueing}) \in Nat
      BY EventAssumption, FS_Subset, FS_CardinalityType
    <3>2. QED
      BY <2>1, <3>1 DEF NetworkError, Larger
  <2>2. QED
    BY <1>1, <2>1 DEF Request, Handle, ServerAnswers, CountRows, InsertRow, EnqueueFails
<1>2. CASE GoOffline \/ GoOnline \/ TimerFires \/ SwitchUser \/ OpenQueue \/ Kill
  BY <1>2 DEF GoOffline, GoOnline, TimerFires, SwitchUser, OpenQueue, Kill
<1>3. CASE Process
  BY <1>3 DEF Process, Send, DeleteSent, Bump, BumpFails, Wake
<1>4. CASE UNCHANGED vars
  BY <1>4 DEF vars
<1>5. QED
  BY <1>1, <1>2, <1>3, <1>4 DEF Next

\* The table.
LEMMA TableStep == ASSUME TypeOK, [Next]_vars PROVE TableType'
<1> USE DEF TypeOK, TableType
<1>1. ASSUME NEW e \in Events, InsertRow(e)
      PROVE  TableType'
  <2>1. ids' \in Seq(Events)
    BY <1>1 DEF InsertRow
  <2>2. QED
    BY <1>1, <2>1 DEF InsertRow
<1>2. CASE UNCHANGED tableVars
  BY <1>2 DEF tableVars
<1>3. CASE DeleteSent \/ SwitchUser
  BY <1>3 DEF DeleteSent, SwitchUser, RemoveItem
<1>4. CASE Bump
  BY <1>4, LimitAssumption DEF Bump, RemoveItem, CountRetry, Spent
<1>5. QED
  BY <1>1, <1>2, <1>3, <1>4
     DEF Next, Handle, Request, ServerAnswers, NetworkError, CountRows, EnqueueFails,
         GoOffline, GoOnline, TimerFires, Process, Send, BumpFails, Wake, OpenQueue, Kill, vars

\* The loop.
LEMMA LoopStep == ASSUME TypeOK, [Next]_vars PROVE LoopType'
<1> USE DEF TypeOK, LoopType, TableType, LoopStages
<1>1. CASE UNCHANGED loopVars
  BY <1>1 DEF loopVars
<1>2. CASE TimerFires
  BY <1>2, ProceedCases DEF TimerFires, loopVars
<1>3. CASE DeleteSent \/ Bump \/ Wake
  BY <1>3, ProceedCases DEF DeleteSent, Bump, Wake
<1>4. CASE Send \/ BumpFails \/ Kill
  BY <1>4 DEF Send, BumpFails, Kill
<1>5. QED
  BY <1>1, <1>2, <1>3, <1>4
     DEF Next, Handle, Request, ServerAnswers, NetworkError, CountRows, InsertRow,
         EnqueueFails, GoOffline, GoOnline, Process, SwitchUser, OpenQueue, vars

\* What the server has seen, and what clearAll deleted.
LEMMA ServerStep == ASSUME TypeOK, [Next]_vars PROVE ServerType'
<1> USE DEF TypeOK, ServerType
<1>1. ASSUME NEW e \in Events, ServerAnswers(e) \/ NetworkError(e)
      PROVE  ServerType'
  BY <1>1 DEF ServerAnswers, NetworkError, Perform, RequestType, serverVars
<1>2. CASE Send
  BY <1>2 DEF Send, Perform, RequestType, LoopType, serverVars
<1>3. CASE SwitchUser
  BY <1>3 DEF SwitchUser, TableType, serverVars
<1>4. CASE UNCHANGED <<serverVars, asked, cleared>>
  BY <1>4 DEF serverVars
<1>5. QED
  BY <1>1, <1>2, <1>3, <1>4
     DEF Next, Handle, Request, CountRows, InsertRow, EnqueueFails,
         GoOffline, GoOnline, TimerFires, Process, DeleteSent, Bump, BumpFails, Wake, OpenQueue,
         Kill, vars

\* The counters of deaths and failed statements.
LEMMA CountStep == ASSUME TypeOK, [Next]_vars PROVE CountType'
<1> USE BoundAssumption DEF TypeOK, CountType
<1>1. CASE UNCHANGED countVars
  BY <1>1 DEF countVars
<1>2. ASSUME NEW e \in Events, EnqueueFails(e) \/ InsertRow(e)
      PROVE  CountType'
  BY <1>2 DEF EnqueueFails, InsertRow, Fault
<1>3. CASE DeleteSent \/ BumpFails \/ Kill
  BY <1>3 DEF DeleteSent, BumpFails, Kill, Fault
<1>4. QED
  BY <1>1, <1>2, <1>3
     DEF Next, Handle, Request, ServerAnswers, NetworkError, CountRows,
         GoOffline, GoOnline, TimerFires, Process, Send, Bump, Wake, SwitchUser, OpenQueue, vars

\* Every variable keeps its type; the retry_count column stays below MaxRetry,
\* so no row lingers that the loop would skip.
THEOREM TypeCorrect == Spec => []TypeOK
<1>1. TypeOK /\ [Next]_vars => TypeOK'
  BY RequestStep, FlagStep, TableStep, LoopStep, ServerStep, CountStep DEF TypeOK
<1>2. QED
  BY <1>1, TypeInit, PTL DEF Spec

-----------------------------------------------------------------------------
(***************************************************************************)
(* Delivery: what is accepted is neither lost nor repeated without cause.  *)
(***************************************************************************)
\* What the loop may still send: rows, the rest of the snapshot, the item.
InLoop == IF loop = "off" THEN {} ELSE {item}
Live   == rows \cup todo \cup InLoop

\* 1 for the item between its send and the bookkeeping, resp. the DELETE.
Unwritten(e)  == IF loop \in {"delete", "bump"} /\ item = e THEN 1 ELSE 0
Undeleted(e) == IF loop = "delete" /\ item = e THEN 1 ELSE 0

\* Only events whose request the table took are sent.
RowInv == \A e \in Events : /\ e \in Live => req[e] \in Taken
                            /\ req[e] \notin Taken => asked[e] = 0

\* The counters, while the loop may send an event and for ever.
LoopInv == /\ loop # "off" => item \notin todo
           /\ loop = "delete" => seen[item] > 0
AskedInv == \A e \in Events :
    /\ tries[e] + Unwritten(e) <= asked[e]
    /\ e \in Live => asked[e] <= tries[e] + Unwritten(e) + kills + faults
    /\ asked[e] <= MaxRetry + kills + faults
SeenInv == \A e \in Events :
    /\ req[e] \in {"new", "sent"} \cup Enqueueing => seen[e] <= lost[e]
    /\ e \in Live => seen[e] <= lost[e] + Undeleted(e) + kills + faults
    /\ seen[e] <= 1 + lost[e] + kills + faults

DeliveryInv == TypeOK /\ RowInv /\ LoopInv /\ AskedInv /\ SeenInv /\ AcceptedSurvives

\* Nothing but an insertion gives the loop something to send.
LEMMA LiveStep ==
  ASSUME TypeOK, Next, NEW e \in Events, e \in Live', e \notin Live
  PROVE  InsertRow(e)
<1> USE DEF TypeOK, TableType, LoopType, Live, InLoop
<1>1. CASE UNCHANGED <<rows, loopVars>>
  BY <1>1 DEF loopVars
<1>2. ASSUME NEW d \in Events, InsertRow(d)
      PROVE  InsertRow(e)
  BY <1>2 DEF InsertRow, loopVars
<1>3. CASE TimerFires
  BY <1>3, ProceedCases DEF TimerFires, loopVars, tableVars
<1>4. CASE DeleteSent \/ Bump
  BY <1>4, ProceedCases DEF DeleteSent, Bump, RemoveItem
<1>5. CASE Wake
  BY <1>5, ProceedCases DEF Wake, tableVars
<1>6. CASE Send \/ BumpFails \/ SwitchUser \/ Kill
  BY <1>6 DEF Send, BumpFails, SwitchUser, Kill, tableVars, loopVars
<1>7. QED
  BY <1>1, <1>2, <1>3, <1>4, <1>5, <1>6
     DEF Next, Handle, Process, Request, ServerAnswers, NetworkError, CountRows,
         EnqueueFails, GoOffline, GoOnline, OpenQueue, tableVars

\* A request the table took stays taken, and only InsertRow takes one.
LEMMA ReqStep ==
  ASSUME TypeOK, [Next]_vars, NEW e \in Events
  PROVE  /\ req[e] \in Taken => req'[e] \in Taken
         /\ req'[e] \in Taken => req[e] \in Taken \/ InsertRow(e)
<1> USE DEF TypeOK, RequestType
<1>1. CASE UNCHANGED req
  BY <1>1
<1>2. ASSUME NEW d \in Events, Request(d) \/ Handle(d)
      PROVE  /\ req[e] \in Taken => req'[e] \in Taken
             /\ req'[e] \in Taken => req[e] \in Taken \/ InsertRow(e)
  BY <1>2 DEF Taken, Request, Handle, ServerAnswers, NetworkError, CountRows, InsertRow,
              EnqueueFails, Goto, Enqueueing
<1>3. CASE Kill
  BY <1>3 DEF Taken, Kill, Enqueueing
<1>4. QED
  BY <1>1, <1>2, <1>3
     DEF Next, GoOffline, GoOnline, TimerFires, Process, Send, DeleteSent, Bump,
         BumpFails, Wake, SwitchUser, OpenQueue, vars

\* Only Send counts a send, of the loop's item.
LEMMA AskedStep ==
  ASSUME TypeOK, [Next]_vars
  PROVE  asked' = asked \/ Send
BY DEF Next, Handle, Request, ServerAnswers, NetworkError, CountRows, InsertRow,
       EnqueueFails, GoOffline, GoOnline, TimerFires, Process, DeleteSent, Bump,
       BumpFails, Wake, SwitchUser, OpenQueue, Kill, vars

\* Every step keeps RowInv.
LEMMA RowStep == ASSUME TypeOK, RowInv, [Next]_vars PROVE RowInv'
<1> SUFFICES ASSUME NEW e \in Events
             PROVE  /\ e \in Live' => req'[e] \in Taken
                    /\ req'[e] \notin Taken => asked'[e] = 0
  BY DEF RowInv
<1>1. CASE UNCHANGED vars
  BY <1>1 DEF vars, tableVars, loopVars, RowInv, Live, InLoop
<1>2. CASE Next
  <2>1. e \in Live' => req'[e] \in Taken
    <3>1. InsertRow(e) => req'[e] \in Taken
      BY DEF Taken, InsertRow, Goto, TypeOK, RequestType
    <3>2. QED
      BY <1>2, <3>1, LiveStep, ReqStep DEF RowInv
  <2>2. req'[e] \notin Taken => asked'[e] = 0
    <3>1. CASE asked' = asked
      BY <3>1, ReqStep DEF RowInv
    <3>2. CASE Send
      BY <3>2, ReqStep DEF RowInv, Send, Live, InLoop, TypeOK, LoopType, ServerType
    <3>3. QED
      BY <3>1, <3>2, AskedStep
  <2>3. QED
    BY <2>1, <2>2
<1>3. QED
  BY <1>1, <1>2

\* What the loop knows of its item.
LEMMA LoopInvStep == ASSUME TypeOK, LoopInv, [Next]_vars PROVE LoopInv'
<1> USE DEF TypeOK, LoopType, TableType, LoopInv
<1>1. CASE UNCHANGED <<loopVars, seen>>
  BY <1>1 DEF loopVars
<1>2. ASSUME NEW e \in Events, ServerAnswers(e) \/ NetworkError(e)
      PROVE  LoopInv'
  <2>1. UNCHANGED loopVars
    BY <1>2 DEF ServerAnswers, NetworkError
  <2>2. seen'[item] >= seen[item] /\ seen[item] \in Nat /\ seen'[item] \in Nat
    <3>1. seen' = seen \/ seen' = [seen EXCEPT ![e] = @ + 1]
      BY <1>2 DEF ServerAnswers, NetworkError, Perform, serverVars
    <3>2. seen[item] \in Nat
      BY DEF ServerType
    <3>3. seen'[item] = seen[item] \/ seen'[item] = seen[item] + 1
      BY <3>1 DEF ServerType
    <3>4. QED
      BY <3>2, <3>3
  <2>3. QED
    BY <2>1, <2>2 DEF loopVars
<1>3. CASE TimerFires
  BY <1>3, ProceedCases DEF TimerFires, loopVars, serverVars
<1>4. CASE DeleteSent \/ Bump \/ Wake
  BY <1>4, ProceedCases DEF DeleteSent, Bump, Wake, serverVars
<1>5. CASE Send
  BY <1>5 DEF Send, Perform, ServerType, serverVars
<1>6. CASE BumpFails \/ Kill
  BY <1>6 DEF BumpFails, Kill
<1>7. QED
  BY <1>1, <1>2, <1>3, <1>4, <1>5, <1>6
     DEF Next, Handle, Process, Request, CountRows, InsertRow, EnqueueFails, GoOffline,
         GoOnline, SwitchUser, OpenQueue, serverVars, vars

\* Deaths and failures are only counted up.
LEMMA CountsGrow ==
  ASSUME TypeOK, [Next]_vars
  PROVE  /\ kills \in Nat /\ faults \in Nat /\ kills' \in Nat /\ faults' \in Nat
         /\ kills' >= kills /\ faults' >= faults
<1>1. CountType /\ CountType'
  BY CountStep DEF TypeOK
<1>2. kills' = kills \/ kills' = kills + 1
  BY DEF Next, Handle, Request, ServerAnswers, NetworkError, CountRows, InsertRow,
       EnqueueFails, GoOffline, GoOnline, TimerFires, Process, Send, DeleteSent, Bump,
       BumpFails, Wake, SwitchUser, OpenQueue, Kill, countVars, vars
<1>3. faults' = faults \/ faults' = faults + 1
  BY DEF Next, Handle, Request, ServerAnswers, NetworkError, CountRows, InsertRow,
       EnqueueFails, GoOffline, GoOnline, TimerFires, Process, Send, DeleteSent, Bump,
       BumpFails, Wake, SwitchUser, OpenQueue, Kill, Fault, countVars, vars
<1>4. QED
  BY <1>1, <1>2, <1>3, BoundAssumption DEF CountType

\* The counter of sends follows the retry_count column.
LEMMA AskedInvStep ==
  ASSUME TypeOK, TypeOK', RowInv, LoopInv, AskedInv, [Next]_vars
  PROVE  AskedInv'
<1> SUFFICES ASSUME NEW e \in Events
             PROVE  /\ tries'[e] + Unwritten(e)' <= asked'[e]
                    /\ e \in Live' => asked'[e] <= tries'[e] + Unwritten(e)' + kills' + faults'
                    /\ asked'[e] <= MaxRetry + kills' + faults'
  BY DEF AskedInv
<1> DEFINE Goal == /\ tries'[e] + Unwritten(e)' <= asked'[e]
                   /\ e \in Live' => asked'[e] <= tries'[e] + Unwritten(e)' + kills' + faults'
                   /\ asked'[e] <= MaxRetry + kills' + faults'
<1>a. /\ tries[e] \in Nat /\ tries[e] <= MaxRetry - 1 /\ asked[e] \in Nat
      /\ tries'[e] \in Nat /\ asked'[e] \in Nat /\ MaxRetry \in Nat
  BY LimitAssumption DEF TypeOK, TableType, ServerType
<1>b. /\ kills \in Nat /\ faults \in Nat /\ kills' \in Nat /\ faults' \in Nat
      /\ kills' >= kills /\ faults' >= faults
  BY CountsGrow
<1>c. /\ tries[e] + Unwritten(e) <= asked[e]
      /\ e \in Live => asked[e] <= tries[e] + Unwritten(e) + kills + faults
      /\ asked[e] <= MaxRetry + kills + faults
  BY DEF AskedInv
<1>d. Unwritten(e) \in {0, 1}
  BY DEF Unwritten
<1>1. CASE UNCHANGED <<loop, item, tries, asked>> /\ (e \in Live' => e \in Live \/ asked[e] = 0)
  BY <1>1, <1>a, <1>b, <1>c DEF Unwritten
<1>2. ASSUME NEW d \in Events, Request(d) \/ Handle(d)
      PROVE  Goal
  <2>1. UNCHANGED <<loop, item, tries, asked>>
    BY <1>2 DEF Request, Handle, ServerAnswers, NetworkError, CountRows, InsertRow,
                EnqueueFails, loopVars, tableVars
  <2>2. e \in Live' => e \in Live \/ asked[e] = 0
    BY <1>2, LiveStep DEF Next, RowInv, InsertRow, Taken
  <2>3. QED
    BY <1>1, <2>1, <2>2
<1>3. CASE GoOffline \/ GoOnline \/ SwitchUser \/ OpenQueue \/ UNCHANGED vars
  <2>1. UNCHANGED <<loop, item, tries, asked>> /\ (e \in Live' => e \in Live)
    BY <1>3 DEF GoOffline, GoOnline, SwitchUser, OpenQueue, loopVars, tableVars, vars, Live, InLoop
  <2>2. QED
    BY <1>1, <2>1
<1>4. CASE TimerFires
  <2>1. UNCHANGED <<tries, asked>> /\ (e \in Live' => e \in Live)
    BY <1>4, LiveStep DEF TimerFires, tableVars, Next, InsertRow, loopVars
  <2>2. Unwritten(e)' = Unwritten(e)
    BY <1>4, ProceedCases DEF TimerFires, loopVars, Unwritten, TypeOK, TableType
  <2>3. QED
    BY <2>1, <2>2, <1>a, <1>b, <1>c, <1>d
<1>5. CASE Send
  <2>1. UNCHANGED <<tries, rows, todo, item>> /\ loop = "send" /\ loop' \in {"delete", "bump"}
    BY <1>5 DEF Send, tableVars
  <2>2. CASE e = item
    <3>1. asked'[e] = asked[e] + 1 /\ Unwritten(e) = 0 /\ Unwritten(e)' = 1 /\ e \in Live
      BY <1>5, <2>1, <2>2 DEF Send, Unwritten, Live, InLoop, TypeOK, ServerType
    <3>2. QED
      BY <2>1, <3>1, <1>a, <1>b, <1>c
  <2>3. CASE e # item
    <3>1. asked'[e] = asked[e] /\ Unwritten(e) = 0 /\ Unwritten(e)' = 0 /\ (e \in Live' => e \in Live)
      BY <1>5, <2>1, <2>3 DEF Send, Unwritten, Live, InLoop, TypeOK, ServerType
    <3>2. QED
      BY <2>1, <3>1, <1>a, <1>b, <1>c
  <2>4. QED
    BY <2>2, <2>3
<1>6. CASE DeleteSent
  <2>1. UNCHANGED <<tries, asked>> /\ (e \in Live' => e \in Live) /\ loop = "delete"
    BY <1>6, LiveStep DEF DeleteSent, Next, Process, InsertRow
  <2>2. CASE Proceed(todo) /\ RemoveItem
    <3>1. /\ loop' \in {"off", "send"} /\ item \notin todo'
          /\ loop' = "send" => item' # item
      BY <2>1, <2>2, ProceedCases DEF LoopInv, TypeOK, LoopType
    <3>2. Unwritten(e)' = 0
      BY <3>1 DEF Unwritten
    <3>3. e = item => e \notin Live'
      BY <2>2, <3>1 DEF Live, InLoop, RemoveItem
    <3>4. e # item => Unwritten(e) = 0
      BY DEF Unwritten
    <3>5. QED
      BY <2>1, <3>2, <3>3, <3>4, <1>a, <1>b, <1>c DEF Unwritten
  <2>3. CASE loop' = "bump" /\ UNCHANGED item
    BY <2>1, <2>3, <1>a, <1>b, <1>c DEF Unwritten
  <2>4. QED
    BY <1>6, <2>2, <2>3 DEF DeleteSent
<1>7. CASE Bump
  <2>1. UNCHANGED asked /\ (e \in Live' => e \in Live) /\ loop = "bump"
    BY <1>7, LiveStep DEF Bump, Next, Process, InsertRow
  <2>2. CASE Proceed(todo) /\ RemoveItem /\ UNCHANGED tries
    <3>1. /\ loop' \in {"off", "send"} /\ item \notin todo'
          /\ loop' = "send" => item' # item
      BY <2>1, <2>2, ProceedCases DEF LoopInv, TypeOK, LoopType
    <3>2. Unwritten(e)' = 0
      BY <3>1 DEF Unwritten
    <3>3. e = item => e \notin Live'
      BY <2>2, <3>1 DEF Live, InLoop, RemoveItem
    <3>4. e # item => Unwritten(e) = 0
      BY DEF Unwritten
    <3>5. QED
      BY <2>1, <2>2, <3>2, <3>3, <3>4, <1>a, <1>b, <1>c DEF Unwritten
  <2>3. CASE CountRetry /\ loop' = "sleep" /\ UNCHANGED item
    <3>1. tries'[e] = IF e = item THEN tries[e] + 1 ELSE tries[e]
      BY <2>3 DEF CountRetry, TypeOK, TableType
    <3>2. QED
      BY <2>1, <2>3, <3>1, <1>a, <1>b, <1>c DEF Unwritten
  <2>4. QED
    BY <1>7, <2>2, <2>3 DEF Bump
<1>8. CASE BumpFails \/ Kill
  <2>1. /\ UNCHANGED <<tries, asked>> /\ (e \in Live' => e \in Live) /\ loop' = "off"
        /\ kills' + faults' = kills + faults + 1
    <3>1. CASE BumpFails
      BY <3>1, <1>b, LiveStep DEF BumpFails, Next, Process, InsertRow, tableVars, loopVars, Fault
    <3>2. CASE Kill
      BY <3>2, <1>b DEF Kill, Live, InLoop, tableVars
    <3>3. QED
      BY <1>8, <3>1, <3>2
  <2>2. Unwritten(e)' = 0 /\ Unwritten(e) \in 0..1
    BY <2>1 DEF Unwritten
  <2>3. tries'[e] = tries[e] /\ asked'[e] = asked[e]
    BY <2>1
  <2>4. Unwritten(e)' = 0 /\ (Unwritten(e) = 0 \/ Unwritten(e) = 1)
    BY <2>2
  <2>5. tries'[e] + Unwritten(e)' <= asked'[e]
    BY <2>3, <2>4, <1>a, <1>c
  <2>6. e \in Live' => asked'[e] <= tries'[e] + Unwritten(e)' + kills' + faults'
    <3> SUFFICES ASSUME e \in Live'  PROVE  asked'[e] <= tries'[e] + Unwritten(e)' + kills' + faults'
      OBVIOUS
    <3>1. asked[e] <= tries[e] + Unwritten(e) + kills + faults
      BY <2>1, <1>c
    <3>2. asked[e] <= tries[e] + 1 + kills + faults
      BY <3>1, <2>4, <1>a, <1>b
    <3>3. kills' + faults' = kills + faults + 1
      BY <2>1
    <3>4. asked[e] <= tries[e] + (kills' + faults')
      <4>1. \A a, t, k, f, m, n \in Nat : a <= t + 1 + k + f /\ m + n = k + f + 1 => a <= t + (m + n)
        OBVIOUS
      <4>2. QED
        BY <4>1, <3>2, <3>3, <1>a, <1>b
    <3>5. QED
      BY <3>4, <2>3, <2>4, <1>a, <1>b
  <2>7. asked'[e] <= MaxRetry + kills' + faults'
    BY <2>1, <2>3, <1>a, <1>b, <1>c
  <2>8. QED
    BY <2>5, <2>6, <2>7
<1>9. CASE Wake
  <2>1. UNCHANGED <<tries, asked>> /\ (e \in Live' => e \in Live)
    BY <1>9, LiveStep DEF Wake, tableVars, Next, Process, InsertRow
  <2>2. Unwritten(e)' = 0 /\ Unwritten(e) = 0
    BY <1>9, ProceedCases DEF Wake, Unwritten, TypeOK, LoopType
  <2>3. QED
    BY <2>1, <2>2, <1>a, <1>b, <1>c
<1>10. QED
  BY <1>2, <1>3, <1>4, <1>5, <1>6, <1>7, <1>8, <1>9 DEF Next, Process

\* How often the server has performed an event, step by step.
LEMMA SeenCases ==
  ASSUME TypeOK, [Next]_vars, NEW e \in Events
  PROVE  /\ seen[e] \in Nat /\ lost[e] \in Nat /\ seen'[e] \in Nat /\ lost'[e] \in Nat
         /\ \/ seen'[e] = seen[e] /\ lost'[e] = lost[e]
            \/ seen'[e] = seen[e] + 1 /\ lost'[e] = lost[e] + 1
            \/ seen'[e] = seen[e] + 1 /\ lost'[e] = lost[e] /\ req[e] = "sent" /\ req'[e] = "ok"
            \/ seen'[e] = seen[e] + 1 /\ lost'[e] = lost[e]
               /\ loop = "send" /\ loop' = "delete" /\ item = e
<1> USE DEF TypeOK, ServerType
<1>1. ServerType'
  BY ServerStep
<1>2. CASE UNCHANGED <<seen, lost>>
  BY <1>1, <1>2
<1>3. ASSUME NEW d \in Events, ServerAnswers(d)
      PROVE  \/ seen'[e] = seen[e] /\ lost'[e] = lost[e]
             \/ /\ seen'[e] = seen[e] + 1 /\ lost'[e] = lost[e]
                /\ req[e] = "sent" /\ req'[e] = "ok"
  BY <1>3 DEF ServerAnswers, Perform, Goto, RequestType
<1>4. ASSUME NEW d \in Events, NetworkError(d)
      PROVE  \/ seen'[e] = seen[e] /\ lost'[e] = lost[e]
             \/ seen'[e] = seen[e] + 1 /\ lost'[e] = lost[e] + 1
  BY <1>4 DEF NetworkError, Perform, serverVars
<1>5. CASE Send
  BY <1>1, <1>5 DEF Send, Perform, LoopType, serverVars
<1>6. QED
  BY <1>1, <1>2, <1>3, <1>4, <1>5
     DEF Next, Handle, Process, Request, CountRows, InsertRow, EnqueueFails,
         GoOffline, GoOnline, TimerFires, DeleteSent, Bump, BumpFails, Wake,
         SwitchUser, OpenQueue, Kill, serverVars, vars

\* While a request is not answered it was not taken, and is not answered yet.
LEMMA UnansweredStep ==
  ASSUME TypeOK, [Next]_vars, NEW e \in Events,
         req'[e] \in {"new", "sent"} \cup Enqueueing
  PROVE  req[e] \in {"new", "sent"} \cup Enqueueing
<1> USE DEF TypeOK, RequestType
<1>1. CASE UNCHANGED req
  BY <1>1
<1>2. ASSUME NEW d \in Events, Request(d) \/ Handle(d)
      PROVE  req[e] \in {"new", "sent"} \cup Enqueueing
  BY <1>2 DEF Request, Handle, ServerAnswers, NetworkError, CountRows, InsertRow,
              EnqueueFails, Goto, Enqueueing
<1>3. CASE Kill
  BY <1>3 DEF Kill, Enqueueing
<1>4. QED
  BY <1>1, <1>2, <1>3
     DEF Next, GoOffline, GoOnline, TimerFires, Process, Send, DeleteSent, Bump,
         BumpFails, Wake, SwitchUser, OpenQueue, vars

\* A DELETE is only skipped at the price of a death or a failed statement.
LEMMA UndeletedStep ==
  ASSUME TypeOK, LoopInv, [Next]_vars, NEW e \in Events, e \in Live', Undeleted(e) = 1
  PROVE  Undeleted(e)' = 1 \/ kills' + faults' = kills + faults + 1
<1>0. loop = "delete" /\ item = e
  BY DEF Undeleted
<1>1. CASE UNCHANGED <<loop, item>>
  BY <1>0, <1>1 DEF Undeleted
<1>2. CASE DeleteSent
  <2>1. CASE Proceed(todo) /\ RemoveItem
    BY <1>0, <2>1, ProceedCases DEF LoopInv, Live, InLoop, RemoveItem, TypeOK, LoopType
  <2>2. CASE Fault /\ kills' = kills
    BY <2>2, CountsGrow DEF Fault
  <2>3. QED
    BY <1>2, <2>1, <2>2 DEF DeleteSent
<1>3. CASE Kill
  BY <1>3, CountsGrow DEF Kill
<1>4. CASE TimerFires
  BY <1>0, <1>1, <1>4 DEF TimerFires, loopVars
<1>5. QED
  BY <1>0, <1>1, <1>2, <1>3, <1>4
     DEF Next, Handle, Process, Request, ServerAnswers, NetworkError, CountRows,
         InsertRow, EnqueueFails, GoOffline, GoOnline, Send, Bump, BumpFails, Wake,
         SwitchUser, OpenQueue, loopVars, vars

\* The DELETE or one more death or failure makes up for a repetition.
LEMMA Compensated ==
  ASSUME NEW s \in Nat, NEW l \in Nat, NEW u \in {0, 1},
         NEW k \in Nat, NEW f \in Nat, NEW m \in Nat, NEW g \in Nat,
         m >= k, g >= f, u = 1 \/ m + g = k + f + 1, s <= l + 1 + k + f
  PROVE  s <= l + u + m + g
OBVIOUS

\* The server performs an event once, and again only for a lost answer, a
\* death or a failed statement.
LEMMA SeenInvStep ==
  ASSUME TypeOK, RowInv, LoopInv, SeenInv, [Next]_vars
  PROVE  SeenInv'
<1> SUFFICES ASSUME NEW e \in Events
             PROVE  /\ req'[e] \in {"new", "sent"} \cup Enqueueing => seen'[e] <= lost'[e]
                    /\ e \in Live' => seen'[e] <= lost'[e] + Undeleted(e)' + kills' + faults'
                    /\ seen'[e] <= 1 + lost'[e] + kills' + faults'
  BY DEF SeenInv, Enqueueing
<1>a. /\ kills \in Nat /\ faults \in Nat /\ kills' \in Nat /\ faults' \in Nat
      /\ kills' >= kills /\ faults' >= faults
  BY CountsGrow
<1>b. Undeleted(e) \in {0, 1} /\ Undeleted(e)' \in {0, 1}
  BY DEF Undeleted
<1>c. /\ req[e] \in {"new", "sent"} \cup Enqueueing => seen[e] <= lost[e]
      /\ e \in Live => seen[e] <= lost[e] + Undeleted(e) + kills + faults
      /\ seen[e] <= 1 + lost[e] + kills + faults
  BY DEF SeenInv
<1>d. /\ seen[e] \in Nat /\ lost[e] \in Nat /\ seen'[e] \in Nat /\ lost'[e] \in Nat
      /\ \/ seen'[e] = seen[e] /\ lost'[e] = lost[e]
         \/ seen'[e] = seen[e] + 1 /\ lost'[e] = lost[e] + 1
         \/ seen'[e] = seen[e] + 1 /\ lost'[e] = lost[e] /\ req[e] = "sent" /\ req'[e] = "ok"
         \/ seen'[e] = seen[e] + 1 /\ lost'[e] = lost[e]
            /\ loop = "send" /\ loop' = "delete" /\ item = e
  BY SeenCases
<1>e. e \in Live' => e \in Live \/ InsertRow(e)
  <2>1. CASE Next
    BY <2>1, LiveStep
  <2>2. CASE UNCHANGED vars
    BY <2>2 DEF vars, tableVars, loopVars, Live, InLoop
  <2>3. QED
    BY <2>1, <2>2
<1>f. InsertRow(e) => /\ req[e] \in {"new", "sent"} \cup Enqueueing /\ req'[e] \in Taken
                      /\ seen'[e] = seen[e] /\ lost'[e] = lost[e]
  BY DEF Taken, InsertRow, Enqueueing, Goto, TypeOK, RequestType, serverVars
<1>g. ASSUME e \in Live'
      PROVE  seen[e] <= lost[e] + Undeleted(e)' + kills' + faults'
  <2>1. CASE InsertRow(e)
    BY <2>1, <1>a, <1>b, <1>c, <1>d, <1>f
  <2>2. CASE e \in Live /\ Undeleted(e) = 0
    BY <2>2, <1>a, <1>b, <1>c, <1>d
  <2>3. CASE e \in Live /\ Undeleted(e) = 1
    <3>1. Undeleted(e)' = 1 \/ kills' + faults' = kills + faults + 1
      BY <1>g, <2>3, UndeletedStep
    <3>2. seen[e] <= lost[e] + 1 + kills + faults /\ seen[e] \in Nat /\ lost[e] \in Nat
      BY <2>3, <1>c, <1>d
    <3>3. QED
      BY <3>1, <3>2, <1>a, <1>b, Compensated
  <2>4. QED
    BY <1>g, <1>b, <1>e, <2>1, <2>2, <2>3
<1>1. CASE seen'[e] = seen[e] /\ lost'[e] = lost[e]
  <2>1. e \in Live' => seen'[e] <= lost'[e] + Undeleted(e)' + kills' + faults'
    BY <1>1, <1>g
  <2>2. QED
    BY <1>1, <2>1, <1>a, <1>c, <1>d, UnansweredStep
<1>2. CASE seen'[e] = seen[e] + 1 /\ lost'[e] = lost[e] + 1
  <2>1. e \in Live' => seen'[e] <= lost'[e] + Undeleted(e)' + kills' + faults'
    BY <1>2, <1>a, <1>b, <1>d, <1>g
  <2>2. QED
    BY <1>2, <2>1, <1>a, <1>c, <1>d, UnansweredStep
<1>3. CASE seen'[e] = seen[e] + 1 /\ lost'[e] = lost[e] /\ req[e] = "sent" /\ req'[e] = "ok"
  <2>1. e \notin Live'
    BY <1>3, <1>e, <1>f DEF Taken, RowInv
  <2>2. QED
    BY <1>3, <2>1, <1>a, <1>c, <1>d DEF Enqueueing
<1>4. CASE /\ seen'[e] = seen[e] + 1 /\ lost'[e] = lost[e]
           /\ loop = "send" /\ loop' = "delete" /\ item = e
  <2>1. e \in Live /\ Undeleted(e) = 0 /\ req[e] \in Taken
    BY <1>4 DEF Live, InLoop, Undeleted, RowInv
  <2>2. Undeleted(e)' = 1
    <3>1. item' = item
      BY <1>4, ProceedCases
         DEF Next, Handle, Process, Request, ServerAnswers, NetworkError, CountRows,
             InsertRow, EnqueueFails, GoOffline, GoOnline, TimerFires, Send,
             DeleteSent, Bump, BumpFails, Wake, SwitchUser, OpenQueue, Kill, loopVars, vars
    <3>2. QED
      BY <1>4, <3>1 DEF Undeleted
  <2>3. req'[e] \in Taken
    BY <2>1, ReqStep
  <2>4. QED
    BY <1>4, <2>1, <2>2, <2>3, <1>a, <1>c, <1>d DEF Taken, Enqueueing
<1>5. QED
  BY <1>d, <1>1, <1>2, <1>3, <1>4

\* A row leaves the table sent, given up or cleared.
LEMMA AcceptedStep ==
  ASSUME TypeOK, LoopInv, AskedInv, AcceptedSurvives, [Next]_vars
  PROVE  AcceptedSurvives'
<1> SUFFICES ASSUME NEW e \in Events, req'[e] \in Taken
             PROVE  \/ e \in rows' \/ e \in cleared' \/ seen'[e] > 0 \/ asked'[e] >= MaxRetry
  BY DEF AcceptedSurvives
<1>a. seen[e] \in Nat /\ lost[e] \in Nat /\ seen'[e] \in Nat /\ seen'[e] >= seen[e]
  BY SeenCases
<1>b. asked[e] \in Nat /\ asked'[e] \in Nat /\ asked'[e] >= asked[e] /\ MaxRetry \in Nat
  <2>1. asked' = asked \/ asked' = [asked EXCEPT ![item] = @ + 1]
    BY AskedStep DEF Send
  <2>2. QED
    BY <2>1, LimitAssumption DEF TypeOK, ServerType
<1>1. CASE InsertRow(e)
  BY <1>1 DEF InsertRow
<1>2. CASE req[e] \in Taken
  <2>1. e \in rows \/ e \in cleared \/ seen[e] > 0 \/ asked[e] >= MaxRetry
    BY <1>2 DEF AcceptedSurvives
  <2>2. CASE rows \subseteq rows' /\ cleared \subseteq cleared'
    BY <2>1, <2>2, <1>a, <1>b
  <2>3. CASE SwitchUser
    BY <2>1, <2>3, <1>a, <1>b DEF SwitchUser
  <2>4. CASE DeleteSent
    <3>1. seen[item] > 0 /\ rows \ {item} \subseteq rows' /\ cleared' = cleared
      BY <2>4 DEF DeleteSent, RemoveItem, LoopInv
    <3>2. QED
      BY <2>1, <3>1, <1>a, <1>b
  <2>5. CASE Bump
    <3>1. CASE e = item /\ Spent(tries[item])
      <4>1. tries[e] + 1 <= asked[e] /\ tries[e] \in Nat
        BY <2>5, <3>1 DEF Bump, AskedInv, Unwritten, TypeOK, TableType
      <4>2. QED
        BY <3>1, <4>1, <1>b DEF Spent
    <3>2. CASE ~(e = item /\ Spent(tries[item]))
      BY <2>1, <2>5, <3>2, <1>a, <1>b DEF Bump, RemoveItem
    <3>3. QED
      BY <3>1, <3>2
  <2>6. QED
    BY <2>2, <2>3, <2>4, <2>5
       DEF Next, Handle, Process, Request, ServerAnswers, NetworkError, CountRows,
           InsertRow, EnqueueFails, GoOffline, GoOnline, TimerFires, Send, BumpFails,
           Wake, OpenQueue, Kill, tableVars, vars
<1>3. QED
  BY <1>1, <1>2, ReqStep

\* The strengthening is inductive.
THEOREM DeliveryInvariant == Spec => []DeliveryInv
<1>1. Init => DeliveryInv
  <2> SUFFICES ASSUME Init PROVE DeliveryInv
    OBVIOUS
  <2>1. TypeOK
    BY TypeInit
  <2>2. Live = {} /\ loop = "off"
    BY DEF Init, Live, InLoop
  <2>3. RowInv /\ LoopInv /\ AcceptedSurvives
    BY <2>2 DEF Taken, Init, RowInv, LoopInv, AcceptedSurvives
  <2>4. AskedInv
    BY <2>2, LimitAssumption DEF Init, AskedInv, Unwritten
  <2>5. SeenInv
    BY <2>2 DEF Init, SeenInv, Undeleted
  <2>6. QED
    BY <2>1, <2>3, <2>4, <2>5 DEF DeliveryInv
<1>2. DeliveryInv /\ [Next]_vars => DeliveryInv'
  <2> SUFFICES ASSUME DeliveryInv, [Next]_vars PROVE DeliveryInv'
    OBVIOUS
  <2>1. TypeOK'
    BY RequestStep, FlagStep, TableStep, LoopStep, ServerStep, CountStep DEF TypeOK, DeliveryInv
  <2>2. QED
    BY <2>1, RowStep, LoopInvStep, AskedInvStep, SeenInvStep, AcceptedStep DEF DeliveryInv
<1>3. QED
  BY <1>1, <1>2, PTL DEF Spec

\* What enqueue accepted is never lost without MaxRetry sends or the end of
\* its session, wherever the process dies.
THEOREM NothingLost == Spec => []AcceptedSurvives
<1>1. DeliveryInv => AcceptedSurvives
  BY DEF DeliveryInv
<1>2. QED
  BY <1>1, DeliveryInvariant, PTL

\* Only lost answers, deaths and failed statements repeat a mutation.
THEOREM DuplicatesHaveCauses == Spec => []DuplicatesExplained
<1>1. DeliveryInv => DuplicatesExplained
  BY DEF DeliveryInv, SeenInv, DuplicatesExplained
<1>2. QED
  BY <1>1, DeliveryInvariant, PTL

\* The retry limit holds across deaths of the process.
THEOREM RetriesLimited == Spec => []RetriesBounded
<1>1. DeliveryInv => RetriesBounded
  BY DEF DeliveryInv, AskedInv, RetriesBounded
<1>2. QED
  BY <1>1, DeliveryInvariant, PTL

-----------------------------------------------------------------------------
(***************************************************************************)
(* The size of the table: count, then insert, in separate statements.      *)
(***************************************************************************)
\* The calls of enqueue under way, and those of them that found room.
Waiting == {e \in Events : req[e] \in Enqueueing}
Passed  == {e \in Events : req[e] = "insert"}

\* Whoever found room counted at most MaxQueue - 1 rows, and was then one of
\* at most widest calls; the rows and those about to join them stay below that.
WidthInv == /\ Cardinality(Waiting) <= widest
            /\ Cardinality(rows) + Cardinality(Passed) <= MaxQueue - 1 + widest

EnqueueInv == TypeOK /\ WidthInv

\* Sets of events are finite.
LEMMA Counted ==
  ASSUME NEW S \in SUBSET Events
  PROVE  /\ IsFiniteSet(S) /\ Cardinality(S) \in Nat
         /\ \A T \in SUBSET S : Cardinality(T) \in Nat /\ Cardinality(T) <= Cardinality(S)
<1>1. IsFiniteSet(S)
  BY EventAssumption, FS_Subset
<1>2. QED
  BY <1>1, FS_Subset, FS_CardinalityType

\* One more event makes a set larger by one at most.
LEMMA CountedWith ==
  ASSUME NEW S \in SUBSET Events, NEW e \in Events
  PROVE  Cardinality(S \cup {e}) \in Nat /\ Cardinality(S \cup {e}) <= Cardinality(S) + 1
<1>1. IsFiniteSet(S) /\ Cardinality(S) \in Nat
  BY Counted
<1>2. CASE e \in S
  <2>1. S \cup {e} = S
    BY <1>2
  <2>2. QED
    BY <1>1, <2>1
<1>3. CASE e \notin S
  <2>1. Cardinality(S \cup {e}) = Cardinality(S) + 1
    BY <1>1, <1>3, FS_AddElement
  <2>2. QED
    BY <1>1, <2>1
<1>4. QED
  BY <1>2, <1>3

\* Steps that start or advance no enqueue, and add no row.
LEMMA EnqueueOther ==
  ASSUME EnqueueInv, widest' = widest, rows' \subseteq rows,
         \A e \in Events : req'[e] = req[e] \/ req'[e] \notin Enqueueing
  PROVE  WidthInv'
<1>1. Waiting' \subseteq Waiting /\ Passed' \subseteq Passed
  BY DEF Waiting, Passed, Enqueueing
<1>2. Waiting \subseteq Events /\ Passed \subseteq Events /\ rows \subseteq Events
  BY DEF Waiting, Passed, EnqueueInv, TypeOK, TableType
<1>3. /\ Cardinality(Waiting') <= Cardinality(Waiting) /\ Cardinality(Passed') <= Cardinality(Passed)
      /\ Cardinality(rows') <= Cardinality(rows)
      /\ {Cardinality(Waiting'), Cardinality(Waiting), Cardinality(Passed'), Cardinality(Passed),
          Cardinality(rows'), Cardinality(rows)} \subseteq Nat
  BY <1>1, <1>2, Counted
<1>4. widest \in Nat /\ MaxQueue \in Nat
  BY LimitAssumption DEF EnqueueInv, TypeOK, FlagType
<1>5. Cardinality(Waiting)' = Cardinality(Waiting') /\ Cardinality(Passed)' = Cardinality(Passed')
  OBVIOUS
<1>6. QED
  BY <1>3, <1>4, <1>5 DEF EnqueueInv, WidthInv

\* Steps of an enqueue.
LEMMA EnqueueStep ==
  ASSUME EnqueueInv, NEW e \in Events, NetworkError(e) \/ CountRows(e) \/ InsertRow(e)
  PROVE  WidthInv'
<1> USE DEF EnqueueInv
<1>a. \A d \in Events : d # e => req'[d] = req[d]
  BY DEF TypeOK, RequestType, NetworkError, CountRows, InsertRow, Goto
<1>b. /\ Waiting \subseteq Events /\ Passed \subseteq Waiting /\ rows \subseteq Events
      /\ Waiting' \subseteq Events /\ Passed' \subseteq Waiting'
  BY DEF Waiting, Passed, Enqueueing, TypeOK, TableType
<1>c. /\ Cardinality(Waiting) \in Nat /\ Cardinality(Passed) \in Nat /\ Cardinality(rows) \in Nat
      /\ Cardinality(Waiting') \in Nat /\ Cardinality(Passed') \in Nat
      /\ Cardinality(Passed') <= Cardinality(Waiting')
  BY <1>b, Counted
<1>d. widest \in Nat /\ MaxQueue \in Nat \ {0}
  BY LimitAssumption DEF TypeOK, FlagType
<1>1. CASE NetworkError(e)
  <2>1. req[e] = "sent" /\ rows' = rows
    BY <1>1 DEF NetworkError, tableVars
  <2>2. CASE app = "open"
    <3>1. req'[e] = "count" /\ widest' = Larger(widest, Cardinality(Waiting'))
      BY <1>1, <2>2 DEF NetworkError, Goto, TypeOK, RequestType, Waiting
    <3>2. Passed' = Passed
      BY <2>1, <3>1, <1>a DEF Passed
    <3>3. widest' >= widest /\ widest' >= Cardinality(Waiting') /\ widest' \in Nat
      BY <3>1, <1>c, <1>d DEF Larger
    <3>4. QED
      BY <2>1, <3>2, <3>3, <1>c, <1>d DEF WidthInv
  <2>3. CASE app # "open"
    <3>1. req'[e] = "failed" /\ widest' = widest
      BY <1>1, <2>3 DEF NetworkError, Goto, TypeOK, RequestType
    <3>2. \A d \in Events : req'[d] = req[d] \/ req'[d] \notin Enqueueing
      BY <3>1, <1>a DEF Enqueueing
    <3>3. QED
      BY <2>1, <3>1, <3>2, EnqueueOther
  <2>4. QED
    BY <2>2, <2>3
<1>2. CASE CountRows(e)
  <2>1. UNCHANGED <<rows, widest>> /\ req[e] = "count"
    BY <1>2 DEF CountRows, tableVars
  <2>2. CASE IsFull
    <3>1. req'[e] = "refused"
      BY <1>2, <2>2 DEF CountRows, Goto, TypeOK, RequestType
    <3>2. QED
      BY <2>1, <3>1, <1>a, EnqueueOther DEF Enqueueing
  <2>3. CASE ~IsFull
    <3>1. req'[e] = "insert"
      BY <1>2, <2>3 DEF CountRows, Goto, TypeOK, RequestType
    <3>2. Waiting' = Waiting
      BY <2>1, <3>1, <1>a DEF Waiting, Enqueueing
    <3>3. Cardinality(rows) <= MaxQueue - 1
      BY <2>3, <1>c, <1>d DEF IsFull
    <3>4. QED
      BY <2>1, <3>2, <3>3, <1>c, <1>d DEF WidthInv
  <2>4. QED
    BY <2>2, <2>3
<1>3. CASE InsertRow(e)
  <2>1. /\ rows' = rows \cup {e} /\ widest' = widest
        /\ req[e] = "insert" /\ req'[e] \in Taken
    BY <1>3 DEF InsertRow, Goto, TypeOK, RequestType, Taken
  <2>2. Waiting' \subseteq Waiting /\ Passed' = Passed \ {e} /\ e \in Passed
    BY <2>1, <1>a DEF Waiting, Passed, Enqueueing, Taken
  <2>3. Cardinality(Passed') = Cardinality(Passed) - 1
    BY <2>2, <1>b, Counted, FS_RemoveElement
  <2>4. Cardinality(rows') <= Cardinality(rows) + 1 /\ Cardinality(rows') \in Nat
    BY <2>1, <1>b, CountedWith
  <2>5. Cardinality(Waiting') <= Cardinality(Waiting)
    BY <2>2, <1>b, Counted
  <2>6. QED
    BY <2>1, <2>3, <2>4, <2>5, <1>c, <1>d DEF WidthInv
<1>4. QED
  BY <1>1, <1>2, <1>3

\* The bound on rows and on those about to join them is inductive.
THEOREM EnqueueInvariant == Spec => []EnqueueInv
<1>1. Init => EnqueueInv
  <2> SUFFICES ASSUME Init PROVE EnqueueInv
    OBVIOUS
  <2>1. Waiting = {} /\ Passed = {} /\ rows = {} /\ widest = 0
    BY DEF Init, Waiting, Passed, Enqueueing
  <2>2. QED
    BY <2>1, TypeInit, FS_EmptySet, LimitAssumption DEF EnqueueInv, WidthInv
<1>2. EnqueueInv /\ [Next]_vars => EnqueueInv'
  <2> SUFFICES ASSUME EnqueueInv, [Next]_vars PROVE EnqueueInv'
    OBVIOUS
  <2>1. TypeOK'
    BY RequestStep, FlagStep, TableStep, LoopStep, ServerStep, CountStep DEF TypeOK, EnqueueInv
  <2>2. ASSUME NEW e \in Events, NetworkError(e) \/ CountRows(e) \/ InsertRow(e)
        PROVE  EnqueueInv'
    BY <2>1, <2>2, EnqueueStep DEF EnqueueInv
  <2>3. ASSUME NEW e \in Events, Request(e) \/ ServerAnswers(e) \/ EnqueueFails(e)
        PROVE  EnqueueInv'
    <3>1. widest' = widest /\ rows' \subseteq rows
      BY <2>3 DEF Request, ServerAnswers, EnqueueFails, tableVars
    <3>2. \A d \in Events : req'[d] = req[d] \/ req'[d] \notin Enqueueing
      <4>1. \E a \in {"sent", "ok", "failed"} : req' = [req EXCEPT ![e] = a]
        BY <2>3 DEF Request, ServerAnswers, EnqueueFails, Goto
      <4>2. QED
        BY <4>1 DEF Enqueueing, EnqueueInv, TypeOK, RequestType
    <3>3. QED
      BY <2>1, <3>1, <3>2, EnqueueOther DEF EnqueueInv
  <2>4. CASE \/ GoOffline \/ GoOnline \/ TimerFires \/ Process \/ SwitchUser
             \/ OpenQueue \/ Kill \/ UNCHANGED vars
    <3>1. widest' = widest /\ rows' \subseteq rows
      BY <2>4 DEF GoOffline, GoOnline, TimerFires, Process, Send, DeleteSent, Bump, BumpFails, Wake,
                  RemoveItem, SwitchUser, OpenQueue, Kill, tableVars, vars
    <3>2. req' = req \/ Kill
      BY <2>4 DEF GoOffline, GoOnline, TimerFires, Process, Send, DeleteSent, Bump, BumpFails, Wake,
                  SwitchUser, OpenQueue, vars
    <3>3. \A d \in Events : req'[d] = req[d] \/ req'[d] \notin Enqueueing
      BY <3>2 DEF Kill, Enqueueing
    <3>4. QED
      BY <2>1, <3>1, <3>3, EnqueueOther DEF EnqueueInv
  <2>5. QED
    BY <2>2, <2>3, <2>4 DEF Next, Handle
<1>3. QED
  BY <1>1, <1>2, PTL DEF Spec

\* The queue outgrows MAX_QUEUE_SIZE only by calls of enqueue that overlapped.
THEOREM QueueStaysBounded == Spec => []QueueBounded
<1>1. EnqueueInv => QueueBounded
  <2> SUFFICES ASSUME EnqueueInv PROVE QueueBounded
    OBVIOUS
  <2>1. Passed \subseteq Events /\ rows \subseteq Events
    BY DEF Passed, EnqueueInv, TypeOK, TableType
  <2>2. Cardinality(Passed) \in Nat /\ Cardinality(rows) \in Nat
    BY <2>1, Counted
  <2>3. widest \in Nat /\ MaxQueue \in Nat
    BY LimitAssumption DEF EnqueueInv, TypeOK, FlagType
  <2>4. QED
    BY <2>2, <2>3 DEF EnqueueInv, WidthInv, QueueBounded
<1>2. QED
  BY <1>1, EnqueueInvariant, PTL
=============================================================================
