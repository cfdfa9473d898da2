-------------------------- MODULE AppScreensProofs --------------------------
(***************************************************************************)
(* Proofs about what the app shows: the paywall and the table of purchases *)
(* behind it, the report sheet and the settings, and the launch that comes *)
(* before them.  For any number of users, receipts, deliveries, stories    *)
(* and taps a receipt is credited once, a report is about what stood on    *)
(* the screen, what the phone says was done was done, and a city's map has *)
(* every point that stayed; for any number of deaths of the process a      *)
(* stamped cache is a migrated one, and the onboarding is done once.       *)
(***************************************************************************)
EXTENDS AppScreens, Startup, TLAPS, SequenceTheorems, FiniteSetTheorems

-----------------------------------------------------------------------------
(***************************************************************************)
(* Purchases.                                                              *)
(***************************************************************************)
\* A call that is being served, or was, is some user's with some receipt.
CallsNamed ==
    \A d \in Deliveries : delivery[d].at # "free" =>
        delivery[d].user \in Users /\ delivery[d].receipt \in Receipts

IInv == TypeOK /\ CallsNamed /\ CreditedOnce

-----------------------------------------------------------------------------
\* The invariant holds initially.
LEMMA InvInit == Init => IInv
  BY PurchaseAssumption
     DEF Init, IInv, TypeOK, CallsNamed, CreditedOnce, Thanked, NoCall, NoStatus, NoTap,
         Call, Status, Tap, verifyPurchase, Operation, Lost

\* The statuses of the two answers of the table are in the contract.
LEMMA Codes == {201, 409, 500} \subseteq verifyPurchase.statuses
  BY DEF verifyPurchase, Operation

\* What Create changes when the index lets the row in.
LEMMA CreateInv ==
  ASSUME IInv, NEW d \in Deliveries, Create(d)
  PROVE  IInv'
<1>1. PICK code \in {201, 409, 500} : Answer(d, code)
  BY DEF Create
<1>2. delivery[d] \in Call /\ delivery[d].at = "missing" /\ delivery[d].receipt \in Receipts
        /\ delivery[d].user \in Users
  BY DEF IInv, TypeOK, CallsNamed, Create
<1>3. delivery' \in [Deliveries -> Call]
  <2>1. code \in verifyPurchase.statuses
    BY Codes
  <2>2. [delivery[d] EXCEPT !.at = "answered", !.answer = code] \in Call
    BY <1>2, <2>1 DEF Call
  <2> QED BY <1>1, <2>2 DEF IInv, TypeOK, Answer
<1>4. \A e \in Deliveries : /\ delivery'[e].user = delivery[e].user
                            /\ delivery'[e].receipt = delivery[e].receipt
                            /\ (e # d => delivery'[e] = delivery[e])
  BY <1>1, <1>2 DEF IInv, TypeOK, Answer, Call
<1>5. delivery'[d].at = "answered" /\ delivery'[d].answer = code
  BY <1>1, <1>2 DEF IInv, TypeOK, Answer, Call
<1>6. owner' \in [Receipts -> Users \cup {Nobody}]
  BY <1>2 DEF IInv, TypeOK, Create
<1>7. TypeOK'
  BY <1>3, <1>6 DEF IInv, TypeOK, Create, phoneVars
<1>8. CallsNamed'
  BY <1>2, <1>4 DEF IInv, CallsNamed
<1>9. CreditedOnce'
  <2>1. CASE owner' = owner /\ code # 201
    BY <2>1, <1>4, <1>5 DEF IInv, CreditedOnce, Thanked
  <2>2. CASE /\ owner[delivery[d].receipt] = Nobody
             /\ owner' = [owner EXCEPT ![delivery[d].receipt] = delivery[d].user]
    <3>1. \A e \in Deliveries : ~Thanked(e, delivery[d].receipt)
      BY <2>2, <1>2, PurchaseAssumption DEF IInv, CreditedOnce, CallsNamed, Thanked
    <3>2. \A e \in Deliveries, r \in Receipts :
             Thanked(e, r)' => (Thanked(e, r) \/ (e = d /\ r = delivery[d].receipt))
      BY <1>2, <1>4 DEF Thanked
    <3>3. \A r \in Receipts : r # delivery[d].receipt => owner'[r] = owner[r]
      BY <2>2 DEF IInv, TypeOK
    <3>4. owner'[delivery[d].receipt] = delivery[d].user
      BY <2>2, <1>2 DEF IInv, TypeOK
    <3> QED BY <3>1, <3>2, <3>3, <3>4, <1>2, <1>4 DEF IInv, CreditedOnce
  <2>3. (owner' = owner /\ code # 201)
          \/ (owner[delivery[d].receipt] = Nobody
              /\ owner' = [owner EXCEPT ![delivery[d].receipt] = delivery[d].user])
    <3>1. delivery' = [delivery EXCEPT ![d].at = "answered", ![d].answer = 201]
            => delivery'[d].answer = 201
      BY <1>2 DEF IInv, TypeOK, Call
    <3>2. delivery' = [delivery EXCEPT ![d].at = "answered", ![d].answer = 409]
            => delivery'[d].answer = 409
      BY <1>2 DEF IInv, TypeOK, Call
    <3>3. delivery' = [delivery EXCEPT ![d].at = "answered", ![d].answer = 500]
            => delivery'[d].answer = 500
      BY <1>2 DEF IInv, TypeOK, Call
    <3> QED BY <3>1, <3>2, <3>3, <1>5 DEF Create, Answer, Indexed
  <2> QED BY <2>1, <2>2, <2>3
<1> QED BY <1>7, <1>8, <1>9 DEF IInv

\* A step that credits nobody and answers nobody 201 keeps the invariant.
LEMMA QuietInv ==
  ASSUME IInv, TypeOK', owner' = owner, CallsNamed',
         \A e \in Deliveries, r \in Receipts : Thanked(e, r)' =>
            Thanked(e, r) /\ delivery'[e].user = delivery[e].user
  PROVE  IInv'
  BY DEF IInv, CreditedOnce

\* Every step keeps the invariant.
LEMMA InvStep == IInv /\ [Next]_vars => IInv'
<1> SUFFICES ASSUME IInv, [Next]_vars PROVE IInv'
  OBVIOUS
<1> USE DEF IInv
<1>1. ASSUME NEW d \in Deliveries, NEW u \in Users, NEW r \in Receipts, Arrive(d, u, r)
      PROVE  IInv'
  <2>1. Received(u, r) \in Call
    BY DEF Received, Call
  <2>2. TypeOK'
    BY <1>1, <2>1 DEF TypeOK, Arrive, tableVars, phoneVars
  <2>3. \A e \in Deliveries : delivery'[e] = IF e = d THEN Received(u, r) ELSE delivery[e]
    BY <1>1 DEF Arrive, TypeOK
  <2>4. CallsNamed'
    BY <1>1, <2>3 DEF CallsNamed, Received
  <2>5. \A e \in Deliveries, q \in Receipts : Thanked(e, q)' =>
            Thanked(e, q) /\ delivery'[e].user = delivery[e].user
    BY <2>3 DEF Thanked, Received
  <2> QED BY <1>1, <2>2, <2>4, <2>5, QuietInv DEF Arrive, tableVars
<1>2. ASSUME NEW d \in Deliveries, LookUp(d)
      PROVE  IInv'
  <2>1. delivery[d] \in Call /\ delivery[d].at = "received"
    BY <1>2 DEF TypeOK, LookUp
  <2>2. MissesReceipt(d) \/ Answer(d, 409) \/ Answer(d, 500)
    BY <1>2 DEF LookUp
  <2>3. delivery' \in [Deliveries -> Call]
    BY <2>1, <2>2, Codes DEF TypeOK, Answer, MissesReceipt, Call
  <2>4. \A e \in Deliveries : /\ delivery'[e].user = delivery[e].user
                              /\ delivery'[e].receipt = delivery[e].receipt
                              /\ (e # d => delivery'[e] = delivery[e])
    BY <2>1, <2>2 DEF TypeOK, Answer, MissesReceipt, Call
  <2>5. delivery'[d].at = "missing" \/ delivery'[d].answer \in {409, 500}
    BY <2>1, <2>2 DEF TypeOK, Answer, MissesReceipt, Call
  <2>6. TypeOK'
    BY <1>2, <2>3 DEF TypeOK, LookUp, tableVars, phoneVars
  <2>7. CallsNamed'
    BY <2>1, <2>4 DEF CallsNamed
  <2>8. \A e \in Deliveries, q \in Receipts : Thanked(e, q)' =>
            Thanked(e, q) /\ delivery'[e].user = delivery[e].user
    BY <2>4, <2>5 DEF Thanked
  <2> QED BY <1>2, <2>6, <2>7, <2>8, QuietInv DEF LookUp, tableVars
<1>3. ASSUME NEW d \in Deliveries, Create(d)
      PROVE  IInv'
  BY <1>3, CreateInv
<1>4. ASSUME NEW d \in Deliveries, NEW r \in Receipts, handlePurchase(d, r)
      PROVE  IInv'
  <2>1. buyer \in Users /\ Received(buyer, r) \in Call
    BY <1>4 DEF handlePurchase, TypeOK, Received, Call
  <2>2. tap' \in Tap
    BY <1>4, <2>1 DEF handlePurchase, TypeOK, Tap, NoTap, NoStatus, Status
  <2>3. TypeOK'
    BY <1>4, <2>1, <2>2 DEF TypeOK, handlePurchase, tableVars
  <2>4. \A e \in Deliveries : delivery'[e] = IF e = d THEN Received(buyer, r) ELSE delivery[e]
    BY <1>4 DEF handlePurchase, TypeOK
  <2>5. CallsNamed'
    BY <2>1, <2>4 DEF CallsNamed, Received
  <2>6. \A e \in Deliveries, q \in Receipts : Thanked(e, q)' =>
            Thanked(e, q) /\ delivery'[e].user = delivery[e].user
    BY <2>4 DEF Thanked, Received
  <2> QED BY <1>4, <2>3, <2>5, <2>6, QuietInv DEF handlePurchase, tableVars
<1>5. ASSUME owner' = owner, delivery' = delivery, TypeOK'
      PROVE  IInv'
  BY <1>5 DEF CallsNamed, CreditedOnce, Thanked
<1>6. CASE \E r \in Receipts : Expire(r)
  BY <1>5, <1>6 DEF Expire, TypeOK, phoneVars
<1>7. CASE showPaywall \/ hidePaywall
  BY <1>5, <1>7 DEF showPaywall, hidePaywall, TypeOK, tableVars
<1>8. CASE VerifyEnds
  BY <1>5, <1>8 DEF VerifyEnds, TypeOK, tableVars, Tap
<1>9. CASE GetStatus
  <2>1. [of |-> buyer, has |-> Active(buyer)] \in Status
    BY DEF TypeOK, Status, Active
  <2> QED BY <1>5, <1>9, <2>1 DEF GetStatus, TypeOK, tableVars, Tap
<1>10. CASE PurchaseSucceeds \/ PurchaseFails
  <2>1. NoTap \in Tap /\ tap.got \in Status
    BY DEF TypeOK, NoTap, Tap, NoStatus, Status
  <2> QED BY <1>5, <1>10, <2>1 DEF PurchaseSucceeds, PurchaseFails, TypeOK, tableVars
<1>11. CASE \E u \in Users \cup {Nobody} : Boundary(u)
  BY <1>5, <1>11 DEF Boundary, TypeOK, tableVars, NoStatus, Status
<1>12. CASE UNCHANGED vars
  BY <1>5, <1>12 DEF TypeOK, vars, tableVars, phoneVars
<1> QED BY <1>1, <1>2, <1>3, <1>4, <1>6, <1>7, <1>8, <1>9, <1>10, <1>11, <1>12
        DEF Next, Serve, Phone

\* The variables of the purchases keep to their values.
THEOREM TypeCorrect == Spec => []TypeOK
<1>1. IInv => TypeOK
  BY DEF IInv
<1> QED BY <1>1, InvInit, InvStep, PTL DEF Spec

\* A receipt is credited to one user by one delivery, the only one that is told.
THEOREM ReceiptsCreditedOnce == Spec => []CreditedOnce
<1>1. IInv => CreditedOnce
  BY DEF IInv
<1> QED BY <1>1, InvInit, InvStep, PTL DEF Spec

-----------------------------------------------------------------------------
\* The deliveries that were thanked for each receipt.
Thanks == [r \in Receipts |-> {d \in Deliveries : Thanked(d, r)}]

\* The empty table is the empty ledger.
LEMMA LedgerInit == Init => Ledger!Init
  BY DEF Init, Ledger!Init, Thanked, NoCall

\* A step that thanks nobody anew leaves the ledger as it is.
LEMMA LedgerStutters ==
  ASSUME owner' = owner, \A e \in Deliveries, r \in Receipts : Thanked(e, r)' <=> Thanked(e, r)
  PROVE  UNCHANGED Ledger!vars
  BY DEF Ledger!vars

\* A row that goes in is one credit; a row that does not is none.
LEMMA LedgerCreate ==
  ASSUME IInv, NEW d \in Deliveries, Create(d)
  PROVE  [Ledger!Next]_Ledger!vars
<1>1. delivery[d] \in Call /\ delivery[d].at = "missing" /\ delivery[d].receipt \in Receipts
        /\ delivery[d].user \in Users
  BY DEF IInv, TypeOK, CallsNamed, Create
<1>2. CASE owner' = owner /\ (Answer(d, 409) \/ Answer(d, 500))
  <2>1. \A e \in Deliveries, r \in Receipts : Thanked(e, r)' <=> Thanked(e, r)
    <3>1. \A e \in Deliveries : e # d => delivery'[e] = delivery[e]
      BY <1>1, <1>2 DEF IInv, TypeOK, Answer, Call
    <3>2. delivery'[d].answer \in {409, 500}
      BY <1>1, <1>2 DEF IInv, TypeOK, Answer, Call
    <3> QED BY <1>1, <3>1, <3>2 DEF Thanked
  <2> QED BY <1>2, <2>1, LedgerStutters
<1>3. CASE /\ Indexed(delivery[d].receipt)
           /\ Answer(d, 201) \/ Answer(d, 500)
           /\ owner' = [owner EXCEPT ![delivery[d].receipt] = delivery[d].user]
  <2> DEFINE r == delivery[d].receipt
             u == delivery[d].user
  <2>1. \A e \in Deliveries : ~Thanked(e, r)
    BY <1>3, <1>1, PurchaseAssumption DEF IInv, CreditedOnce, CallsNamed, Thanked, Indexed
  <2>2. /\ \A e \in Deliveries : e # d => delivery'[e] = delivery[e]
        /\ delivery'[d].receipt = r /\ delivery'[d].at = "answered"
        /\ delivery'[d].answer \in {201, 500}
    BY <1>1, <1>3 DEF IInv, TypeOK, Answer, Call
  <2> DEFINE told == [q \in Receipts |-> {e \in Deliveries : Thanked(e, q)'}]
  <2>3. ASSUME delivery'[d].answer = 201
       PROVE  told \in {Thanks, [Thanks EXCEPT ![r] = {d}]}
    <3>1. \A q \in Receipts : {e \in Deliveries : Thanked(e, q)'}
                                = IF q = r THEN {d} ELSE {e \in Deliveries : Thanked(e, q)}
      BY <1>1, <2>1, <2>2, <2>3 DEF Thanked
    <3>2. told = [Thanks EXCEPT ![r] = {d}]
      BY <1>1, <3>1 DEF Thanks
    <3> QED BY <3>2
  <2>4. ASSUME delivery'[d].answer = 500
       PROVE  told \in {Thanks, [Thanks EXCEPT ![r] = {d}]}
    <3>1. \A e \in Deliveries, q \in Receipts : Thanked(e, q)' <=> Thanked(e, q)
      BY <1>1, <2>2, <2>4 DEF Thanked
    <3>2. told = Thanks
      BY <3>1 DEF Thanks
    <3> QED BY <3>2
  <2>5. told \in {Thanks, [Thanks EXCEPT ![r] = {d}]}
    BY <2>2, <2>3, <2>4
  <2>6. Ledger!Credit(r, u, d)
    BY <1>3, <2>5 DEF Ledger!Credit, Indexed, Thanks
  <2> QED BY <1>1, <2>6 DEF Ledger!Next
<1> QED BY <1>2, <1>3 DEF Create

\* Every step is a step of the ledger or leaves it alone.
LEMMA LedgerStep == IInv /\ [Next]_vars => [Ledger!Next]_Ledger!vars
<1> SUFFICES ASSUME IInv, [Next]_vars PROVE [Ledger!Next]_Ledger!vars
  OBVIOUS
<1>1. ASSUME NEW d \in Deliveries, Create(d)
      PROVE  [Ledger!Next]_Ledger!vars
  BY <1>1, LedgerCreate
<1>2. ASSUME NEW d \in Deliveries, LookUp(d)
      PROVE  [Ledger!Next]_Ledger!vars
  <2>1. delivery[d] \in Call /\ delivery[d].at = "received"
    BY <1>2 DEF IInv, TypeOK, LookUp
  <2>2. MissesReceipt(d) \/ Answer(d, 409) \/ Answer(d, 500)
    BY <1>2 DEF LookUp
  <2>3. /\ \A e \in Deliveries : e # d => delivery'[e] = delivery[e]
        /\ delivery'[d].at = "missing" \/ delivery'[d].answer \in {409, 500}
    BY <2>1, <2>2 DEF IInv, TypeOK, Answer, MissesReceipt, Call
  <2>4. \A e \in Deliveries, r \in Receipts : Thanked(e, r)' <=> Thanked(e, r)
    BY <2>1, <2>3 DEF Thanked
  <2> QED BY <1>2, <2>4, LedgerStutters DEF LookUp, tableVars
<1>3. ASSUME NEW d \in Deliveries, NEW c \in Call,
             c.at = "received", delivery[d].at = "free",
             delivery' = [delivery EXCEPT ![d] = c], owner' = owner
      PROVE  [Ledger!Next]_Ledger!vars
  <2>1. \A e \in Deliveries : delivery'[e] = IF e = d THEN c ELSE delivery[e]
    BY <1>3 DEF IInv, TypeOK
  <2>2. \A e \in Deliveries, r \in Receipts : Thanked(e, r)' <=> Thanked(e, r)
    BY <1>3, <2>1 DEF Thanked
  <2> QED BY <1>3, <2>2, LedgerStutters
<1>4. ASSUME NEW d \in Deliveries, NEW u \in Users, NEW r \in Receipts, Arrive(d, u, r)
      PROVE  [Ledger!Next]_Ledger!vars
  <2>1. Received(u, r) \in Call /\ Received(u, r).at = "received"
    BY DEF Received, Call
  <2> QED BY <1>3, <1>4, <2>1 DEF Arrive, tableVars
<1>5. ASSUME NEW d \in Deliveries, NEW r \in Receipts, handlePurchase(d, r)
      PROVE  [Ledger!Next]_Ledger!vars
  <2>1. Received(buyer, r) \in Call /\ Received(buyer, r).at = "received"
    BY DEF Received, Call, IInv, TypeOK
  <2> QED BY <1>3, <1>5, <2>1 DEF handlePurchase, tableVars
<1>6. CASE owner' = owner /\ delivery' = delivery
  BY <1>6, LedgerStutters DEF Thanked
<1> QED BY <1>1, <1>2, <1>4, <1>5, <1>6
        DEF Next, Serve, Phone, Expire, showPaywall, hidePaywall, VerifyEnds, GetStatus,
            PurchaseSucceeds, PurchaseFails, Boundary, vars, tableVars

\* The service's table with its two-step insert is the ledger it promises.
THEOREM TableIsLedger == Spec => ImplementsLedger
<1> QED BY LedgerInit, LedgerStep, InvInit, InvStep, PTL
        DEF Spec, ImplementsLedger, Ledger!Spec

-----------------------------------------------------------------------------
\* Whatever screen is open, the app moves the purchases by their own steps only.
LEMMA ScreensStep == [ScreensNext]_screenVars => [Next]_vars
  BY DEF ScreensNext, screenVars, SessionMoves, Next, Phone

\* So the whole app keeps the ledger too.
THEOREM AppKeepsLedger == ScreensSpec => ImplementsLedger
<1>1. ScreensInit => Init
  BY DEF ScreensInit
<1>2. ScreensSpec => Spec
  BY <1>1, ScreensStep, PTL DEF ScreensSpec, Spec
<1> QED BY <1>2, TableIsLedger

-----------------------------------------------------------------------------
(***************************************************************************)
(* The report sheet, the settings and the paywall.                         *)
(***************************************************************************)
\* What a report and an attempt to submit one are made of.
ReportType == [story : Stories \cup {None}, type : Types \cup {None}]
SubmitType == [at : {"none", "asking", "sending", "served", "done"}, tapped : ReportType,
               report : ReportType, outcome : {"none", "value", "unknown"}, refused : BOOLEAN,
               mounted : BOOLEAN]

SheetType == /\ story \in Stories \cup {None}
             /\ sheet \in [visible : BOOLEAN, type : Types \cup {None}]
             /\ submit \in [Submits -> SubmitType]

\* An attempt in flight is about what was tapped.
Closure == \A i \in Submits : InFlight(i) => submit[i].report = submit[i].tapped

\* An attempt that was answered well has its report in the table or the queue, but
\* for one that the full queue has refused.
AnswerHolds == \A i \in Submits :
    submit[i].at = "served" /\ submit[i].outcome = "value" => Kept(i) \/ submit[i].refused

SheetInv == SheetType /\ Closure /\ AnswerHolds /\ ReportsAsTapped

DeletionHolds == deletion.at = "served" /\ deletion.outcome = "value" => deletion.user \in scheduled

\* The call of a tap is about its receipt; once it was answered well that is credited.
TapHolds ==
    /\ tap.at = "verifying" => /\ tap.call \in Deliveries /\ delivery[tap.call].at # "free"
                               /\ delivery[tap.call].receipt = tap.receipt
                               /\ delivery[tap.call].user = tap.user
    /\ tap.at \in {"refreshing", "served"} =>
          tap.receipt \in Receipts /\ tap.user \in Users /\ owner[tap.receipt] = tap.user

-----------------------------------------------------------------------------
\* The report sheet is closed and nothing has been submitted at first.
LEMMA SheetInit == ScreensInit => SheetInv
  BY DEF ScreensInit, SheetInv, SheetType, SubmitType, ReportType, NoSubmit, NoReport, Report,
         Closed, Closure, InFlight, AnswerHolds, Kept, ReportsAsTapped

\* A step that leaves the attempts and the reports alone keeps what is said of them.
LEMMA SheetQuiet ==
  ASSUME SheetInv, SheetType', UNCHANGED <<reports, waiting>>,
         \A i \in Submits : /\ submit'[i].at = submit[i].at
                            /\ submit'[i].tapped = submit[i].tapped
                            /\ submit'[i].report = submit[i].report
                            /\ submit'[i].outcome = submit[i].outcome
                            /\ submit'[i].refused = submit[i].refused
  PROVE  SheetInv'
  BY DEF SheetInv, Closure, InFlight, AnswerHolds, Kept, ReportsAsTapped

\* An attempt moves on: if it still is, or was, about what was tapped, the rest follows.
LEMMA SheetMoves ==
  ASSUME SheetInv, NEW i \in Submits, NEW s \in SubmitType, SheetType',
         submit' = [submit EXCEPT ![i] = s], s.at # "none",
         s.tapped = submit[i].tapped \/ submit[i].at = "none",
         s.at \in {"asking", "sending", "served"} => s.report = s.tapped,
         reports \subseteq reports', waiting \subseteq waiting',
         reports' \cup waiting' \subseteq reports \cup waiting \cup {s.tapped},
         s.at = "served" /\ s.outcome = "value" => s.report \in reports' \cup waiting' \/ s.refused
  PROVE  SheetInv'
<1>1. \A j \in Submits : submit'[j] = IF j = i THEN s ELSE submit[j]
  BY DEF SheetInv, SheetType
<1>2. Closure'
  BY <1>1 DEF SheetInv, Closure, InFlight
<1>3. AnswerHolds'
  BY <1>1 DEF SheetInv, AnswerHolds, Kept
<1>4. ReportsAsTapped'
  <2> SUFFICES ASSUME NEW r \in reports' \cup waiting'
               PROVE  \E j \in Submits : /\ submit'[j].at # "none"
                                         /\ r.story = submit'[j].tapped.story
                                         /\ r.type = submit'[j].tapped.type
    BY DEF ReportsAsTapped
  <2>1. CASE r = s.tapped
    BY <2>1, <1>1
  <2>2. CASE r \in reports \cup waiting
    BY <2>2, <1>1 DEF SheetInv, ReportsAsTapped
  <2> QED BY <2>1, <2>2
<1> QED BY <1>2, <1>3, <1>4 DEF SheetInv

\* What the server or the queue takes over is what the attempt was about.
LEMMA ServedWell ==
  ASSUME NEW code, NEW o \in Outcomes(createReport, code), o = "value"
  PROVE  code = Lost \/ Good(code)
  BY DEF Outcomes, Lost

\* Every step of the player and of its sheet keeps the invariant.
LEMMA PlayerStep == SheetInv /\ Player => SheetInv'
<1> SUFFICES ASSUME SheetInv, Player PROVE SheetInv'
  OBVIOUS
<1>1. ASSUME NEW s \in Stories \cup {None}, SetStory(s) PROVE SheetInv'
  <2>1. \A i \in Submits : /\ submit'[i] \in SubmitType
                           /\ submit'[i].at = submit[i].at
                           /\ submit'[i].tapped = submit[i].tapped
                           /\ submit'[i].report = submit[i].report
                           /\ submit'[i].outcome = submit[i].outcome
                           /\ submit'[i].refused = submit[i].refused
    BY <1>1 DEF SetStory, SheetInv, SheetType, SubmitType
  <2>2. submit' \in [Submits -> SubmitType]
    BY <1>1, <2>1 DEF SetStory, SheetInv, SheetType
  <2>3. SheetType'
    BY <1>1, <2>2 DEF SetStory, SheetInv, SheetType
  <2> QED BY <1>1, <2>1, <2>3, SheetQuiet DEF SetStory
<1>2. CASE OpenSheet \/ handleClose \/ \E t \in Types : Choose(t)
  <2>1. UNCHANGED <<story, submit, reports, waiting>>
    BY <1>2 DEF OpenSheet, handleClose, Choose
  <2>2. sheet' \in [visible : BOOLEAN, type : Types \cup {None}]
    <3>1. CASE OpenSheet
      BY <3>1 DEF OpenSheet, SheetInv, SheetType
    <3>2. CASE handleClose
      BY <3>2 DEF handleClose, Closed
    <3>3. ASSUME NEW t \in Types, Choose(t) PROVE sheet' \in [visible : BOOLEAN, type : Types \cup {None}]
      BY <3>3 DEF Choose, SheetInv, SheetType
    <3> QED BY <1>2, <3>1, <3>2, <3>3
  <2>3. SheetType'
    BY <2>1, <2>2 DEF SheetInv, SheetType
  <2> QED BY <2>1, <2>3, SheetQuiet
<1>3. ASSUME NEW i \in Submits, handleSubmit(i) PROVE SheetInv'
  <2> DEFINE s == [NoSubmit EXCEPT !.at = "asking", !.mounted = TRUE,
                     !.tapped = Report(story, sheet.type), !.report = Report(story, sheet.type)]
  <2>1. Report(story, sheet.type) \in ReportType
    BY DEF SheetInv, SheetType, Report, ReportType
  <2>2. s \in SubmitType /\ s.at = "asking" /\ s.report = s.tapped
    BY <2>1 DEF SubmitType, NoSubmit
  <2>3. SheetType'
    BY <1>3, <2>2 DEF handleSubmit, SheetInv, SheetType
  <2> HIDE DEF s
  <2>4. submit' = [submit EXCEPT ![i] = s] /\ submit[i].at = "none"
    BY <1>3 DEF handleSubmit, s
  <2> QED BY <1>3, <2>2, <2>3, <2>4, SheetMoves DEF handleSubmit
<1>4. ASSUME NEW i \in Submits, submit[i].at # "none" PROVE Over(i) \in SubmitType
  BY DEF SheetInv, SheetType, SubmitType, Over, NoSubmit, NoReport, Report, ReportType
<1>5. ASSUME NEW i \in Submits, AskUser(i) PROVE SheetInv'
  <2> DEFINE s == IF buyer = Nobody THEN Over(i)
                  ELSE [submit[i] EXCEPT !.at = "sending", !.report.story = storyId(i)]
  <2>1. submit[i] \in SubmitType /\ submit[i].report = submit[i].tapped
    BY <1>5 DEF AskUser, SheetInv, SheetType, Closure, InFlight
  <2>2. [submit[i].report EXCEPT !.story = storyId(i)] = submit[i].report
    BY <2>1 DEF storyId, SubmitType, ReportType
  <2>3. s \in SubmitType /\ s.at # "none" /\ s.tapped = submit[i].tapped
          /\ s.at \in {"done", "sending"} /\ (s.at = "sending" => s.report = s.tapped)
    BY <1>4, <1>5, <2>1, <2>2 DEF AskUser, SubmitType, Over, NoSubmit
  <2> HIDE DEF s
  <2>4. submit' = [submit EXCEPT ![i] = s]
    BY <1>5 DEF AskUser, s
  <2>5. SheetType'
    BY <1>5, <2>3, <2>4 DEF AskUser, SheetInv, SheetType
  <2> QED BY <1>5, <2>3, <2>4, <2>5, SheetMoves DEF AskUser
<1>6. ASSUME NEW i \in Submits, ServeReport(i) PROVE SheetInv'
  <2>1. submit[i] \in SubmitType /\ submit[i].report = submit[i].tapped
    BY <1>6 DEF ServeReport, SheetInv, SheetType, Closure, InFlight
  <2>2. PICK code \in Answers(createReport, TRUE), o \in {"value", "unknown"},
             fate \in {"sent", "queued", "refused", "failed"}, stored \in SUBSET {submit[i].report} :
          /\ o \in Outcomes(createReport, code)
          /\ fate = "sent" <=> code # Lost
          /\ fate = "failed" => o = "unknown"
          /\ submit' = [submit EXCEPT ![i].at = "served", ![i].outcome = o,
                                      ![i].refused = (fate = "refused")]
          /\ waiting' = waiting \cup (IF fate = "queued" THEN {submit[i].report} ELSE {})
          /\ code # Lost => (stored # {} <=> Good(code))
          /\ reports' = reports \cup stored
    BY <1>6 DEF ServeReport
  <2> DEFINE s == [submit[i] EXCEPT !.at = "served", !.outcome = o, !.refused = (fate = "refused")]
  <2>3. s \in SubmitType /\ s.at = "served" /\ s.outcome = o /\ s.tapped = submit[i].tapped
          /\ s.report = submit[i].report /\ s.refused = (fate = "refused")
    BY <2>1 DEF SubmitType
  <2>4. o = "value" => submit[i].report \in reports' \cup waiting' \/ fate = "refused"
    BY <2>2, ServedWell
  <2>5. submit' = [submit EXCEPT ![i] = s]
    BY <2>1, <2>2 DEF SheetInv, SheetType
  <2> HIDE DEF s
  <2>6. SheetType'
    BY <1>6, <2>3, <2>5 DEF ServeReport, SheetInv, SheetType
  <2>7. reports' \cup waiting' \subseteq reports \cup waiting \cup {s.tapped}
    BY <2>1, <2>2, <2>3
  <2> QED BY <2>1, <2>2, <2>3, <2>4, <2>5, <2>6, <2>7, SheetMoves
<1>7. ASSUME NEW i \in Submits, SubmitEnds(i) PROVE SheetInv'
  <2>1. Over(i) \in SubmitType /\ Over(i).at = "done" /\ Over(i).tapped = submit[i].tapped
    BY <1>4, <1>7 DEF SubmitEnds, Over, NoSubmit
  <2>2. SheetType'
    BY <1>7, <2>1 DEF SubmitEnds, SheetInv, SheetType, Closed
  <2> QED BY <1>7, <2>1, <2>2, SheetMoves DEF SubmitEnds
<1> QED BY <1>1, <1>2, <1>3, <1>5, <1>6, <1>7 DEF Player

\* The other screens do not touch the sheet.
LEMMA SheetStep == SheetInv /\ [ScreensNext]_screenVars => SheetInv'
<1> SUFFICES ASSUME SheetInv, [ScreensNext]_screenVars PROVE SheetInv'
  OBVIOUS
<1>1. Player \/ UNCHANGED sheetVars
  BY DEF ScreensNext, screenVars
<1>2. CASE UNCHANGED sheetVars
  <2>1. SheetType'
    BY <1>2 DEF SheetInv, SheetType, sheetVars
  <2> QED BY <1>2, <2>1, SheetQuiet DEF sheetVars
<1> QED BY <1>1, <1>2, PlayerStep

\* Reports are about what was on the screen when Submit was tapped.
THEOREM ReportsFaithful == ScreensSpec => []ReportsAsTapped
<1>1. SheetInv => ReportsAsTapped
  BY DEF SheetInv
<1> QED BY <1>1, SheetInit, SheetStep, PTL DEF ScreensSpec

-----------------------------------------------------------------------------
\* Nothing is being deleted at first, and a deletion that is said to be scheduled is.
LEMMA DeletionInit == ScreensInit => DeletionHolds
  BY DEF ScreensInit, DeletionHolds, NoDeletion

\* Steps of the settings keep it; the other screens do not touch it.
LEMMA DeletionStep == DeletionHolds /\ [ScreensNext]_screenVars => DeletionHolds'
<1> SUFFICES ASSUME DeletionHolds, [ScreensNext]_screenVars PROVE DeletionHolds'
  OBVIOUS
<1>1. Settings \/ UNCHANGED settingsVars
  BY DEF ScreensNext, screenVars
<1>2. CASE UNCHANGED settingsVars
  BY <1>2 DEF DeletionHolds, settingsVars
<1>3. CASE DeleteAccount \/ DeletionEnds
  <2>1. deletion'.at # "served"
    BY <1>3 DEF DeleteAccount, DeletionEnds, NoDeletion
  <2> QED BY <2>1 DEF DeletionHolds
<1>4. CASE ServeDeletion
  <2>1. PICK code \in Answers(deleteAccount, deletion.user # Nobody),
             o \in {"value", "network", "unknown"}, done \in SUBSET ({deletion.user} \cap Users) :
          /\ o \in Outcomes(deleteAccount, code)
          /\ code # Lost => (done # {} <=> Good(code))
          /\ scheduled' = scheduled \cup done
          /\ deletion' = [deletion EXCEPT !.at = "served", !.outcome = o]
    BY <1>4 DEF ServeDeletion
  <2>2. deleteAccount \notin Queued /\ ~Good(Lost)
    BY DEF deleteAccount, Queued, trackListening, createReport, registerDeviceToken,
           unregisterDeviceToken, Operation, Good, Lost
  <2>3. o = "value" => Good(code) /\ code # Lost
    BY <2>1, <2>2 DEF Outcomes
  <2>4. o = "value" => deletion.user \in scheduled'
    BY <2>1, <2>3
  <2> QED BY <2>1, <2>4 DEF DeletionHolds
<1> QED BY <1>1, <1>2, <1>3, <1>4 DEF Settings

-----------------------------------------------------------------------------
\* No tap, no promise.
LEMMA TapInit == Init => TapHolds
  BY DEF Init, TapHolds, NoTap

\* A credited receipt stays its user's, and a call keeps what it is about.
LEMMA Keeps ==
  ASSUME IInv, [Next]_vars
  PROVE  /\ \A r \in Receipts : owner[r] # Nobody => owner'[r] = owner[r]
         /\ \A d \in Deliveries : delivery[d].at # "free" =>
              /\ delivery'[d].at # "free" /\ delivery'[d].receipt = delivery[d].receipt
              /\ delivery'[d].user = delivery[d].user
<1> USE DEF IInv
<1>1. ASSUME NEW e \in Deliveries, NEW c \in Call,
             delivery[e].at = "free", delivery' = [delivery EXCEPT ![e] = c]
      PROVE  \A d \in Deliveries : delivery[d].at # "free" => delivery'[d] = delivery[d]
  BY <1>1 DEF TypeOK
<1>2. ASSUME NEW d \in Deliveries, LookUp(d) \/ Create(d)
      PROVE  \A e \in Deliveries : delivery[e].at # "free" =>
              /\ delivery'[e].at # "free" /\ delivery'[e].receipt = delivery[e].receipt
              /\ delivery'[e].user = delivery[e].user
  <2>1. \E code \in {201, 409, 500} : Answer(d, code) \/ MissesReceipt(d)
    BY <1>2 DEF LookUp, Create
  <2> QED BY <2>1 DEF Answer, MissesReceipt, TypeOK, Call
<1>3. ASSUME NEW d \in Deliveries, Create(d)
      PROVE  \A r \in Receipts : owner[r] # Nobody => owner'[r] = owner[r]
  BY <1>3 DEF Create, Indexed, TypeOK
<1>4. ASSUME NEW d \in Deliveries, LookUp(d) PROVE owner' = owner
  BY <1>4 DEF LookUp, tableVars
<1>5. ASSUME NEW d \in Deliveries, NEW u \in Users, NEW r \in Receipts, Arrive(d, u, r)
      PROVE  owner' = owner /\ \A e \in Deliveries : delivery[e].at # "free" => delivery'[e] = delivery[e]
  <2>1. Received(u, r) \in Call
    BY DEF Received, Call
  <2> QED BY <1>1, <1>5, <2>1 DEF Arrive, tableVars
<1>6. ASSUME NEW d \in Deliveries, NEW r \in Receipts, handlePurchase(d, r)
      PROVE  owner' = owner /\ \A e \in Deliveries : delivery[e].at # "free" => delivery'[e] = delivery[e]
  <2>1. Received(buyer, r) \in Call
    BY DEF Received, Call, TypeOK
  <2> QED BY <1>1, <1>6, <2>1 DEF handlePurchase, tableVars
<1>7. CASE owner' = owner /\ delivery' = delivery
  BY <1>7
<1> QED BY <1>2, <1>3, <1>4, <1>5, <1>6, <1>7
        DEF Next, Serve, Phone, Expire, showPaywall, hidePaywall, VerifyEnds, GetStatus,
            PurchaseSucceeds, PurchaseFails, Boundary, vars, tableVars

\* A call that the paywall takes for a success has been answered 201.
LEMMA OnlyThanks == \A c \in {Lost} \cup verifyPurchase.statuses : Good(c) => c = 201
  BY DEF verifyPurchase, Operation, Good, Lost

\* Every step keeps what is known of the tap.
LEMMA TapStep == IInv /\ TapHolds /\ [Next]_vars => TapHolds'
<1> SUFFICES ASSUME IInv, TapHolds, [Next]_vars PROVE TapHolds'
  OBVIOUS
<1> USE DEF IInv
<1>1. CASE tap' = tap
  BY <1>1, Keeps, PurchaseAssumption DEF TapHolds, TypeOK
<1>2. ASSUME NEW d \in Deliveries, NEW r \in Receipts, handlePurchase(d, r) PROVE TapHolds'
  <2>1. /\ tap'.at = "verifying" /\ tap'.call = d /\ tap'.receipt = r /\ tap'.user = buyer
        /\ delivery'[d] = Received(buyer, r)
    BY <1>2 DEF handlePurchase, NoTap, TypeOK
  <2> QED BY <2>1 DEF TapHolds, Received
<1>3. CASE VerifyEnds
  <2>1. /\ tap.at = "verifying" /\ tap.call \in Deliveries /\ Verified(tap.call)
        /\ tap' = [tap EXCEPT !.at = "refreshing"] /\ owner' = owner
    BY <1>3 DEF VerifyEnds, TapHolds, tableVars
  <2>2. delivery[tap.call] \in Call /\ tap.receipt \in Receipts /\ tap.user \in Users
    BY <2>1 DEF TypeOK, TapHolds, CallsNamed
  <2>3. Thanked(tap.call, tap.receipt)
    BY <2>1, <2>2, OnlyThanks DEF Verified, Thanked, TapHolds, Call
  <2>4. owner[tap.receipt] = tap.user
    BY <2>1, <2>2, <2>3 DEF CreditedOnce, TapHolds
  <2>5. tap'.at = "refreshing" /\ tap'.receipt = tap.receipt /\ tap'.user = tap.user
    BY <2>1 DEF TypeOK, Tap
  <2> QED BY <2>1, <2>2, <2>4, <2>5 DEF TapHolds
<1>4. CASE GetStatus
  <2>1. tap.at = "refreshing" /\ tap'.at = "served" /\ tap'.receipt = tap.receipt
          /\ tap'.user = tap.user /\ owner' = owner
    BY <1>4 DEF GetStatus, TypeOK, Tap, tableVars
  <2> QED BY <2>1 DEF TapHolds
<1>5. CASE PurchaseSucceeds \/ PurchaseFails
  BY <1>5 DEF PurchaseSucceeds, PurchaseFails, NoTap, TapHolds
<1> QED BY <1>1, <1>2, <1>3, <1>4, <1>5
        DEF Next, Serve, Phone, LookUp, Create, Arrive, Expire, showPaywall, hidePaywall,
            Boundary, vars, phoneVars

-----------------------------------------------------------------------------
\* What the screens say was done was done, but for a report that a full queue refused.
THEOREM WhatIsSaidIsTrue == ScreensSpec => ToldTrue
<1> DEFINE Told == /\ \A i \in Submits : (SubmitEnds(i) /\ submit[i].outcome = "value")
                                            => Kept(i) \/ submit[i].refused
                   /\ (DeletionEnds /\ deletion.outcome = "value") => deletion.user \in scheduled
                   /\ PurchaseSucceeds => owner[tap.receipt] = tap.user
<1>1. SheetInv /\ DeletionHolds /\ TapHolds /\ [ScreensNext]_screenVars => [Told]_screenVars
  BY DEF SheetInv, AnswerHolds, DeletionHolds, TapHolds, SubmitEnds, DeletionEnds, PurchaseSucceeds
<1>2. ScreensInit => SheetInv /\ DeletionHolds /\ TapHolds /\ IInv
  BY SheetInit, DeletionInit, TapInit, InvInit DEF ScreensInit
<1>3. SheetInv /\ DeletionHolds /\ TapHolds /\ IInv /\ [ScreensNext]_screenVars
        => SheetInv' /\ DeletionHolds' /\ TapHolds' /\ IInv'
  BY SheetStep, DeletionStep, TapStep, InvStep, ScreensStep
<1> QED BY <1>1, <1>2, <1>3, PTL DEF ScreensSpec, ToldTrue

-----------------------------------------------------------------------------
(***************************************************************************)
(* The map of a city.  What a load has gathered is in ascending order and  *)
(* up to its cursor complete but for points that came or went meanwhile.   *)
(***************************************************************************)
\* A finite set of numbers has an order: that of each one's rank.
LEMMA OrderExists ==
  ASSUME NEW S \in SUBSET Nat, IsFiniteSet(S)
  PROVE  \E s \in [1..Cardinality(S) -> S] : \A i, j \in DOMAIN s : i < j => s[i] < s[j]
<1> DEFINE n == Cardinality(S)
           upTo(x) == {y \in S : y <= x}
           rank == [x \in S |-> Cardinality(upTo(x))]
<1>0. \A x \in S : x \in Nat
  OBVIOUS
<1>1. n \in Nat /\ \A x \in S : IsFiniteSet(upTo(x)) /\ Cardinality(upTo(x)) \in Nat
  BY FS_Subset, FS_CardinalityType
<1>2. ASSUME NEW x \in S PROVE rank[x] \in 1..n
  <2>1. Cardinality(upTo(x)) <= n
    BY FS_Subset
  <2>2. upTo(x) # {}
    OBVIOUS
  <2>3. Cardinality(upTo(x)) # 0
    BY <1>1, <2>2, FS_EmptySet
  <2>4. QED
    BY <1>1, <2>1, <2>3
<1>3. ASSUME NEW x \in S, NEW y \in S, x < y PROVE rank[x] < rank[y]
  <2>1. upTo(x) \in SUBSET upTo(y) /\ y \in upTo(y) /\ y \notin upTo(x)
    <3>1. \A z \in S : z <= x => z <= y
      BY <1>0, <1>3
    <3>2. y <= y /\ ~(y <= x)
      BY <1>0, <1>3
    <3>3. QED
      BY <3>1, <3>2
  <2>2. Cardinality(upTo(x)) <= Cardinality(upTo(y)) /\ Cardinality(upTo(x)) # Cardinality(upTo(y))
    BY <1>1, <2>1, FS_Subset
  <2>3. QED
    BY <1>1, <2>2
<1> HIDE DEF rank
<1>4. rank \in [S -> 1..n]
  BY <1>2 DEF rank
<1>5. rank \in Injection(S, 1..n)
  <2>1. ASSUME NEW x \in S, NEW y \in S, rank[x] = rank[y] PROVE x = y
    <3>1. ~(x < y) /\ ~(y < x)
      BY <1>1, <1>2, <1>3, <2>1
    <3>2. QED
      BY <3>1
  <2>2. QED
    BY <1>4, <2>1 DEF Injection, IsInjective
<1>6. IsFiniteSet(1..n) /\ Cardinality(1..n) = n
  BY <1>1, FS_Interval
<1>7. rank \in Surjection(S, 1..n)
  BY <1>5, <1>6, FS_Injection
<1>8. \A i \in 1..n : \E x \in S : rank[x] = i
  BY <1>7 DEF Surjection
<1> DEFINE s == [i \in 1..n |-> CHOOSE x \in S : rank[x] = i]
<1>9. \A i \in 1..n : s[i] \in S /\ rank[s[i]] = i
  BY <1>8
<1> HIDE DEF s
<1>10. s \in [1..n -> S]
  BY <1>9 DEF s
<1>11. ASSUME NEW i \in 1..n, NEW j \in 1..n, i < j PROVE s[i] < s[j]
  <2>1. s[i] \in S /\ s[j] \in S /\ rank[s[i]] = i /\ rank[s[j]] = j
    BY <1>9
  <2>2. i \in Nat /\ j \in Nat /\ ~(j < i) /\ i # j
    BY <1>1, <1>11
  <2>3. ~(s[j] < s[i]) /\ s[i] # s[j]
    BY <1>3, <2>1, <2>2
  <2>4. s[i] \in Nat /\ s[j] \in Nat
    BY <1>0, <2>1, Zenon
  <2>5. QED
    BY <2>3, <2>4
<1>12. QED
  BY <1>10, <1>11

LEMMA Ordered ==
  ASSUME NEW S \in SUBSET Nat, IsFiniteSet(S)
  PROVE  /\ Cardinality(S) \in Nat /\ InOrder(S) \in [1..Cardinality(S) -> S]
         /\ \A i, j \in 1..Cardinality(S) : i < j => InOrder(S)[i] < InOrder(S)[j]
         /\ \A p \in S : \E i \in 1..Cardinality(S) : InOrder(S)[i] = p
<1> DEFINE n == Cardinality(S)
           s == InOrder(S)
<1>1. n \in Nat
  BY FS_CardinalityType
<1>2. s \in [1..n -> S] /\ \A i, j \in DOMAIN s : i < j => s[i] < s[j]
  <2> DEFINE P(t) == \A i, j \in DOMAIN t : i < j => t[i] < t[j]
  <2>1. \E t \in [1..n -> S] : P(t)
    BY OrderExists
  <2>2. s = CHOOSE t \in [1..n -> S] : P(t)
    BY DEF InOrder
  <2> HIDE DEF P, s
  <2>3. s \in [1..n -> S] /\ P(s)
    BY <2>1, <2>2, Zenon
  <2>4. QED
    BY <2>3 DEF P
<1> HIDE DEF s
<1>3. s \in Injection(1..n, S)
  <2>1. ASSUME NEW i \in 1..n, NEW j \in 1..n, s[i] = s[j] PROVE i = j
    <3>0. s[i] \in S /\ DOMAIN s = 1..n
      BY <1>2
    <3>2. ~(s[i] < s[i])
      <4>1. s[i] \in Nat
        BY <3>0, Zenon
      <4>2. QED
        BY <4>1
    <3>1. ~(i < j) /\ ~(j < i)
      BY <1>2, <2>1, <3>0, <3>2
    <3>3. QED
      BY <1>1, <3>1
  <2>2. QED
    BY <1>2, <2>1 DEF Injection, IsInjective
<1>4. Cardinality(1..n) = n
  BY <1>1, FS_Interval
<1>5. s \in Surjection(1..n, S)
  BY <1>3, <1>4, FS_Injection
<1>6. \A p \in S : \E i \in 1..n : s[i] = p
  BY <1>5 DEF Surjection
<1>7. QED
  BY <1>1, <1>2, <1>6 DEF s

-----------------------------------------------------------------------------
LoadType  == [at : {"none", "pages", "whole"}, cursor : Nat, items : Seq(Pois), stayed : SUBSET Pois]
ShownType == [pois : Seq(Pois), loading : BOOLEAN, error : BOOLEAN]

InAscent(s) == \A i, j \in 1..Len(s) : i < j => s[i] < s[j]
Has(s, p)   == \E i \in 1..Len(s) : s[i] = p

\* What stayed is listed still; up to the cursor, and at the end at all, the load has it.
LoadSound(e, listed) ==
    /\ e \in LoadType /\ InAscent(e.items) /\ e.stayed \subseteq listed
    /\ e.at = "pages" => /\ \A i \in 1..Len(e.items) : e.items[i] <= e.cursor
                         /\ \A p \in e.stayed : p <= e.cursor => Has(e.items, p)
    /\ e.at = "whole" => \A p \in e.stayed : Has(e.items, p)

LoadInv ==
    /\ pois \in SUBSET Pois /\ shown \in ShownType
    /\ load = [l \in Loads |-> load[l]] /\ \A l \in Loads : LoadSound(load[l], pois)

LEMMA NothingLoaded == ASSUME NEW listed PROVE LoadSound(NoLoad, listed)
<1>1. <<>> \in Seq(Pois) /\ Len(<<>>) = 0
  OBVIOUS
<1>2. QED
  BY <1>1 DEF NoLoad, LoadSound, LoadType, InAscent

\* A load moves on, the list of points being what it was.
LEMMA LoadMoved ==
  ASSUME LoadInv, NEW l \in Loads, NEW e, load' = [load EXCEPT ![l] = e], LoadSound(e, pois),
         pois' = pois, shown' \in ShownType
  PROVE  LoadInv'
BY DEF LoadInv

\* A page is what comes first behind the cursor.
LEMMA PageSound ==
  ASSUME LoadInv, NEW l \in Loads, fetchPage(l)
  PROVE  LoadInv'
<1> DEFINE e == load[l]
           S == {p \in pois : p > e.cursor}
           after == InOrder(S)
           m == IF Len(after) < Limit THEN Len(after) ELSE Limit
           page == SubSeq(after, 1, m)
           more == Len(after) > Limit
           d == [e EXCEPT !.items = e.items \o page, !.cursor = IF more THEN NextCursor(after, page) ELSE e.cursor,
                          !.at = IF more THEN "pages" ELSE "whole"]
<1>1. e.at = "pages" /\ load' = [load EXCEPT ![l] = d] /\ UNCHANGED <<pois, shown>>
  BY DEF fetchPage
<1>2. e \in LoadType /\ LoadSound(e, pois) /\ shown \in ShownType /\ pois \in SUBSET Pois
  BY DEF LoadInv, LoadSound
<1>3. S \in SUBSET Nat /\ S \in SUBSET Pois /\ IsFiniteSet(S) /\ \A p \in S : e.cursor < p
  BY <1>2, ScreenAssumption, FS_Subset DEF LoadType
<1> DEFINE n == Cardinality(S)
<1>4. /\ n \in Nat /\ after \in [1..n -> S]
      /\ \A i, j \in 1..n : i < j => after[i] < after[j]
      /\ \A p \in S : \E i \in 1..n : after[i] = p
  BY <1>3, Ordered
<1> HIDE DEF S, after, n
<1>5. after \in Seq(Pois) /\ Len(after) = n
  <2>1. after \in [1..n -> Pois]
    BY <1>3, <1>4
  <2>2. after \in Seq(Pois)
    BY <1>4, <2>1, SeqDef
  <2>3. QED
    BY <1>4, <2>1, <2>2
<1>6. m \in 0..n /\ Limit \in Nat \ {0} /\ (more => m = Limit /\ m < n) /\ (~more => m = n)
  BY <1>4, <1>5, ScreenAssumption
<1> HIDE DEF m, more
<1>7. page \in Seq(Pois) /\ Len(page) = m /\ \A i \in 1..m : page[i] = after[i]
  BY <1>4, <1>5, <1>6, SubSeqProperties
<1> HIDE DEF page
<1> DEFINE items == e.items \o page
           k == Len(e.items)
<1>8. /\ items \in Seq(Pois) /\ k \in Nat /\ Len(items) = k + m
      /\ \A i \in 1..(k + m) : items[i] = IF i <= k THEN e.items[i] ELSE after[i - k]
      /\ \A i \in 1..(k + m) : ~(i <= k) => i - k \in 1..m /\ i - k \in 1..n
  <2>1. e.items \in Seq(Pois) /\ k \in Nat /\ m \in Nat /\ n \in Nat /\ m <= n
    BY <1>2, <1>4, <1>6 DEF LoadType
  <2>2. /\ items \in Seq(Pois) /\ Len(items) = k + m
        /\ \A i \in 1..(k + m) : items[i] = IF i <= k THEN e.items[i] ELSE page[i - k]
    BY <1>7, <2>1
  <2> HIDE DEF items, k
  <2>3. \A i \in 1..(k + m) : ~(i <= k) => i - k \in 1..m /\ i - k \in 1..n
    BY <2>1
  <2>4. QED
    BY <1>7, <2>1, <2>2, <2>3
<1>9. \A i \in 1..k : e.items[i] <= e.cursor /\ e.items[i] \in Nat
  BY <1>1, <1>2, ScreenAssumption DEF LoadSound, LoadType
<1> HIDE DEF items, k
<1>10. e.cursor \in Nat /\ \A i \in 1..n : e.cursor < after[i] /\ after[i] \in Nat
  BY <1>2, <1>3, <1>4 DEF LoadType
<1>11. InAscent(items)
  <2>1. ASSUME NEW i \in 1..(k + m), NEW j \in 1..(k + m), i < j PROVE items[i] < items[j]
    <3>1. CASE j <= k
      BY <1>2, <1>8, <2>1, <3>1 DEF LoadSound, InAscent, k
    <3>2. CASE i <= k /\ ~(j <= k)
      <4>1. i \in 1..k /\ items[i] = e.items[i] /\ items[j] = after[j - k] /\ j - k \in 1..n
        BY <1>8, <3>2
      <4>2. QED
        BY <1>9, <1>10, <4>1
    <3>3. CASE ~(i <= k) /\ ~(j <= k)
      <4>1. /\ i - k \in 1..n /\ j - k \in 1..n /\ i - k < j - k
            /\ items[i] = after[i - k] /\ items[j] = after[j - k]
        BY <1>4, <1>6, <1>8, <2>1, <3>3
      <4>2. QED
        BY <1>4, <4>1
    <3>4. QED
      BY <1>6, <1>8, <2>1, <3>1, <3>2, <3>3
  <2>2. QED
    BY <1>8, <2>1 DEF InAscent
\* What stayed and was not behind the cursor before is on the page or after it.
<1>12. ASSUME NEW p \in e.stayed
       PROVE  Has(items, p) \/ \E i \in 1..n : after[i] = p /\ i > m
  <2>1. p \in pois /\ p \in Nat
    BY <1>2, ScreenAssumption DEF LoadSound
  <2>2. CASE p <= e.cursor
    <3>1. PICK i \in 1..k : e.items[i] = p
      BY <1>1, <1>2, <2>2 DEF LoadSound, Has, k
    <3>2. i \in 1..(k + m) /\ items[i] = p
      BY <1>6, <1>8, <3>1
    <3>3. QED
      BY <1>8, <3>2 DEF Has
  <2>3. CASE ~(p <= e.cursor)
    <3>1. p \in S
      BY <1>10, <2>1, <2>3 DEF S
    <3>2. PICK i \in 1..n : after[i] = p
      BY <1>4, <3>1
    <3>3. CASE i <= m
      <4>1. i + k \in 1..(k + m) /\ ~(i + k <= k) /\ (i + k) - k = i
        BY <1>6, <1>8, <3>3
      <4>2. items[i + k] = p
        BY <1>8, <3>2, <4>1
      <4>3. QED
        BY <1>8, <4>1, <4>2 DEF Has
    <3>4. QED
      BY <1>6, <3>2, <3>3
  <2>4. QED
    BY <2>2, <2>3
<1>13. CASE more
  <2>1. m \in 1..n /\ NextCursor(after, page) = after[m]
    BY <1>6, <1>7, <1>13 DEF NextCursor, Last
  <2>2. after[m] \in Nat /\ e.cursor < after[m]
    BY <1>10, <2>1
  <2>3. d = [e EXCEPT !.items = items, !.cursor = after[m], !.at = "pages"]
    BY <1>13, <2>1 DEF items
  <2> HIDE DEF d
  <2>4. d \in LoadType /\ d.items = items /\ d.cursor = after[m] /\ d.at = "pages" /\ d.stayed = e.stayed
    BY <1>2, <1>8, <2>2, <2>3 DEF LoadType
  <2>5. ASSUME NEW i \in 1..(k + m) PROVE items[i] <= after[m]
    <3>1. CASE i <= k
      <4>1. i \in 1..k /\ items[i] = e.items[i]
        BY <1>8, <3>1
      <4>2. QED
        BY <1>9, <1>10, <2>1, <2>2, <4>1
    <3>2. CASE ~(i <= k)
      <4>1. i - k \in 1..m /\ i - k \in 1..n /\ items[i] = after[i - k]
        BY <1>8, <3>2
      <4>2. QED
        BY <1>4, <1>6, <1>10, <2>1, <4>1
    <3>3. QED
      BY <1>8, <3>1, <3>2
  <2>6. ASSUME NEW p \in e.stayed, p <= after[m] PROVE Has(items, p)
    <3>1. ASSUME NEW i \in 1..n, after[i] = p, i > m PROVE FALSE
      <4>1. after[m] < after[i]
        BY <1>4, <1>6, <2>1, <3>1
      <4>2. QED
        BY <1>10, <2>1, <2>6, <3>1, <4>1
    <3>2. QED
      BY <1>12, <3>1
  <2>7. LoadSound(d, pois)
    BY <1>2, <1>8, <1>11, <2>4, <2>5, <2>6 DEF LoadSound
  <2>8. QED
    BY <1>1, <1>2, <2>7, LoadMoved
<1>14. CASE ~more
  <2>1. d = [e EXCEPT !.items = items, !.cursor = e.cursor, !.at = "whole"]
    BY <1>14 DEF items
  <2> HIDE DEF d
  <2>2. d \in LoadType /\ d.items = items /\ d.at = "whole" /\ d.stayed = e.stayed
    BY <1>2, <1>8, <2>1 DEF LoadType
  <2>3. \A p \in e.stayed : Has(items, p)
    BY <1>6, <1>12, <1>14
  <2>4. LoadSound(d, pois)
    BY <1>2, <1>11, <2>2, <2>3 DEF LoadSound
  <2>5. QED
    BY <1>1, <1>2, <2>4, LoadMoved
<1>15. QED
  BY <1>13, <1>14

LEMMA CityStep == ASSUME LoadInv, City PROVE LoadInv'
<1>1. ASSUME NEW p \in Pois, EditPois(p) PROVE LoadInv'
  <2>1. pois' \in SUBSET Pois /\ shown' = shown /\ \A l \in Loads : load'[l] = [load[l] EXCEPT !.stayed = @ \cap pois']
    BY <1>1 DEF EditPois, LoadInv
  <2>2. ASSUME NEW l \in Loads PROVE LoadSound(load'[l], pois')
    <3>1. load[l] \in LoadType /\ LoadSound(load[l], pois)
      BY DEF LoadInv, LoadSound
    <3>2. /\ load'[l] \in LoadType /\ load'[l].items = load[l].items /\ load'[l].cursor = load[l].cursor
          /\ load'[l].at = load[l].at /\ load'[l].stayed = load[l].stayed \cap pois'
      <4> DEFINE f == [load[l] EXCEPT !.stayed = load[l].stayed \cap pois']
      <4>1. load'[l] = f
        BY <2>1
      <4>2. /\ f \in LoadType /\ f.items = load[l].items /\ f.cursor = load[l].cursor
            /\ f.at = load[l].at /\ f.stayed = load[l].stayed \cap pois'
        BY <3>1 DEF LoadType
      <4> HIDE DEF f
      <4>3. QED
        BY <4>1, <4>2
    <3>3. QED
      BY <3>1, <3>2 DEF LoadSound
  <2>3. load' = [l \in Loads |-> load'[l]]
    BY <1>1 DEF EditPois
  <2>4. QED
    BY <2>1, <2>2, <2>3 DEF LoadInv
<1>2. ASSUME NEW l \in Loads, loadCity(l) PROVE LoadInv'
  <2> DEFINE e == [NoLoad EXCEPT !.at = "pages", !.stayed = pois]
  <2>1. <<>> \in Seq(Pois) /\ Len(<<>>) = 0 /\ pois \in SUBSET Pois /\ shown \in ShownType
    BY DEF LoadInv
  <2>2. NoLoad \in LoadType /\ NoLoad.cursor = 0 /\ NoLoad.items = <<>>
    BY <2>1 DEF NoLoad, LoadType
  <2>3. e \in LoadType /\ e.at = "pages" /\ e.cursor = 0 /\ e.items = <<>> /\ e.stayed = pois
    BY <2>1, <2>2 DEF LoadType
  <2> HIDE DEF e
  <2>4. LoadSound(e, pois)
    <3>1. \A p \in pois : ~(p <= 0)
      BY <2>1, ScreenAssumption
    <3>2. QED
      BY <2>1, <2>3, <3>1 DEF LoadSound, InAscent
  <2>5. load' = [load EXCEPT ![l] = e] /\ pois' = pois /\ shown' \in ShownType
    BY <1>2, <2>1 DEF loadCity, ShownType, e
  <2>6. QED
    BY <2>4, <2>5, LoadMoved
<1>3. ASSUME NEW l \in Loads, LoadEnds(l) \/ LoadFails(l) PROVE LoadInv'
  <2>1. load' = [load EXCEPT ![l] = NoLoad] /\ pois' = pois
    BY <1>3 DEF LoadEnds, LoadFails
  <2>2. load[l].items \in Seq(Pois) /\ shown \in ShownType
    BY DEF LoadInv, LoadSound, LoadType
  <2>3. shown' \in ShownType
    BY <1>3, <2>2 DEF LoadEnds, LoadFails, ShownType
  <2>4. QED
    BY <2>1, <2>3, NothingLoaded, LoadMoved
<1>4. QED
  BY <1>1, <1>2, <1>3, PageSound DEF City

\* The other screens leave the map alone.
LEMMA MapStep == LoadInv /\ [ScreensNext]_screenVars => LoadInv'
<1> SUFFICES ASSUME LoadInv, [ScreensNext]_screenVars PROVE LoadInv'
  OBVIOUS
<1>1. CASE UNCHANGED cityVars
  BY <1>1 DEF cityVars, LoadInv
<1>2. CASE City
  BY <1>2, CityStep
<1>3. QED
  BY <1>1, <1>2 DEF ScreensNext, screenVars

LEMMA MapInit == ScreensInit => LoadInv
<1> SUFFICES ASSUME ScreensInit PROVE LoadInv
  OBVIOUS
<1>1. pois \in SUBSET Pois /\ load = [l \in Loads |-> NoLoad]
  BY DEF ScreensInit
<1>2. shown \in ShownType
  <2>1. <<>> \in Seq(Pois)
    OBVIOUS
  <2>2. QED
    BY <2>1 DEF ScreensInit, Blank, ShownType
<1>3. QED
  BY <1>1, <1>2, NothingLoaded DEF LoadInv

\* A city's points are gathered page by page while others add and remove some: the map
\* gets all that stayed, and none twice, for any points, page size and overlapping loads.
THEOREM MapsAreWhole == ScreensSpec => LoadedWhole
<1>1. ASSUME LoadInv, NEW l \in Loads, LoadEnds(l)
      PROVE  load[l].stayed \subseteq Range(shown'.pois) /\ IsInjective(shown'.pois)
  <2> DEFINE items == load[l].items
  <2>1. LoadSound(load[l], pois) /\ load[l].at = "whole" /\ shown'.pois = items
    BY <1>1 DEF LoadInv, ShownType, LoadEnds
  <2>2. items \in Seq(Pois) /\ InAscent(items) /\ \A p \in load[l].stayed : Has(items, p)
    BY <2>1 DEF LoadSound, LoadType
  <2>3. DOMAIN items = 1..Len(items) /\ Len(items) \in Nat /\ \A i \in 1..Len(items) : items[i] \in Nat
    <3>1. \A i \in 1..Len(items) : items[i] \in Pois
      BY <2>2
    <3>2. \A p \in Pois : p \in Nat
      BY ScreenAssumption
    <3>3. Len(items) \in Nat /\ DOMAIN items = 1..Len(items)
      BY <2>2
    <3>4. QED
      BY <3>1, <3>2, <3>3, Zenon
  <2> HIDE DEF items
  <2>4. load[l].stayed \subseteq Range(items)
    BY <2>2, <2>3 DEF Has, Range
  <2>5. ASSUME NEW i \in DOMAIN items, NEW j \in DOMAIN items, items[i] = items[j] PROVE i = j
    <3>1. ~(i < j) /\ ~(j < i)
      BY <2>2, <2>3, <2>5 DEF InAscent
    <3>2. QED
      BY <2>3, <3>1
  <2>6. IsInjective(items)
    BY <2>5 DEF IsInjective
  <2>7. QED
    BY <2>1, <2>4, <2>6
<1>2. LoadInv =>
        [\A l \in Loads : LoadEnds(l) =>
            /\ load[l].stayed \subseteq Range(shown'.pois)
            /\ IsInjective(shown'.pois)]_screenVars
  BY <1>1
<1>3. ScreensSpec => []LoadInv
  BY MapInit, MapStep, PTL DEF ScreensSpec
<1>4. QED
  BY <1>2, <1>3, PTL DEF LoadedWhole

-----------------------------------------------------------------------------
(***************************************************************************)
(* The launch.  What is still to be written counts as much as what is on   *)
(* the disk: the invariants speak of the disk, the queue of writes and the *)
(* stores as of one sequence, in which the onboarding is never taken back  *)
(* and the stamp comes after everything that it speaks for.                *)
(***************************************************************************)
Data  == {"none", "old", "new"}
Value == [version |-> {"stale", "current"}, onboarded |-> BOOLEAN,
          downloads |-> Data, purchases |-> Data]
\* A write that waits.
Entry == UNION {[key : {k}, value : Value[k]] : k \in DOMAIN Value}

StorageType ==
    /\ disk \in [version : {"stale", "current"}, onboarded : BOOLEAN,
                 downloads : Data, purchases : Data]
    /\ tables \in [cache : Data, queue : Data]
    /\ writes \in Seq(Entry) /\ Len(writes) <= MaxWrites

ProcessType ==
    /\ up \in BOOLEAN
    /\ mem \in [onboarded : BOOLEAN, downloads : Data, purchases : Data]
    /\ DOMAIN read \subseteq DOMAIN BlankStores
    /\ \A key \in DOMAIN read : read[key] \in Value[key]
    /\ hydrated \subseteq Stores
    /\ boot \in {"idle", "loading", "over"} /\ syncer \in {"off", "opening", "wired", "failed"}
    /\ stage \in Range(Order) \cup {"waiting", "done", "failed"}

Names == {"index", "welcome", "language", "permissions", "home"}

RouteType ==
    /\ pages \in Seq(Names) /\ Len(pages) \in 1..MaxPages /\ granted \in BOOLEAN
    /\ mishaps \subseteq {"read", "open", "drop", "stamp", "reconcile"}
    /\ late \in BOOLEAN /\ crashes \in 0..MaxCrashes

TypeInv == Bounds /\ StorageType /\ ProcessType /\ RouteType

\* What a write may hold.
LEMMA Entries ==
  /\ \A e \in Entry : /\ e = [key |-> e.key, value |-> e.value]
                      /\ e.key \in DOMAIN Value /\ e.value \in Value[e.key]
  /\ \A k \in DOMAIN Value : \A v \in Value[k] : [key |-> k, value |-> v] \in Entry
  /\ DOMAIN Value = {"version", "onboarded", "downloads", "purchases"}
  /\ DOMAIN BlankStores = {"onboarded", "downloads", "purchases"}
  /\ Value.version = {"stale", "current"} /\ Value.onboarded = BOOLEAN
  /\ Value.downloads = Data /\ Value.purchases = Data
<1>1. ASSUME NEW e \in Entry
      PROVE  e = [key |-> e.key, value |-> e.value] /\ e.key \in DOMAIN Value /\ e.value \in Value[e.key]
  <2>1. PICK k \in DOMAIN Value : e \in [key : {k}, value : Value[k]]
    BY DEF Entry
  <2>2. QED
    BY <2>1
<1>2. ASSUME NEW k \in DOMAIN Value, NEW v \in Value[k]
      PROVE  [key |-> k, value |-> v] \in Entry
  BY DEF Entry
<1>3. QED
  BY <1>1, <1>2 DEF Value, BlankStores

\* The steps of the migration, and what follows each of them.
LEMMA Steps ==
  /\ Range(Order) = {"clear", "dropCache", "dropQueue", "stamp", "stamping", "reconcile"}
  /\ After("clear") = "dropCache" /\ After("dropCache") = "dropQueue"
  /\ After("dropQueue") = "stamp" /\ After("stamp") = "stamping"
  /\ After("stamping") = "reconcile"
<1>1. Range(Order) = {"clear", "dropCache", "dropQueue", "stamp", "stamping", "reconcile"}
  BY DEF Range, Order
<1>2. /\ (CHOOSE i \in 1..5 : Order[i] = "clear") = 1
      /\ (CHOOSE i \in 1..5 : Order[i] = "dropCache") = 2
      /\ (CHOOSE i \in 1..5 : Order[i] = "dropQueue") = 3
      /\ (CHOOSE i \in 1..5 : Order[i] = "stamp") = 4
      /\ (CHOOSE i \in 1..5 : Order[i] = "stamping") = 5
  BY DEF Order
<1>3. QED
  BY <1>1, <1>2 DEF After, Order

\* A write that is asked for has its type.
LEMMA Writes ==
  ASSUME Bounds, StorageType, NEW k \in DOMAIN Value, NEW v \in Value[k], Room, Write(k, v)
  PROVE  writes' \in Seq(Entry) /\ Len(writes') <= MaxWrites
<1>1. [key |-> k, value |-> v] \in Entry
  BY Entries
<1> DEFINE e == [key |-> k, value |-> v]
<1>2. e \in Entry /\ writes' = Append(writes, e)
  BY <1>1 DEF Write
<1> HIDE DEF e
<1>3. QED
  BY <1>2 DEF StorageType, Room, Bounds

LEMMA TypeInit == ASSUME Bounds, LaunchInit PROVE TypeInv
<1>1. StorageType
  <2>1. /\ disk \in [version : {"stale", "current"}, onboarded : BOOLEAN, downloads : Data, purchases : Data]
        /\ tables \in [cache : Data, queue : Data]
    <3>1. PICK o \in BOOLEAN, v \in {"stale", "current"}, d \in Data :
            /\ disk = [version |-> v, onboarded |-> o, downloads |-> d, purchases |-> d]
            /\ tables = [cache |-> d, queue |-> d]
      BY DEF LaunchInit, Install, Data
    <3>2. QED
      BY <3>1
  <2>2. writes \in Seq(Entry) /\ Len(writes) = 0
    BY DEF LaunchInit
  <2>3. QED
    BY <2>1, <2>2 DEF StorageType, Bounds
<1>2. ProcessType
  <2>1. DOMAIN read = {}
    BY DEF LaunchInit
  <2>2. mem \in [onboarded : BOOLEAN, downloads : Data, purchases : Data]
    BY DEF LaunchInit, BlankStores, Data
  <2>3. QED
    BY <2>1, <2>2 DEF LaunchInit, ProcessType
<1>3. RouteType
  <2>1. <<"index">> \in Seq(Names) /\ Len(<<"index">>) = 1
    BY DEF Names
  <2>2. QED
    <3>1. Len(pages) \in 1..MaxPages /\ pages \in Seq(Names)
      BY <2>1 DEF LaunchInit, Bounds
    <3>2. crashes \in 0..MaxCrashes
      BY DEF LaunchInit, Bounds
    <3>3. mishaps = {} /\ late \in BOOLEAN /\ granted \in BOOLEAN
      BY DEF LaunchInit
    <3>4. QED
      BY <3>1, <3>2, <3>3 DEF RouteType
<1>4. QED
  BY <1>1, <1>2, <1>3 DEF TypeInv

LEMMA StorageStep == ASSUME TypeInv, [LaunchNext]_launchVars PROVE StorageType'
<1> USE DEF TypeInv
<1>1. CASE Flush
  <2>1. /\ Head(writes) \in Entry /\ Tail(writes) \in Seq(Entry)
        /\ Len(Tail(writes)) = Len(writes) - 1
    BY <1>1 DEF Flush, StorageType
  <2>2. disk' \in [version : {"stale", "current"}, onboarded : BOOLEAN, downloads : Data, purchases : Data]
    <3> DEFINE k == Head(writes).key  v == Head(writes).value
    <3>1. k \in DOMAIN Value /\ v \in Value[k] /\ disk' = [disk EXCEPT ![k] = v]
      BY <1>1, <2>1, Entries DEF Flush
    <3> HIDE DEF k, v
    <3>2. CASE k = "version"
      BY <3>1, <3>2, Entries DEF StorageType
    <3>3. CASE k = "onboarded"
      BY <3>1, <3>3, Entries DEF StorageType
    <3>4. CASE k = "downloads"
      BY <3>1, <3>4, Entries DEF StorageType
    <3>5. CASE k = "purchases"
      BY <3>1, <3>5, Entries DEF StorageType
    <3>6. QED
      BY <3>1, <3>2, <3>3, <3>4, <3>5, Entries
  <2>3. QED
    BY <1>1, <2>1, <2>2 DEF Flush, StorageType, Bounds
<1>2. CASE Launch \/ HydrateAuth \/ BootStarts \/ BootEnds \/ ReadVersion
           \/ Stamped
  BY <1>2 DEF Launch, HydrateAuth, BootStarts, BootEnds, ReadVersion,
     Stamped, storage, StorageType
<1>3. CASE Crash
  BY <1>3 DEF Crash, StorageType, Bounds
<1>4. ASSUME NEW store, NEW key \in DOMAIN BlankStores, Hydrate(store, key)
      PROVE  StorageType'
  <2>1. PICK v \in Value[key] : Room /\ Write(key, v)
    <3>1. read[key] \in Value[key] /\ mem[key] \in Value[key]
      BY <1>4, Entries DEF Hydrate, ProcessType
    <3>2. QED
      BY <1>4, <3>1 DEF Hydrate, Merged
  <2>2. writes' \in Seq(Entry) /\ Len(writes') <= MaxWrites
    BY <2>1, Writes, Entries
  <2>3. QED
    BY <1>4, <2>2 DEF Hydrate, StorageType
<1>5. CASE InitQueue
  BY <1>5 DEF InitQueue, Created, StorageType, Data
<1>6. CASE ClearStores
  <2>1. /\ [key |-> "downloads", value |-> "none"] \in Entry
        /\ [key |-> "purchases", value |-> "none"] \in Entry
    BY Entries DEF Data
  <2> DEFINE a == [key |-> "downloads", value |-> "none"]
             b == [key |-> "purchases", value |-> "none"]
  <2>2. a \in Entry /\ b \in Entry /\ writes' = writes \o <<a, b>>
    BY <1>6, <2>1 DEF ClearStores
  <2> HIDE DEF a, b
  <2>3. writes' \in Seq(Entry) /\ Len(writes') = Len(writes) + 2
    BY <2>2 DEF StorageType
  <2>4. QED
    BY <1>6, <2>3 DEF ClearStores, StorageType, Bounds
<1>7. CASE Drop("dropCache", "cache") \/ Drop("dropQueue", "queue")
  BY <1>7 DEF Drop, StorageType, Data
<1>8. CASE Stamp
  <2>1. writes' \in Seq(Entry) /\ Len(writes') <= MaxWrites
    BY <1>8, Writes, Entries DEF Stamp, StorageType
  <2>2. QED
    BY <1>8, <2>1 DEF Stamp, StorageType
<1>9. CASE Reconcile
  <2>1. writes' \in Seq(Entry) /\ Len(writes') <= MaxWrites
    BY <1>9, Writes, Entries DEF Reconcile, StorageType, Data
  <2>2. QED
    BY <1>9, <2>1 DEF Reconcile, Created, StorageType, Data
<1>10. CASE Index \/ Welcome \/ Language \/ requestLocationPermission
            \/ GoBack \/ NotificationTap
  BY <1>10 DEF Index, Welcome, Language, requestLocationPermission, GoBack,
     NotificationTap, storage, StorageType
<1>11. CASE SetLanguage \/ handleGetStarted
  <2>1. Room
    <3>1. writes = <<>>
      BY <1>11 DEF SetLanguage, handleGetStarted, Quiet
    <3>2. Len(writes) = 0
      BY <3>1
    <3>3. QED
      BY <3>2 DEF Room, Bounds
  <2>2. mem.onboarded \in BOOLEAN
    BY DEF ProcessType
  <2>3. writes' \in Seq(Entry) /\ Len(writes') <= MaxWrites
    BY <1>11, <2>1, <2>2, Writes, Entries DEF SetLanguage, handleGetStarted
  <2>4. QED
    BY <1>11, <2>3 DEF SetLanguage, handleGetStarted, StorageType
<1>12. CASE UNCHANGED launchVars
  BY <1>12 DEF launchVars, storage, StorageType
<1>13. QED
  BY <1>1, <1>2, <1>3, <1>4, <1>5, <1>6, <1>7, <1>8, <1>9, <1>10, <1>11, <1>12, Entries
     DEF LaunchNext, Launching, Hydration, Migration, Onboarding

LEMMA ProcessStep == ASSUME TypeInv, [LaunchNext]_launchVars PROVE ProcessType'
<1> USE DEF TypeInv
<1>1. CASE Flush \/ InitQueue \/ Drop("dropCache", "cache")
           \/ Drop("dropQueue", "queue") \/ Stamp \/ Stamped
  BY <1>1, Steps DEF Flush, InitQueue, Drop, Stamp, Stamped, process,
     ProcessType
<1>2. CASE Launch
  BY <1>2, Entries DEF Launch, StorageType, ProcessType
<1>3. CASE Crash
  <2>1. DOMAIN read' = {} /\ mem' \in [onboarded : BOOLEAN, downloads : Data, purchases : Data]
    BY <1>3 DEF Crash, BlankStores, Data
  <2>2. QED
    BY <1>3, <2>1 DEF Crash, ProcessType
<1>4. ASSUME NEW store \in Stores, NEW key \in DOMAIN BlankStores, Hydrate(store, key)
      PROVE  ProcessType'
  <2>1. read[key] \in Value[key] /\ key \in DOMAIN read
    BY <1>4 DEF Hydrate, ProcessType
  <2>2. mem' \in [onboarded : BOOLEAN, downloads : Data, purchases : Data]
    <3>1. mem' = mem \/ mem' = [mem EXCEPT ![key] = read[key]]
      BY <1>4 DEF Hydrate, Merged
    <3>2. QED
      BY <2>1, <3>1, Entries DEF ProcessType
  <2>3. DOMAIN read' \subseteq DOMAIN read /\ \A k \in DOMAIN read' : read'[k] = read[k]
    BY <1>4 DEF Hydrate, Restrict
  <2>4. QED
    BY <1>4, <2>2, <2>3 DEF Hydrate, HydratedAfter, ProcessType
<1>5. CASE HydrateAuth \/ BootStarts \/ BootEnds \/ ReadVersion
  BY <1>5, Steps DEF HydrateAuth, BootStarts, BootEnds, ReadVersion, Stores,
     ProcessType
<1>6. CASE ClearStores \/ Reconcile
  BY <1>6, Steps DEF ClearStores, Reconcile, Data, ProcessType
<1>7. CASE Index \/ Welcome \/ SetLanguage \/ Language
           \/ requestLocationPermission \/ handleGetStarted
  BY <1>7 DEF Index, Welcome, SetLanguage, Language,
     requestLocationPermission, handleGetStarted, Pages, ProcessType
<1>8. CASE GoBack \/ NotificationTap \/ UNCHANGED launchVars
  BY <1>8 DEF GoBack, NotificationTap, launchVars, process, ProcessType
<1>9. QED
  BY <1>1, <1>2, <1>3, <1>4, <1>5, <1>6, <1>7, <1>8, Entries
     DEF LaunchNext, Launching, Hydration, Migration, Onboarding, Stores

\* A page in the place of the top one, or above it, or its removal.
LEMMA Stack ==
  ASSUME Bounds, RouteType
  PROVE  /\ \A p \in Names : /\ Append(Front(pages), p) \in Seq(Names)
                             /\ Len(Append(Front(pages), p)) = Len(pages)
         /\ \A p \in Names : /\ Append(pages, p) \in Seq(Names)
                             /\ Len(Append(pages, p)) = Len(pages) + 1
         /\ Front(pages) \in Seq(Names) /\ Len(Front(pages)) = Len(pages) - 1
         /\ \A i \in 1..Len(pages) - 1 : Front(pages)[i] = pages[i]
<1>1. /\ Front(pages) \in Seq(Names) /\ Len(Front(pages)) = Len(pages) - 1
      /\ \A i \in 1..Len(pages) - 1 : Front(pages)[i] = pages[i]
  <2>1. pages \in Seq(Names) /\ Len(pages) \in Nat \ {0}
    BY DEF RouteType, Bounds
  <2> DEFINE n == Len(pages) - 1
  <2>2. n \in Int /\ \A i \in 1..n : pages[i] \in Names
    BY <2>1
  <2>3. n >= 0 /\ Front(pages) = SubSeq(pages, 1, n)
    BY <2>1 DEF Front
  <2> HIDE DEF n
  <2>4. /\ SubSeq(pages, 1, n) \in Seq(Names)
        /\ Len(SubSeq(pages, 1, n)) = IF 1 <= n THEN n - 1 + 1 ELSE 0
        /\ \A i \in 1..n - 1 + 1 : SubSeq(pages, 1, n)[i] = pages[1 + i - 1]
    BY <2>2, SubSeqProperties
  <2>5. Len(SubSeq(pages, 1, n)) = n
    BY <2>2, <2>3, <2>4
  <2>6. /\ Front(pages) \in Seq(Names) /\ Len(Front(pages)) = n
        /\ \A i \in 1..n : Front(pages)[i] = pages[i]
    BY <2>2, <2>3, <2>4, <2>5
  <2>7. QED
    BY <2>6 DEF n
<1> DEFINE f == Front(pages)
<1>2. /\ f \in Seq(Names) /\ Len(f) = Len(pages) - 1
      /\ \A i \in 1..Len(pages) - 1 : f[i] = pages[i]
  BY <1>1
<1> HIDE DEF f
<1>3. \A p \in Names : Append(f, p) \in Seq(Names) /\ Len(Append(f, p)) = Len(pages)
  BY <1>2 DEF RouteType, Bounds
<1>4. QED
  BY <1>2, <1>3 DEF RouteType, f, Bounds

LEMMA RouteStep == ASSUME TypeInv, [LaunchNext]_launchVars PROVE RouteType'
<1> USE DEF TypeInv
<1>1. CASE Flush \/ Launch \/ HydrateAuth \/ BootStarts \/ BootEnds
           \/ ReadVersion \/ ClearStores
  BY <1>1 DEF Flush, Launch, HydrateAuth, BootStarts, BootEnds,
     ReadVersion, ClearStores, route, rest, RouteType
<1>2. CASE Stamped \/ SetLanguage \/ UNCHANGED launchVars
  BY <1>2 DEF Stamped, SetLanguage, Pages, launchVars, route, rest, RouteType
<1>3. ASSUME NEW store, NEW key, Hydrate(store, key)
      PROVE  RouteType'
  BY <1>3 DEF Hydrate, Mishap, route, RouteType
<1>4. CASE InitQueue \/ Stamp \/ Reconcile \/ Drop("dropCache", "cache")
           \/ Drop("dropQueue", "queue")
  BY <1>4 DEF InitQueue, Stamp, Reconcile, Drop, Mishap, route, RouteType
<1>5. CASE Crash
  <2>1. <<"index">> \in Seq(Names) /\ Len(<<"index">>) = 1
    BY DEF Names
  <2>2. pages' \in Seq(Names) /\ Len(pages') \in 1..MaxPages
    BY <1>5, <2>1 DEF Crash, Bounds
  <2>3. crashes' \in 0..MaxCrashes
    BY <1>5 DEF Crash, RouteType, Bounds
  <2>4. granted' \in BOOLEAN /\ UNCHANGED <<mishaps, late>>
    BY <1>5 DEF Crash
  <2>5. QED
    BY <2>2, <2>3, <2>4 DEF RouteType
<1>6. CASE Index \/ handleGetStarted
  <2>1. PICK p \in Names : pages' = Append(Front(pages), p)
    BY <1>6 DEF Index, handleGetStarted, Show, Names
  <2>2. QED
    BY <1>6, <2>1, Stack DEF Index, handleGetStarted, Pages, rest, RouteType
<1>7. CASE Welcome \/ Language \/ NotificationTap
  <2>1. PICK p \in Names : Len(pages) < MaxPages /\ pages' = Append(pages, p)
    BY <1>7 DEF Welcome, Language, NotificationTap, Push, Names
  <2>2. granted' \in BOOLEAN /\ UNCHANGED <<mishaps, late, crashes>>
    BY <1>7 DEF Welcome, Language, NotificationTap, Pages, rest, RouteType
  <2>3. pages' \in Seq(Names) /\ Len(pages') \in 1..MaxPages
    BY <2>1, Stack DEF RouteType, Bounds
  <2>4. QED
    BY <2>2, <2>3 DEF RouteType
<1>8. CASE requestLocationPermission
  BY <1>8 DEF requestLocationPermission, Pages, rest, RouteType
<1>9. CASE GoBack
  <2>1. pages' \in Seq(Names) /\ Len(pages') \in 1..MaxPages
    BY <1>9, Stack DEF GoBack, RouteType, Bounds
  <2>2. QED
    BY <1>9, <2>1 DEF GoBack, rest, RouteType
<1>10. QED
  BY <1>1, <1>2, <1>3, <1>4, <1>5, <1>6, <1>7, <1>8, <1>9
     DEF LaunchNext, Launching, Hydration, Migration, Onboarding

LEMMA TypeStep == ASSUME TypeInv, [LaunchNext]_launchVars PROVE TypeInv'
BY StorageStep, ProcessStep, RouteStep DEF TypeInv

LEMMA TypeFits == TypeInv => LaunchTypeOK
BY Entries, Steps DEF TypeInv, StorageType, ProcessType, RouteType, LaunchTypeOK, Data

-----------------------------------------------------------------------------
(***************************************************************************)
(* What has been read, and what a step asks the storage to write.          *)
(***************************************************************************)
\* A store is hydrated once what it read is merged, the migration begins after
\* the downloads', and a process that is down has nothing.
Reading ==
    /\ ~up => writes = <<>> /\ hydrated = {} /\ stage = "waiting"
    /\ up => ("settings" \in hydrated \/ "onboarded" \in DOMAIN read)
    /\ "settings" \in hydrated => "onboarded" \notin DOMAIN read
    /\ "download" \in hydrated => "downloads" \notin DOMAIN read
    /\ stage # "waiting" => "download" \in hydrated

LEMMA ReadingInit == LaunchInit => Reading
BY DEF LaunchInit, Reading

LEMMA ReadingStep == ASSUME TypeInv, Reading, [LaunchNext]_launchVars PROVE Reading'
<1>1. CASE Flush
  BY <1>1 DEF Flush, process, Reading
<1>2. CASE Launch
  BY <1>2, Entries DEF Launch, storage, Reading
<1>3. CASE Crash
  BY <1>3 DEF Crash, Reading
<1>4. ASSUME NEW store \in Stores, NEW key \in DOMAIN BlankStores, Hydrate(store, key),
             store = "settings" <=> key = "onboarded", store = "download" <=> key = "downloads"
      PROVE  Reading'
  <2>1. DOMAIN read' = DOMAIN read \ {key} /\ hydrated' = hydrated \cup {store}
    BY <1>4 DEF Hydrate, HydratedAfter, Restrict
  <2>2. up /\ UNCHANGED <<up, stage>>
    BY <1>4 DEF Hydrate
  <2>3. QED
    BY <1>4, <2>1, <2>2 DEF Reading
<1>5. CASE HydrateAuth \/ BootStarts \/ BootEnds \/ InitQueue
  BY <1>5 DEF HydrateAuth, BootStarts, BootEnds, InitQueue, Reading
<1>6. CASE ReadVersion
  BY <1>6 DEF ReadVersion, Reading
<1>7. CASE ClearStores \/ Drop("dropCache", "cache") \/ Drop("dropQueue", "queue")
           \/ Stamp \/ Stamped \/ Reconcile
  BY <1>7, Steps DEF ClearStores, Drop, Stamp, Stamped, Reconcile, Reading
<1>8. CASE Index \/ Welcome \/ SetLanguage \/ Language
           \/ requestLocationPermission \/ handleGetStarted
  <2>1. up /\ UNCHANGED <<up, read, hydrated, stage>>
    BY <1>8 DEF Index, Welcome, SetLanguage, Language,
       requestLocationPermission, handleGetStarted, Pages
  <2>2. QED
    BY <2>1 DEF Reading
<1>9. CASE GoBack \/ NotificationTap
  BY <1>9 DEF GoBack, NotificationTap, storage, process, Reading
<1>10. CASE UNCHANGED launchVars
  BY <1>10 DEF launchVars, storage, process, Reading
<1>11. QED
  BY <1>1, <1>2, <1>3, <1>4, <1>5, <1>6, <1>7, <1>8, <1>9, <1>10, Entries
     DEF LaunchNext, Launching, Hydration, Migration, Onboarding, Stores

\* A mishap is not forgotten.
LEMMA MishapsStay == [LaunchNext]_launchVars => mishaps \subseteq mishaps'
<1> SUFFICES ASSUME [LaunchNext]_launchVars PROVE mishaps \subseteq mishaps'
  OBVIOUS
<1>1. ASSUME NEW store, NEW key, Hydrate(store, key) PROVE mishaps \subseteq mishaps'
  BY <1>1 DEF Hydrate, Mishap, Sound
<1>2. QED
  BY <1>1 DEF LaunchNext, Launching, Hydration, Migration, Onboarding, Flush,
     Launch, HydrateAuth, BootStarts, BootEnds, InitQueue, ReadVersion,
     ClearStores, Drop, Mishap, Sound, Stamp, Stamped, Reconcile,
     Index, Welcome, SetLanguage, Language, requestLocationPermission,
     handleGetStarted, GoBack, NotificationTap, Pages, Crash, rest,
     launchVars

\* Steps other than the storage's own and the end of the process leave the disk
\* alone and ask for writes at the end of the queue: what the stores hold now,
\* and the version in the one step that stamps it.
Onboards == Top \in {"language", "permissions"} \/ "settings" \in hydrated'
Asks ==
    /\ UNCHANGED disk /\ Len(writes) <= Len(writes')
    /\ \A i \in 1..Len(writes) : writes'[i] = writes[i]
    /\ \A i \in Len(writes) + 1..Len(writes') :
         /\ writes'[i].key \in {"downloads", "purchases"} => writes'[i].value = mem'[writes'[i].key]
         /\ writes'[i].key = "onboarded" => writes'[i].value = mem'.onboarded /\ Onboards
         /\ writes'[i].key = "version" => stage = "stamp"

LEMMA OneWrite ==
  ASSUME TypeInv, NEW k \in DOMAIN Value, NEW v \in Value[k], Write(k, v), UNCHANGED disk,
         k \in {"downloads", "purchases"} => v = mem'[k], k = "onboarded" => v = mem'.onboarded /\ Onboards,
         k = "version" => stage = "stamp"
  PROVE  Asks
<1>1. [key |-> k, value |-> v] \in Entry
  BY Entries
<1> DEFINE e == [key |-> k, value |-> v]
<1>2. e \in Entry /\ writes' = Append(writes, e) /\ e.key = k /\ e.value = v
  BY <1>1 DEF Write
<1> HIDE DEF e
<1>3. /\ Len(writes') = Len(writes) + 1 /\ Len(writes) \in Nat
      /\ \A i \in 1..Len(writes) : writes'[i] = writes[i]
      /\ writes'[Len(writes) + 1] = e
  BY <1>2 DEF TypeInv, StorageType
<1>4. \A i \in Len(writes) + 1..Len(writes') : i = Len(writes) + 1
  BY <1>3
<1>5. QED
  BY <1>2, <1>3, <1>4 DEF Asks

LEMMA NoWrite == ASSUME TypeInv, UNCHANGED <<disk, writes>> PROVE Asks
<1>1. Len(writes) \in Nat
  BY DEF TypeInv, StorageType
<1>2. QED
  BY <1>1 DEF Asks

LEMMA AsksFor == ASSUME TypeInv, [LaunchNext]_launchVars PROVE Flush \/ Crash \/ Asks
<1>1. CASE Launch \/ HydrateAuth \/ BootStarts \/ BootEnds \/ InitQueue
           \/ ReadVersion \/ Stamped
  <2>1. UNCHANGED <<disk, writes>>
    BY <1>1 DEF Launch, HydrateAuth, BootStarts, BootEnds, InitQueue,
       ReadVersion, Stamped, storage
  <2>2. QED
    BY <2>1, NoWrite
<1>2. CASE Drop("dropCache", "cache") \/ Drop("dropQueue", "queue")
  BY <1>2, NoWrite DEF Drop
<1>3. CASE Index \/ Welcome \/ Language \/ requestLocationPermission \/ GoBack
           \/ NotificationTap \/ UNCHANGED launchVars
  <2>1. UNCHANGED <<disk, writes>>
    BY <1>3 DEF Index, Welcome, Language, requestLocationPermission, GoBack,
       NotificationTap, launchVars, storage
  <2>2. QED
    BY <2>1, NoWrite
<1>4. ASSUME NEW store, NEW key \in DOMAIN BlankStores, Hydrate(store, key),
             store = "settings" <=> key = "onboarded"
      PROVE  Asks
  <2>1. key \in DOMAIN mem /\ key # "version" /\ key \in DOMAIN Value
    BY <1>4, Entries DEF TypeInv, ProcessType
  <2>2. PICK v \in Value[key] : Write(key, v) /\ mem'[key] = v
    <3>1. read[key] \in Value[key] /\ mem[key] \in Value[key]
      BY <1>4, Entries DEF Hydrate, TypeInv, ProcessType
    <3>2. QED
      BY <1>4, <2>1, <3>1 DEF Hydrate, Merged
  <2>3. key = "onboarded" => Onboards
    BY <1>4 DEF Hydrate, HydratedAfter, Onboards
  <2>4. QED
    BY <1>4, <2>1, <2>2, <2>3, OneWrite, Entries DEF Hydrate
<1>5. CASE ClearStores
  <2>1. /\ [key |-> "downloads", value |-> "none"] \in Entry
        /\ [key |-> "purchases", value |-> "none"] \in Entry
    BY Entries DEF Data
  <2> DEFINE a == [key |-> "downloads", value |-> "none"]
             b == [key |-> "purchases", value |-> "none"]
  <2>2. /\ a \in Entry /\ b \in Entry /\ writes' = writes \o <<a, b>>
        /\ a.key = "downloads" /\ a.value = "none" /\ b.key = "purchases" /\ b.value = "none"
    BY <1>5, <2>1 DEF ClearStores
  <2> HIDE DEF a, b
  <2>3. /\ Len(writes') = Len(writes) + 2 /\ Len(writes) \in Nat
        /\ \A i \in 1..Len(writes) : writes'[i] = writes[i]
        /\ writes'[Len(writes) + 1] = a /\ writes'[Len(writes) + 2] = b
    BY <2>2 DEF TypeInv, StorageType
  <2>4. \A i \in Len(writes) + 1..Len(writes') : writes'[i] = a \/ writes'[i] = b
    BY <2>3
  <2>5. mem'["downloads"] = "none" /\ mem'["purchases"] = "none" /\ disk' = disk
    BY <1>5 DEF ClearStores, TypeInv, ProcessType
  <2>6. QED
    BY <2>2, <2>3, <2>4, <2>5 DEF Asks
<1>6. CASE Stamp
  BY <1>6, OneWrite, NoWrite, Entries DEF Stamp
<1>7. CASE Reconcile
  <2>1. CASE UNCHANGED <<mem, writes>>
    BY <1>7, <2>1, NoWrite DEF Reconcile
  <2>2. CASE mem' = [mem EXCEPT !.downloads = "none"] /\ Write("downloads", "none")
    <3>1. mem'["downloads"] = "none"
      BY <2>2 DEF TypeInv, ProcessType
    <3>2. "none" \in Value["downloads"]
      BY Entries DEF Data
    <3>3. QED
      BY <1>7, <2>2, <3>1, <3>2, OneWrite, Entries DEF Reconcile
  <2>3. QED
    BY <1>7, <2>1, <2>2 DEF Reconcile
<1>8. CASE SetLanguage \/ handleGetStarted
  <2>1. Write("onboarded", mem'.onboarded) /\ disk' = disk /\ mem'.onboarded \in BOOLEAN
    BY <1>8 DEF SetLanguage, handleGetStarted, TypeInv, ProcessType
  <2> Onboards
    BY <1>8 DEF SetLanguage, handleGetStarted, Pages, Onboards
  <2>2. mem'.onboarded \in Value["onboarded"] /\ "onboarded" \in DOMAIN Value
    BY <2>1, Entries
  <2>3. QED
    BY <2>1, <2>2, OneWrite, Entries
<1>9. QED
  BY <1>1, <1>2, <1>3, <1>4, <1>5, <1>6, <1>7, <1>8, Entries
     DEF LaunchNext, Launching, Hydration, Migration, Onboarding

\* The storage performs the first of the writes.
LEMMA Performed ==
  ASSUME TypeInv, Flush
  PROVE  /\ Len(writes) \in Nat \ {0} /\ Len(writes') = Len(writes) - 1
         /\ \A i \in 1..Len(writes') : i + 1 \in 1..Len(writes) /\ writes'[i] = writes[i + 1]
         /\ disk' = [disk EXCEPT ![writes[1].key] = writes[1].value]
         /\ writes[1] \in Entry
         /\ UNCHANGED <<tables, up, mem, read, hydrated, stage, pages, mishaps>>
<1>1. Len(writes) \in Nat \ {0} /\ writes \in Seq(Entry) /\ writes # <<>>
  BY DEF Flush, TypeInv, StorageType
<1>2. Head(writes) = writes[1] /\ writes[1] \in Entry
  BY <1>1
<1>3. /\ Len(Tail(writes)) = Len(writes) - 1
      /\ \A i \in 1..Len(Tail(writes)) : Tail(writes)[i] = writes[i + 1]
  BY <1>1, HeadTailProperties
<1>4. writes' = Tail(writes) /\ disk' = [disk EXCEPT ![writes[1].key] = writes[1].value]
  BY <1>2 DEF Flush
<1>5. /\ Len(writes') = Len(writes) - 1
      /\ \A i \in 1..Len(writes') : i + 1 \in 1..Len(writes) /\ writes'[i] = writes[i + 1]
  BY <1>1, <1>3, <1>4
<1>6. QED
  BY <1>1, <1>2, <1>4, <1>5 DEF Flush, process, route, rest

-----------------------------------------------------------------------------
(***************************************************************************)
(* The onboarding is not forgotten.                                        *)
(***************************************************************************)
\* What the disk holds, what waits and what the store holds, in this order,
\* never takes the onboarding back; a store that is not hydrated yet has read
\* what the disk holds, and no page of the onboarding was shown before.
Remembers ==
    /\ \A i \in 1..Len(writes) : writes[i].key = "onboarded" =>
         /\ disk.onboarded => writes[i].value
         /\ \A j \in i..Len(writes) :
              writes[j].key = "onboarded" => (writes[i].value => writes[j].value)
         /\ "settings" \in hydrated /\ (writes[i].value => mem.onboarded)
    /\ "settings" \in hydrated => (disk.onboarded => mem.onboarded)
    /\ "onboarded" \in DOMAIN read => read["onboarded"] = disk.onboarded
    /\ \A i \in 1..Len(pages) : pages[i] \in {"welcome", "language", "permissions"} => "settings" \in hydrated
\* Unless the settings could not be read.
OnboardInv == "read" \in mishaps \/ Remembers

LEMMA OnboardInit == LaunchInit => OnboardInv
<1> SUFFICES ASSUME LaunchInit PROVE Remembers
  BY DEF OnboardInv
<1>1. Len(writes) = 0 /\ hydrated = {} /\ DOMAIN read = {}
  BY DEF LaunchInit
<1>2. \A i \in 1..Len(pages) : pages[i] = "index"
  BY DEF LaunchInit
<1>3. QED
  BY <1>1, <1>2 DEF Remembers

\* The pages of the onboarding are shown to a hydrated store only.
LEMMA PagesStep ==
  ASSUME TypeInv, Reading, Remembers, [LaunchNext]_launchVars
  PROVE  \A i \in 1..Len(pages') :
           pages'[i] \in {"welcome", "language", "permissions"} => "settings" \in hydrated'
<1> DEFINE Shy == \A i \in 1..Len(pages) : pages[i] \notin {"welcome", "language", "permissions"}
<1>1. CASE Crash
  BY <1>1 DEF Crash
<1>2. ASSUME ~Crash PROVE hydrated \subseteq hydrated'
  <2>1. ASSUME NEW store, NEW key, Hydrate(store, key) PROVE hydrated \subseteq hydrated'
    BY <2>1 DEF Hydrate, HydratedAfter
  <2>2. QED
    BY <1>2, <2>1 DEF LaunchNext, Launching, Hydration, Migration, Onboarding,
       Flush, Launch, HydrateAuth, BootStarts, BootEnds, InitQueue,
       ReadVersion, ClearStores, Drop, Stamp, Stamped, Reconcile,
       Index, Welcome, SetLanguage, Language, requestLocationPermission,
       handleGetStarted, GoBack, NotificationTap, Pages, process, launchVars
<1>3. ASSUME "settings" \notin hydrated, ~Crash
      PROVE  \A i \in 1..Len(pages') : pages'[i] \notin {"welcome", "language", "permissions"}
  <2>1. Shy /\ Len(pages) \in Nat \ {0} /\ pages \in Seq(Names)
    BY <1>3 DEF Remembers, TypeInv, RouteType, Bounds
  <2>2. Top \notin {"welcome", "language", "permissions"}
    BY <2>1 DEF Top, Last
  <2>3. CASE GoBack
    <3>1. /\ Len(Front(pages)) = Len(pages) - 1
          /\ \A i \in 1..Len(pages) - 1 : Front(pages)[i] = pages[i]
      BY Stack, <2>1 DEF TypeInv
    <3>2. QED
      BY <2>1, <2>3, <3>1 DEF GoBack
  <2>4. CASE NotificationTap
    <3>1. pages' = Append(pages, "home")
      BY <2>4 DEF NotificationTap, Push
    <3>2. QED
      BY <2>1, <3>1
  <2>5. pages' = pages \/ GoBack \/ NotificationTap
    <3>1. ASSUME NEW store, NEW key, Hydrate(store, key) PROVE pages' = pages
      BY <3>1 DEF Hydrate, route
    <3>2. QED
      BY <1>3, <2>2, <3>1 DEF LaunchNext, Launching, Hydration, Migration,
         Onboarding, Flush, Launch, HydrateAuth, BootStarts, BootEnds,
         InitQueue, ReadVersion, ClearStores, Drop, Stamp, Stamped,
         Reconcile, Index, Ready, Welcome, SetLanguage, Language,
         requestLocationPermission, handleGetStarted, Pages, route, launchVars
  <2>6. QED
    BY <2>1, <2>3, <2>4, <2>5
<1>4. QED
  BY <1>1, <1>2, <1>3

\* What the other steps do to the onboarding: nothing, or they finish it.
LEMMA OnboardStays ==
  ASSUME TypeInv, [LaunchNext]_launchVars, ~Flush, ~Crash, ~Launch,
         ~Hydrate("settings", "onboarded")
  PROVE  /\ mem.onboarded => mem'.onboarded
         /\ "settings" \in hydrated' <=> "settings" \in hydrated
         /\ "onboarded" \in DOMAIN read' =>
              "onboarded" \in DOMAIN read /\ read'["onboarded"] = read["onboarded"]
<1>1. ASSUME NEW store \in Stores, NEW key \in {"downloads", "purchases"}, Hydrate(store, key),
             store # "settings"
      PROVE  /\ mem'.onboarded = mem.onboarded
             /\ "settings" \in hydrated' <=> "settings" \in hydrated
             /\ "onboarded" \in DOMAIN read' =>
                  "onboarded" \in DOMAIN read /\ read'["onboarded"] = read["onboarded"]
  BY <1>1 DEF Hydrate, HydratedAfter, Merged, Restrict, TypeInv, ProcessType
<1>2. CASE Flush \/ HydrateAuth \/ BootStarts \/ BootEnds \/ InitQueue
           \/ ReadVersion \/ Stamp \/ Stamped
  BY <1>2 DEF HydrateAuth, BootStarts, BootEnds, InitQueue, ReadVersion,
     Stamp, Stamped
<1>3. CASE ClearStores \/ Drop("dropCache", "cache") \/ Drop("dropQueue", "queue")
           \/ Reconcile
  BY <1>3 DEF ClearStores, Drop, Reconcile, TypeInv, ProcessType
<1>4. CASE Index \/ Welcome \/ SetLanguage \/ Language
           \/ requestLocationPermission
  BY <1>4 DEF Index, Welcome, SetLanguage, Language,
     requestLocationPermission, Pages
<1>5. CASE handleGetStarted
  BY <1>5 DEF handleGetStarted, Pages, TypeInv, ProcessType
<1>6. CASE GoBack \/ NotificationTap \/ UNCHANGED launchVars
  BY <1>6 DEF GoBack, NotificationTap, launchVars, process
<1>7. QED
  BY <1>1, <1>2, <1>3, <1>4, <1>5, <1>6 DEF LaunchNext, Launching, Hydration, Migration,
     Onboarding, Stores

\* Who finished the onboarding never has to again, and the store that is shown
\* knows of it before the disk does.
LEMMA OnboardStep == ASSUME TypeInv, Reading, OnboardInv, [LaunchNext]_launchVars PROVE OnboardInv'
<1> SUFFICES ASSUME "read" \notin mishaps' PROVE Remembers'
  BY DEF OnboardInv
<1>2. Remembers
  BY MishapsStay DEF OnboardInv
<1>3. \A i \in 1..Len(pages') :
        pages'[i] \in {"welcome", "language", "permissions"} => "settings" \in hydrated'
  BY <1>2, PagesStep
<1>4. CASE Flush
  <2>1. /\ Len(writes) \in Nat \ {0} /\ Len(writes') = Len(writes) - 1
        /\ \A i \in 1..Len(writes') : i + 1 \in 1..Len(writes) /\ writes'[i] = writes[i + 1]
        /\ disk' = [disk EXCEPT ![writes[1].key] = writes[1].value]
        /\ writes[1] \in Entry /\ UNCHANGED <<mem, read, hydrated>>
    BY <1>4, Performed
  <2>2. 1 \in 1..Len(writes)
    BY <2>1
  <2>3. CASE writes[1].key = "onboarded"
    <3>1. disk'.onboarded = writes[1].value
      BY <2>1, <2>3 DEF TypeInv, StorageType
    <3>2. "settings" \in hydrated /\ "onboarded" \notin DOMAIN read /\ (writes[1].value => mem.onboarded)
      BY <1>2, <2>2, <2>3 DEF Remembers, Reading
    <3>3. ASSUME NEW i \in 1..Len(writes'), writes'[i].key = "onboarded"
          PROVE  /\ disk'.onboarded => writes'[i].value
                 /\ \A j \in i..Len(writes') :
                      writes'[j].key = "onboarded" => (writes'[i].value => writes'[j].value)
                 /\ writes'[i].value => mem.onboarded
      <4>1. i + 1 \in 1..Len(writes) /\ writes[i + 1].key = "onboarded" /\ writes'[i] = writes[i + 1]
        BY <2>1, <3>3
      <4>2. writes[1].value => writes'[i].value
        BY <1>2, <2>2, <2>3, <4>1 DEF Remembers
      <4>3. ASSUME NEW j \in i..Len(writes'), writes'[j].key = "onboarded"
            PROVE  writes'[i].value => writes'[j].value
        <5>1. j + 1 \in i + 1..Len(writes) /\ writes'[j] = writes[j + 1]
          BY <2>1
        <5>2. QED
          BY <1>2, <4>1, <4>3, <5>1 DEF Remembers
      <4>4. QED
        BY <1>2, <3>1, <4>1, <4>2, <4>3 DEF Remembers
    <3>4. QED
      BY <1>3, <2>1, <3>1, <3>2, <3>3 DEF Remembers
  <2>4. CASE writes[1].key # "onboarded"
    <3>1. disk'.onboarded = disk.onboarded
      BY <2>1, <2>4 DEF TypeInv, StorageType
    <3>2. ASSUME NEW i \in 1..Len(writes'), writes'[i].key = "onboarded"
          PROVE  /\ disk'.onboarded => writes'[i].value
                 /\ \A j \in i..Len(writes') :
                      writes'[j].key = "onboarded" => (writes'[i].value => writes'[j].value)
                 /\ "settings" \in hydrated /\ (writes'[i].value => mem.onboarded)
      <4>1. i + 1 \in 1..Len(writes) /\ writes[i + 1].key = "onboarded" /\ writes'[i] = writes[i + 1]
        BY <2>1, <3>2
      <4>3. ASSUME NEW j \in i..Len(writes'), writes'[j].key = "onboarded"
            PROVE  writes'[i].value => writes'[j].value
        <5>1. j + 1 \in i + 1..Len(writes) /\ writes'[j] = writes[j + 1]
          BY <2>1
        <5>2. QED
          BY <1>2, <4>1, <4>3, <5>1 DEF Remembers
      <4>4. QED
        BY <1>2, <3>1, <4>1, <4>3 DEF Remembers
    <3>3. QED
      BY <1>2, <1>3, <2>1, <3>1, <3>2 DEF Remembers
  <2>5. QED
    BY <2>3, <2>4
<1>5. CASE Crash
  <2>1. Len(writes') = 0 /\ DOMAIN read' = {} /\ hydrated' = {}
    BY <1>5 DEF Crash
  <2>2. QED
    BY <1>3, <2>1 DEF Remembers
<1>6. CASE Launch
  <2>1. Len(writes') = 0 /\ hydrated' = {}
    BY <1>6 DEF Launch, storage, Reading
  <2>2. "onboarded" \in DOMAIN read' => read'["onboarded"] = disk'.onboarded
    BY <1>6 DEF Launch, storage
  <2>3. QED
    BY <1>3, <2>1, <2>2 DEF Remembers
\* What the steps that ask for a write share.
<1>7. ASSUME Asks,
             "settings" \in hydrated => "settings" \in hydrated' /\ (mem.onboarded => mem'.onboarded),
             "settings" \in hydrated' => (disk.onboarded => mem'.onboarded)
      PROVE  \A i \in 1..Len(writes') : writes'[i].key = "onboarded" =>
               /\ disk'.onboarded => writes'[i].value
               /\ \A j \in i..Len(writes') :
                    writes'[j].key = "onboarded" => (writes'[i].value => writes'[j].value)
               /\ "settings" \in hydrated' /\ (writes'[i].value => mem'.onboarded)
  <2>1. Len(writes) \in Nat /\ Len(writes') \in Nat /\ Len(writes) <= Len(writes') /\ disk' = disk
    BY <1>7, TypeStep DEF Asks, TypeInv, StorageType
  <2>2. Onboards => "settings" \in hydrated'
    <3>1. Len(pages) \in 1..Len(pages)
      BY DEF TypeInv, RouteType, Bounds
    <3>2. QED
      BY <1>2, <1>7, <3>1 DEF Onboards, Remembers, Top, Last
  <2>3. ASSUME NEW i \in 1..Len(writes'), writes'[i].key = "onboarded", ~(i \in 1..Len(writes))
        PROVE  writes'[i].value = mem'.onboarded /\ "settings" \in hydrated'
    <3>1. i \in Len(writes) + 1..Len(writes')
      BY <2>1, <2>3
    <3>2. QED
      BY <1>7, <2>2, <2>3, <3>1 DEF Asks
  <2>4. ASSUME NEW i \in 1..Len(writes), writes'[i].key = "onboarded"
        PROVE  /\ disk.onboarded => writes'[i].value
               /\ \A j \in i..Len(writes) :
                    writes'[j].key = "onboarded" => (writes'[i].value => writes'[j].value)
               /\ "settings" \in hydrated' /\ (writes'[i].value => mem'.onboarded)
    <3>1. writes'[i] = writes[i] /\ \A j \in i..Len(writes) : writes'[j] = writes[j]
      BY <1>7, <2>1 DEF Asks
    <3>2. "settings" \in hydrated /\ (writes[i].value => mem.onboarded) /\ (disk.onboarded => writes[i].value)
      BY <1>2, <2>4, <3>1 DEF Remembers
    <3>3. \A j \in i..Len(writes) : writes[j].key = "onboarded" => (writes[i].value => writes[j].value)
      BY <1>2, <2>4, <3>1 DEF Remembers
    <3>4. QED
      BY <1>7, <3>1, <3>2, <3>3
  <2>5. ASSUME NEW i \in 1..Len(writes'), writes'[i].key = "onboarded",
               NEW j \in i..Len(writes'), writes'[j].key = "onboarded"
        PROVE  writes'[i].value => writes'[j].value
    <3>1. CASE i \in 1..Len(writes) /\ j \in 1..Len(writes)
      BY <2>1, <2>4, <2>5, <3>1
    <3>2. CASE ~(j \in 1..Len(writes))
      <4>1. j \in 1..Len(writes')
        BY <2>1
      <4>2. writes'[j].value = mem'.onboarded
        BY <2>3, <2>5, <3>2, <4>1
      <4>3. writes'[i].value => mem'.onboarded
        BY <2>3, <2>4, <2>5
      <4>4. QED
        BY <4>2, <4>3
    <3>3. QED
      BY <2>1, <3>1, <3>2
  <2>6. QED
    BY <1>7, <2>1, <2>3, <2>4, <2>5
<1>8. CASE Hydrate("settings", "onboarded")
  <2>1. /\ "onboarded" \in DOMAIN read /\ "onboarded" \notin DOMAIN read'
        /\ "settings" \notin hydrated /\ "settings" \in hydrated'
    BY <1>8 DEF Hydrate, HydratedAfter, Restrict, Reading
  <2>2. Asks
    BY <2>1, AsksFor DEF Flush, Crash, process
  <2>3. mem'.onboarded = disk.onboarded
    <3>1. mem' = [mem EXCEPT !["onboarded"] = read["onboarded"]]
      BY <1>8 DEF Hydrate, Merged, Mishap
    <3>2. mem'.onboarded = read["onboarded"]
      BY <3>1 DEF TypeInv, ProcessType
    <3>3. QED
      BY <1>2, <2>1, <3>2 DEF Remembers
  <2>4. QED
    BY <1>3, <1>7, <2>1, <2>2, <2>3 DEF Remembers, Asks
<1>9. CASE ~Flush /\ ~Crash /\ ~Launch /\ ~Hydrate("settings", "onboarded")
  <2>1. Asks
    BY <1>9, AsksFor
  <2>2. /\ mem.onboarded => mem'.onboarded
        /\ "settings" \in hydrated' <=> "settings" \in hydrated
        /\ "onboarded" \in DOMAIN read' =>
             "onboarded" \in DOMAIN read /\ read'["onboarded"] = read["onboarded"]
    BY <1>9, OnboardStays
  <2>3. QED
    BY <1>2, <1>3, <1>7, <2>1, <2>2 DEF Remembers, Asks
<1>10. QED
  BY <1>4, <1>5, <1>6, <1>8, <1>9

-----------------------------------------------------------------------------
(***************************************************************************)
(* A stamped version is a migrated one.                                    *)
(***************************************************************************)
\* Once the first n of the writes w are done, what a disk that holds d has under the
\* key k is not of the old schema.
Forgotten(k, d, w, n) ==
    \E j \in 0..n :
      /\ IF j = 0 THEN d # "old" ELSE w[j].key = k /\ w[j].value # "old"
      /\ \A i \in j + 1..n : w[i].key = k => w[i].value # "old"

\* From the i-th write on, no write brings the old value of k back.
NoneOld(k, i) ==
    \A j \in i..Len(writes) : writes[j].key = k => writes[j].value # "old"

TablesGone == tables.cache # "old" /\ tables.queue # "old"
\* The store of k has been read, and told to forget what it had.
Told(k) == up /\ mem[k] # "old" /\ k \notin DOMAIN read

Clearing == {"dropCache", "dropQueue", "stamp", "stamping"}

\* The tables go before the stamp.
TablesMigrate ==
    /\ stage \in {"dropQueue", "stamp", "stamping"} => tables.cache # "old"
    /\ stage \in {"stamp", "stamping"} => tables.queue # "old"
    /\ \A i \in 1..Len(writes) : writes[i].key = "version" => TablesGone
    /\ disk.version = "current" => TablesGone

\* What is kept under k goes before the stamp.
Migrates(k) ==
    /\ stage \in Clearing => Told(k) /\ Forgotten(k, disk[k], writes, Len(writes))
    /\ \A i \in 1..Len(writes) : writes[i].key = "version" =>
         Told(k) /\ Forgotten(k, disk[k], writes, i) /\ NoneOld(k, i)
    /\ disk.version = "current" =>
         /\ mem[k] # "old" /\ disk[k] # "old" /\ NoneOld(k, 1)
         /\ k \in DOMAIN read => read[k] # "old"

\* Unless a database would not let its tables go, or the purchases were read late.
StampInv ==
    /\ "drop" \in mishaps \/ TablesMigrate
    /\ Migrates("downloads")
    /\ late \/ Migrates("purchases")

Kinds == {"downloads", "purchases"}

\* The storage performs the first write.
LEMMA ForgottenFlushed ==
  ASSUME TypeInv, Flush, NEW k \in Kinds, NEW n \in 1..Len(writes),
         Forgotten(k, disk[k], writes, n)
  PROVE  Forgotten(k, disk'[k], writes', n - 1)
<1>1. /\ Len(writes) \in Nat \ {0} /\ Len(writes') = Len(writes) - 1
      /\ \A i \in 1..Len(writes') : i + 1 \in 1..Len(writes) /\ writes'[i] = writes[i + 1]
      /\ disk' = [disk EXCEPT ![writes[1].key] = writes[1].value]
      /\ writes[1] \in Entry
  BY Performed
<1>2. disk'[k] = IF writes[1].key = k THEN writes[1].value ELSE disk[k]
  BY <1>1 DEF TypeInv, StorageType, Kinds
<1>3. PICK j \in 0..n :
        /\ IF j = 0 THEN disk[k] # "old"
                    ELSE writes[j].key = k /\ writes[j].value # "old"
        /\ \A i \in j + 1..n : writes[i].key = k => writes[i].value # "old"
  BY DEF Forgotten
<1> DEFINE m == IF j = 0 THEN 0 ELSE j - 1
<1>4. m \in 0..n - 1
  BY <1>1
<1>5. IF m = 0 THEN disk'[k] # "old"
               ELSE writes'[m].key = k /\ writes'[m].value # "old"
  <2>1. CASE j = 0
    <3>1. 1 \in j + 1..n
      BY <1>1, <2>1
    <3>2. QED
      BY <1>2, <1>3, <2>1, <3>1
  <2>2. CASE j = 1
    BY <1>2, <1>3, <2>2
  <2>3. CASE j > 1
    <3>1. m \in 1..Len(writes') /\ m + 1 = j /\ m # 0
      <4>1. m = j - 1 /\ j \in 2..n
        BY <2>3
      <4>2. n <= Len(writes) /\ Len(writes') = Len(writes) - 1
        BY <1>1
      <4>3. QED
        BY <1>1, <4>1, <4>2
    <3>2. writes'[m] = writes[j]
      BY <1>1, <3>1
    <3>3. QED
      BY <1>3, <2>3, <3>1, <3>2
  <2>4. QED
    BY <2>1, <2>2, <2>3
<1>6. ASSUME NEW i \in m + 1..n - 1, writes'[i].key = k PROVE writes'[i].value # "old"
  <2>1. i \in 1..Len(writes') /\ i + 1 \in j + 1..n
    BY <1>1
  <2>2. QED
    BY <1>1, <1>3, <1>6, <2>1
<1>7. QED
  BY <1>4, <1>5, <1>6 DEF Forgotten

\* More writes behind those that count.
LEMMA ForgottenKept ==
  ASSUME NEW k, NEW d, NEW w, NEW x, NEW n \in Nat, NEW m \in Nat, n <= m, Forgotten(k, d, w, n),
         \A i \in 1..n : x[i] = w[i],
         \A i \in n + 1..m : x[i].key = k => x[i].value # "old"
  PROVE  Forgotten(k, d, x, m)
<1>1. PICK j \in 0..n :
        /\ IF j = 0 THEN d # "old" ELSE w[j].key = k /\ w[j].value # "old"
        /\ \A i \in j + 1..n : w[i].key = k => w[i].value # "old"
  BY DEF Forgotten
<1>2. j \in 0..m /\ (j # 0 => j \in 1..n)
  OBVIOUS
<1>3. IF j = 0 THEN d # "old" ELSE x[j].key = k /\ x[j].value # "old"
  BY <1>1, <1>2
<1>4. ASSUME NEW i \in j + 1..m, x[i].key = k PROVE x[i].value # "old"
  <2>1. CASE i <= n
    <3>1. i \in 1..n /\ i \in j + 1..n
      BY <2>1
    <3>2. QED
      BY <1>1, <1>4, <3>1
  <2>2. CASE i > n
    BY <1>4, <2>2
  <2>3. QED
    BY <2>1, <2>2
<1>5. QED
  BY <1>2, <1>3, <1>4 DEF Forgotten

LEMMA StampInit == LaunchInit => StampInv
<1> SUFFICES ASSUME LaunchInit PROVE StampInv
  OBVIOUS
<1>1. Len(writes) = 0 /\ DOMAIN read = {} /\ stage = "waiting"
        /\ \A k \in Kinds : mem[k] = "none"
  BY DEF LaunchInit, BlankStores, Kinds
<1>2. disk.version = "current" => TablesGone /\ \A k \in Kinds : disk[k] # "old"
  BY DEF LaunchInit, Install, TablesGone, Kinds
<1>3. TablesMigrate
  BY <1>1, <1>2 DEF TablesMigrate
<1>4. ASSUME NEW k \in Kinds PROVE Migrates(k)
  BY <1>1, <1>2 DEF Migrates, NoneOld, Clearing
<1>5. QED
  BY <1>3, <1>4 DEF StampInv, Kinds

\* What the steps other than the storage's and the end of the process do to the
\* tables, to what is kept under k in memory and to what was read of it.
LEMMA TablesStay ==
  ASSUME TypeInv, [LaunchNext]_launchVars, ~Flush, ~Crash
  PROVE  /\ tables.cache # "old" => tables'.cache # "old"
         /\ tables.queue # "old" => tables'.queue # "old"
<1> DEFINE Stays == /\ tables.cache # "old" => tables'.cache # "old"
                    /\ tables.queue # "old" => tables'.queue # "old"
<1> SUFFICES Stays
  OBVIOUS
<1>1. CASE UNCHANGED tables
  BY <1>1
<1>2. CASE InitQueue \/ Reconcile \/ Drop("dropCache", "cache") \/ Drop("dropQueue", "queue")
  BY <1>2 DEF InitQueue, Reconcile, Created, Drop, TypeInv, StorageType
<1>3. ASSUME NEW store, NEW key, Hydrate(store, key) PROVE UNCHANGED tables
  BY <1>3 DEF Hydrate
<1>4. QED
  BY <1>1, <1>2, <1>3 DEF LaunchNext, Launching, Hydration, Migration, Onboarding, Launch,
     HydrateAuth, BootStarts, BootEnds, ReadVersion, ClearStores, Stamp, Stamped,
     Index, Welcome, SetLanguage, Language, requestLocationPermission,
     handleGetStarted, GoBack, NotificationTap, storage, launchVars

LEMMA DataStays ==
  ASSUME TypeInv, [LaunchNext]_launchVars, ~Flush, ~Crash, NEW k \in Kinds
  PROVE  /\ up => up' /\ DOMAIN read' \subseteq DOMAIN read
         /\ \/ mem'[k] \in {mem[k], "none"}
            \/ k \in DOMAIN read /\ mem'[k] = read[k]
         /\ k \in DOMAIN read' =>
              \/ k \in DOMAIN read /\ read'[k] = read[k]
              \/ read'[k] = disk[k]
<1> DEFINE Stays ==
      /\ up => up' /\ DOMAIN read' \subseteq DOMAIN read
      /\ \/ mem'[k] \in {mem[k], "none"}
         \/ k \in DOMAIN read /\ mem'[k] = read[k]
      /\ k \in DOMAIN read' =>
           \/ k \in DOMAIN read /\ read'[k] = read[k]
           \/ read'[k] = disk[k]
<1> SUFFICES Stays
  OBVIOUS
<1> USE DEF TypeInv, StorageType, ProcessType, Kinds
<1>1. CASE Launch
  BY <1>1 DEF Launch, storage
<1>2. ASSUME NEW store, NEW key \in DOMAIN BlankStores, Hydrate(store, key) PROVE Stays
  <2>1. /\ UNCHANGED up /\ key \in DOMAIN read /\ mem' \in {mem, [mem EXCEPT ![key] = read[key]]}
        /\ read' = [q \in DOMAIN read \ {key} |-> read[q]]
    BY <1>2 DEF Hydrate, Merged, Restrict
  <2>2. mem'[k] = mem[k] \/ (key = k /\ mem'[k] = read[k])
    BY <2>1
  <2>3. QED
    BY <2>1, <2>2
<1>3. CASE HydrateAuth \/ BootStarts \/ BootEnds \/ ReadVersion \/ Stamp
           \/ Stamped \/ InitQueue
  BY <1>3 DEF HydrateAuth, BootStarts, BootEnds, ReadVersion, Stamp,
     Stamped, InitQueue, storage
<1>5. CASE ClearStores
  BY <1>5 DEF ClearStores
<1>6. CASE Drop("dropCache", "cache") \/ Drop("dropQueue", "queue")
  BY <1>6 DEF Drop
<1>7. CASE Reconcile
  <2>1. mem'[k] \in {mem[k], "none"}
    BY <1>7 DEF Reconcile
  <2>2. UNCHANGED <<read, up>>
    BY <1>7 DEF Reconcile
  <2>3. QED
    BY <2>1, <2>2
<1>8. CASE Index \/ Welcome \/ SetLanguage \/ Language
           \/ requestLocationPermission
  BY <1>8 DEF Index, Welcome, SetLanguage, Language,
     requestLocationPermission, Pages, storage
<1>9. CASE handleGetStarted
  BY <1>9 DEF handleGetStarted, Pages
<1>10. CASE GoBack \/ NotificationTap \/ UNCHANGED launchVars
  BY <1>10 DEF GoBack, NotificationTap, launchVars, process, storage
<1>11. QED
  BY <1>1, <1>2, <1>3, <1>5, <1>6, <1>7, <1>8, <1>9, <1>10, Entries
     DEF LaunchNext, Launching, Hydration, Migration, Onboarding

\* How the migration proceeds.
LEMMA StageMoves ==
  ASSUME TypeInv, [LaunchNext]_launchVars, ~Flush, ~Crash
  PROVE  \/ stage' = stage \/ stage' \in {"waiting", "clear", "reconcile", "done", "failed"}
         \/ ClearStores /\ stage' = "dropCache"
         \/ stage = "dropCache" /\ stage' = "dropQueue"
              /\ ("drop" \in mishaps' \/ tables'.cache = "none")
         \/ stage = "dropQueue" /\ stage' = "stamp"
              /\ ("drop" \in mishaps' \/ tables'.queue = "none")
         \/ stage = "stamp" /\ stage' = "stamping"
<1>1. ASSUME NEW store, NEW key, Hydrate(store, key) PROVE stage' = stage
  BY <1>1 DEF Hydrate
<1>2. CASE Launch \/ HydrateAuth \/ BootStarts \/ BootEnds \/ InitQueue
           \/ Onboarding \/ UNCHANGED launchVars
  BY <1>2 DEF Launch, HydrateAuth, BootStarts, BootEnds, InitQueue,
     Onboarding, Index, Welcome, SetLanguage, Language,
     requestLocationPermission, handleGetStarted, Pages, GoBack,
     NotificationTap, process, launchVars
<1>3. CASE ReadVersion \/ Stamped \/ Reconcile \/ Stamp \/ ClearStores
  BY <1>3, Steps DEF ReadVersion, Stamped, Reconcile, Stamp, ClearStores
<1>4. CASE Drop("dropCache", "cache")
  BY <1>4, Steps DEF Drop, Mishap, TypeInv, StorageType
<1>5. CASE Drop("dropQueue", "queue")
  BY <1>5, Steps DEF Drop, Mishap, TypeInv, StorageType
<1>6. QED
  BY <1>1, <1>2, <1>3, <1>4, <1>5 DEF LaunchNext, Launching, Hydration, Migration

\* What a store is told to forget goes at the end of the queue.
LEMMA ClearedForgotten ==
  ASSUME TypeInv, Reading, ClearStores, NEW k \in Kinds, k = "downloads" \/ ~late'
  PROVE  Told(k)' /\ Forgotten(k, disk'[k], writes', Len(writes'))
<1>1. /\ [key |-> "downloads", value |-> "none"] \in Entry
      /\ [key |-> "purchases", value |-> "none"] \in Entry
  BY Entries DEF Data
<1> DEFINE a == [key |-> "downloads", value |-> "none"]
           b == [key |-> "purchases", value |-> "none"]
           n == Len(writes) + IF k = "downloads" THEN 1 ELSE 2
<1>2. /\ a \in Entry /\ b \in Entry /\ writes' = writes \o <<a, b>>
      /\ a.key = "downloads" /\ a.value = "none" /\ b.key = "purchases" /\ b.value = "none"
  BY <1>1 DEF ClearStores
<1> HIDE DEF a, b
<1>3. /\ Len(writes') = Len(writes) + 2 /\ Len(writes) \in Nat
      /\ writes'[Len(writes) + 1] = a /\ writes'[Len(writes) + 2] = b
  BY <1>2 DEF TypeInv, StorageType
<1>4. n \in 0..Len(writes') /\ n # 0 /\ \A i \in n + 1..Len(writes') : writes'[i] = b /\ k = "downloads"
  BY <1>3 DEF Kinds
<1>5. writes'[n].key = k /\ writes'[n].value = "none"
  BY <1>2, <1>3 DEF Kinds
<1>6. Forgotten(k, disk'[k], writes', Len(writes'))
  BY <1>2, <1>4, <1>5 DEF Forgotten
<1>7. k \notin DOMAIN read' /\ up'
  BY DEF ClearStores, Reading, Kinds
<1>8. mem'[k] = "none"
  BY DEF ClearStores, TypeInv, ProcessType, Kinds
<1>9. QED
  BY <1>6, <1>7, <1>8 DEF Told

\* The tables go before the stamp.
LEMMA TablesAsk ==
  ASSUME TypeInv, TablesMigrate, [LaunchNext]_launchVars, "drop" \notin mishaps', ~Flush, ~Crash
  PROVE  TablesMigrate'
<1>1. Asks
  BY AsksFor
<1>2. Len(writes) \in Nat /\ Len(writes') \in Nat /\ Len(writes) <= Len(writes') /\ disk' = disk
  BY <1>1, TypeStep DEF Asks, TypeInv, StorageType
<1>3. TablesGone => TablesGone'
  BY TablesStay DEF TablesGone
<1>4. stage' \in {"dropQueue", "stamp", "stamping"} => tables'.cache # "old"
  BY StageMoves, TablesStay DEF TablesMigrate
<1>5. stage' \in {"stamp", "stamping"} => tables'.queue # "old"
  BY StageMoves, TablesStay DEF TablesMigrate
<1>6. ASSUME NEW i \in 1..Len(writes'), writes'[i].key = "version" PROVE TablesGone'
  <2>1. CASE i \in 1..Len(writes)
    BY <1>1, <1>3, <1>6, <2>1 DEF Asks, TablesMigrate
  <2>2. CASE i \notin 1..Len(writes)
    <3>1. i \in Len(writes) + 1..Len(writes')
      BY <1>2, <2>2
    <3>2. stage = "stamp"
      BY <1>1, <1>6, <3>1 DEF Asks
    <3>3. QED
      BY <1>3, <3>2 DEF TablesMigrate, TablesGone
  <2>3. QED
    BY <2>1, <2>2
<1>7. QED
  BY <1>2, <1>3, <1>4, <1>5, <1>6 DEF TablesMigrate

LEMMA TablesFlushed == ASSUME TypeInv, TablesMigrate, Flush PROVE TablesMigrate'
<1>1. /\ Len(writes) \in Nat \ {0} /\ Len(writes') = Len(writes) - 1
      /\ \A i \in 1..Len(writes') : i + 1 \in 1..Len(writes) /\ writes'[i] = writes[i + 1]
      /\ disk' = [disk EXCEPT ![writes[1].key] = writes[1].value]
      /\ writes[1] \in Entry /\ 1 \in 1..Len(writes)
      /\ UNCHANGED <<tables, stage>>
  BY Performed
<1>2. disk'.version = disk.version \/ writes[1].key = "version"
  BY <1>1 DEF TypeInv, StorageType
<1>3. QED
  BY <1>1, <1>2 DEF TablesMigrate, TablesGone

\* A step that asks for writes.
LEMMA StampAsks ==
  ASSUME TypeInv, Reading, NEW k \in Kinds, Migrates(k), k = "downloads" \/ ~late',
         [LaunchNext]_launchVars, ~Flush, ~Crash
  PROVE  Migrates(k)'
<1>1. Asks
  BY AsksFor
<1>2. Len(writes) \in Nat /\ Len(writes') \in Nat /\ Len(writes) <= Len(writes') /\ disk' = disk
  BY <1>1, TypeStep DEF Asks, TypeInv, StorageType
<1>4. Told(k) => Told(k)'
  BY DataStays DEF Told
<1>5. disk.version = "current" => mem'[k] # "old"
  BY DataStays DEF Migrates
<1>6. ASSUME NEW i \in 1..Len(writes'), mem'[k] # "old",
             i \in 1..Len(writes) => NoneOld(k, i)
      PROVE  NoneOld(k, i)'
  <2>1. SUFFICES ASSUME NEW j \in i..Len(writes'), writes'[j].key = k
                 PROVE  writes'[j].value # "old"
    BY DEF NoneOld
  <2>2. CASE j \in 1..Len(writes)
    <3>1. writes'[j] = writes[j] /\ i \in 1..Len(writes) /\ j \in i..Len(writes)
      BY <1>1, <1>2, <2>2 DEF Asks
    <3>2. QED
      BY <1>6, <2>1, <3>1 DEF NoneOld
  <2>3. CASE j \notin 1..Len(writes)
    <3>1. j \in Len(writes) + 1..Len(writes')
      BY <1>2, <2>3
    <3>2. writes'[j].value = mem'[k]
      BY <1>1, <2>1, <3>1 DEF Asks, Kinds
    <3>3. QED
      BY <1>6, <3>2
  <2>4. QED
    BY <2>2, <2>3
<1>7. ASSUME NEW n \in 0..Len(writes), NEW m \in 0..Len(writes'), m = n \/ (n = Len(writes) /\ n <= m),
             Forgotten(k, disk[k], writes, n), m = n \/ mem'[k] # "old"
      PROVE  Forgotten(k, disk'[k], writes', m)
  <2>1. n \in Nat /\ m \in Nat /\ n <= m /\ \A i \in 1..n : i \in 1..Len(writes)
    BY <1>2, <1>7
  <2>2. \A i \in 1..n : writes'[i] = writes[i]
    BY <1>1, <2>1 DEF Asks
  <2>3. ASSUME NEW i \in n + 1..m, writes'[i].key = k PROVE writes'[i].value # "old"
    <3>1. i \in Len(writes) + 1..Len(writes') /\ mem'[k] # "old"
      BY <1>2, <1>7
    <3>2. writes'[i].value = mem'[k]
      BY <1>1, <2>3, <3>1 DEF Asks, Kinds
    <3>3. QED
      BY <3>1, <3>2
  <2>4. Forgotten(k, disk[k], writes', m)
    BY <1>7, <2>1, <2>2, <2>3, ForgottenKept
  <2>5. QED
    BY <1>2, <2>4
<1>10. ASSUME stage' \in Clearing
       PROVE  Told(k)' /\ Forgotten(k, disk'[k], writes', Len(writes'))
  <2>1. CASE ClearStores
    BY <2>1, ClearedForgotten
  <2>2. CASE stage \in Clearing
    <3>1. Told(k) /\ Forgotten(k, disk[k], writes, Len(writes))
      BY <2>2 DEF Migrates
    <3>2. Len(writes) \in 0..Len(writes) /\ Len(writes') \in 0..Len(writes')
      BY <1>2
    <3>3. Told(k)' /\ mem'[k] # "old"
      BY <1>4, <3>1 DEF Told
    <3>4. QED
      BY <1>2, <1>7, <3>1, <3>2, <3>3
  <2>3. QED
    BY <1>10, <2>1, <2>2, StageMoves DEF Clearing
<1>11. ASSUME NEW i \in 1..Len(writes'), writes'[i].key = "version"
       PROVE  Told(k)' /\ Forgotten(k, disk'[k], writes', i) /\ NoneOld(k, i)'
  <2>1. CASE i \in 1..Len(writes)
    <3>1. writes[i].key = "version"
      BY <1>1, <1>11, <2>1 DEF Asks
    <3>2. Told(k) /\ Forgotten(k, disk[k], writes, i) /\ NoneOld(k, i)
      BY <2>1, <3>1 DEF Migrates
    <3>3. i \in 0..Len(writes) /\ i \in 0..Len(writes')
      BY <1>2, <2>1
    <3>4. Told(k)' /\ mem'[k] # "old"
      BY <1>4, <3>2 DEF Told
    <3>5. QED
      BY <1>6, <1>7, <3>2, <3>3, <3>4
  <2>2. CASE i \notin 1..Len(writes)
    <3>1. i \in Len(writes) + 1..Len(writes')
      BY <1>2, <2>2
    <3>2. stage = "stamp"
      BY <1>1, <1>11, <3>1 DEF Asks
    <3>3. Told(k) /\ Forgotten(k, disk[k], writes, Len(writes))
      BY <3>2 DEF Migrates, Clearing
    <3>4. Len(writes) \in 0..Len(writes) /\ i \in 0..Len(writes') /\ Len(writes) <= i
      BY <1>2, <3>1
    <3>5. Told(k)' /\ mem'[k] # "old"
      BY <1>4, <3>3 DEF Told
    <3>6. Forgotten(k, disk'[k], writes', i)
      BY <1>7, <3>3, <3>4, <3>5
    <3>7. QED
      BY <1>6, <2>2, <3>5, <3>6
  <2>3. QED
    BY <2>1, <2>2
<1>12. ASSUME disk'.version = "current"
       PROVE  /\ mem'[k] # "old" /\ disk'[k] # "old" /\ NoneOld(k, 1)'
              /\ k \in DOMAIN read' => read'[k] # "old"
  <2>1. /\ mem[k] # "old" /\ disk[k] # "old" /\ NoneOld(k, 1)
        /\ k \in DOMAIN read => read[k] # "old"
    BY <1>2, <1>12 DEF Migrates
  <2>2. mem'[k] # "old"
    BY <1>2, <1>5, <1>12
  <2>3. NoneOld(k, 1)'
    <3>1. CASE 1 \in 1..Len(writes')
      BY <1>6, <2>1, <2>2, <3>1
    <3>2. CASE 1 \notin 1..Len(writes')
      BY <1>2, <3>2 DEF NoneOld
    <3>3. QED
      BY <3>1, <3>2
  <2>4. k \in DOMAIN read' => read'[k] # "old"
    BY <2>1, DataStays
  <2>5. QED
    BY <1>2, <2>1, <2>2, <2>3, <2>4
<1>13. QED
  BY <1>10, <1>11, <1>12 DEF Migrates

\* A write that is performed.
LEMMA StampFlushed == ASSUME TypeInv, NEW k \in Kinds, Migrates(k), Flush PROVE Migrates(k)'
<1>1. /\ Len(writes) \in Nat \ {0} /\ Len(writes') = Len(writes) - 1
      /\ \A i \in 1..Len(writes') : i + 1 \in 1..Len(writes) /\ writes'[i] = writes[i + 1]
      /\ disk' = [disk EXCEPT ![writes[1].key] = writes[1].value]
      /\ writes[1] \in Entry /\ 1 \in 1..Len(writes)
      /\ UNCHANGED <<up, mem, read, stage>>
  BY Performed
<1>2. UNCHANGED Told(k)
  BY <1>1 DEF Told
<1>3. ASSUME NEW i \in 1..Len(writes'), NoneOld(k, i + 1) PROVE NoneOld(k, i)'
  <2>1. \A j \in i..Len(writes') : j \in 1..Len(writes') /\ j + 1 \in i + 1..Len(writes)
    BY <1>1
  <2>2. QED
    BY <1>1, <1>3, <2>1 DEF NoneOld
<1>4. NoneOld(k, 1) => NoneOld(k, 1)'
  <2>1. \A j \in 1..Len(writes') : j + 1 \in 1..Len(writes)
    BY <1>1
  <2>2. QED
    BY <1>1, <2>1 DEF NoneOld
<1>5. \A i \in 1..Len(writes) :
        Forgotten(k, disk[k], writes, i) => Forgotten(k, disk'[k], writes', i - 1)
  BY ForgottenFlushed
<1>6. stage' \in Clearing => Told(k)' /\ Forgotten(k, disk'[k], writes', Len(writes'))
  BY <1>1, <1>2, <1>5 DEF Migrates
<1>7. ASSUME NEW i \in 1..Len(writes'), writes'[i].key = "version"
      PROVE  Told(k)' /\ Forgotten(k, disk'[k], writes', i) /\ NoneOld(k, i)'
  <2>1. i + 1 \in 1..Len(writes) /\ writes[i + 1].key = "version" /\ i + 1 - 1 = i
    BY <1>1, <1>7
  <2>2. Told(k) /\ Forgotten(k, disk[k], writes, i + 1) /\ NoneOld(k, i + 1)
    BY <2>1 DEF Migrates
  <2>3. QED
    BY <1>2, <1>3, <1>5, <2>1, <2>2
<1>8. ASSUME disk'.version = "current"
      PROVE  /\ mem'[k] # "old" /\ disk'[k] # "old" /\ NoneOld(k, 1)'
             /\ k \in DOMAIN read' => read'[k] # "old"
  <2>1. CASE writes[1].key = "version"
    <3>1. Told(k) /\ Forgotten(k, disk[k], writes, 1) /\ NoneOld(k, 1)
      BY <1>1, <2>1 DEF Migrates
    <3>2. disk'[k] = disk[k]
      BY <1>1, <2>1 DEF TypeInv, StorageType, Kinds
    <3>3. disk[k] # "old"
      <4>1. \A j \in 0..1 : j = 0 \/ j = 1
        OBVIOUS
      <4>2. writes[1].key # k
        BY <2>1 DEF Kinds
      <4>3. QED
        BY <3>1, <4>1, <4>2 DEF Forgotten
    <3>4. QED
      BY <1>1, <1>4, <3>1, <3>2, <3>3 DEF Told
  <2>2. CASE writes[1].key # "version"
    <3>1. disk'.version = disk.version /\ disk'[k] \in {disk[k], writes[1].value}
          /\ (writes[1].key # k => disk'[k] = disk[k])
      BY <1>1, <2>2 DEF TypeInv, StorageType, Kinds
    <3>2. /\ mem[k] # "old" /\ disk[k] # "old" /\ NoneOld(k, 1)
          /\ k \in DOMAIN read => read[k] # "old"
      BY <1>8, <3>1 DEF Migrates
    <3>3. disk'[k] # "old"
      BY <1>1, <3>1, <3>2 DEF NoneOld
    <3>4. QED
      BY <1>1, <1>4, <3>2, <3>3
  <2>3. QED
    BY <2>1, <2>2
<1>9. QED
  BY <1>6, <1>7, <1>8 DEF Migrates

\* The end of the process.
LEMMA StampCrash ==
  ASSUME Crash
  PROVE  /\ TablesMigrate => TablesMigrate'
         /\ \A k \in Kinds : Migrates(k) => Migrates(k)'
<1>1. /\ Len(writes') = 0 /\ DOMAIN read' = {} /\ stage' = "waiting"
      /\ \A k \in Kinds : mem'[k] = "none"
      /\ UNCHANGED <<disk, tables>>
  BY DEF Crash, BlankStores, Kinds
<1>2. TablesMigrate => TablesMigrate'
  BY <1>1 DEF TablesMigrate, TablesGone
<1>3. ASSUME NEW k \in Kinds, Migrates(k) PROVE Migrates(k)'
  BY <1>1, <1>3 DEF Migrates, NoneOld, Clearing
<1>4. QED
  BY <1>2, <1>3

\* That the purchases were read late is not forgotten.
LEMMA LateStays == [LaunchNext]_launchVars => (late => late')
<1>1. ASSUME NEW store, NEW key, Hydrate(store, key) PROVE late' = late
  BY <1>1 DEF Hydrate
<1>2. QED
  BY <1>1 DEF LaunchNext, Launching, Hydration, Migration, Onboarding, Flush,
     Launch, HydrateAuth, BootStarts, BootEnds, InitQueue, ReadVersion,
     ClearStores, Drop, Stamp, Stamped, Reconcile,
     Index, Welcome, SetLanguage, Language, requestLocationPermission,
     handleGetStarted, GoBack, NotificationTap, Pages, Crash, rest, launchVars

LEMMA StampStep == ASSUME TypeInv, Reading, StampInv, [LaunchNext]_launchVars PROVE StampInv'
<1>1. "drop" \in mishaps' \/ TablesMigrate'
  <2> SUFFICES ASSUME "drop" \notin mishaps' PROVE TablesMigrate'
    OBVIOUS
  <2>1. TablesMigrate
    BY MishapsStay DEF StampInv
  <2>2. QED
    BY <2>1, StampCrash, TablesFlushed, TablesAsk
<1>2. ASSUME NEW k \in Kinds, Migrates(k), k = "downloads" \/ ~late' PROVE Migrates(k)'
  BY <1>2, StampCrash, StampFlushed, StampAsks
<1>3. Migrates("downloads")'
  BY <1>2 DEF StampInv, Kinds
<1>4. late' \/ Migrates("purchases")'
  <2>1. CASE late'
    BY <2>1
  <2>2. CASE ~late'
    BY <1>2, <2>2, LateStays DEF StampInv, Kinds
  <2>3. QED
    BY <2>1, <2>2
<1>5. QED
  BY <1>1, <1>3, <1>4 DEF StampInv

-----------------------------------------------------------------------------
LaunchInv == TypeInv /\ Reading /\ OnboardInv /\ StampInv

LEMMA LaunchBegins == LaunchInit => LaunchInv
BY StartupAssumption, TypeInit, ReadingInit, OnboardInit, StampInit DEF LaunchInv

LEMMA LaunchStep == LaunchInv /\ [LaunchNext]_launchVars => LaunchInv'
BY TypeStep, ReadingStep, OnboardStep, StampStep DEF LaunchInv

\* Wherever a launch ends, and whatever is still to be written: an installation that
\* is stamped with the current version has no downloads of the old one, no tables
\* but for a failed drop, and no purchases but for a late read.
THEOREM LaunchIsSound == FairSpec => []LaunchSound
<1>1. LaunchInv => LaunchSound
  BY TypeFits DEF LaunchInv, StampInv, Migrates, TablesMigrate, TablesGone, LaunchSound,
     StampedMeansMigrated
<1>2. LaunchInit => LaunchInv
  BY LaunchBegins
<1>3. QED
  BY <1>1, <1>2, LaunchStep, PTL DEF FairSpec

\* Who has finished the onboarding never sees it again, unless his settings could
\* not be read.
THEOREM OnboardingIsKept == FairSpec => OnboardedOnce
<1>1. LaunchInv /\ LaunchInv' /\ [LaunchNext]_launchVars =>
        [disk.onboarded /\ "read" \notin mishaps' => disk'.onboarded]_launchVars
  <2> SUFFICES ASSUME LaunchInv, LaunchInv', [LaunchNext]_launchVars, disk.onboarded, "read" \notin mishaps'
               PROVE  disk'.onboarded
    OBVIOUS
  <2>1. CASE Flush
    <3>1. /\ disk' = [disk EXCEPT ![writes[1].key] = writes[1].value]
          /\ 1 \in 1..Len(writes) /\ mishaps' = mishaps
      BY <2>1, Performed DEF LaunchInv
    <3>2. Remembers
      BY <3>1 DEF LaunchInv, OnboardInv
    <3>3. CASE writes[1].key = "onboarded"
      BY <3>1, <3>2, <3>3 DEF Remembers, LaunchInv, TypeInv, StorageType
    <3>4. CASE writes[1].key # "onboarded"
      BY <3>1, <3>4 DEF LaunchInv, TypeInv, StorageType
    <3>5. QED
      BY <3>3, <3>4
  <2>2. CASE Crash
    BY <2>2 DEF Crash
  <2>3. CASE Asks
    BY <2>3 DEF Asks
  <2>4. QED
    BY <2>1, <2>2, <2>3, AsksFor DEF LaunchInv
<1>2. LaunchInit => LaunchInv
  BY LaunchBegins
<1>3. QED
  BY <1>1, <1>2, LaunchStep, PTL DEF FairSpec, OnboardedOnce
=============================================================================
