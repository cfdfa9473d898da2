----------------------------- MODULE Purchases -----------------------------
(***************************************************************************)
(* A purchase from the tap on the paywall to the status that unlocks it:   *)
(* the paywall and the purchase store of one phone, and the purchase       *)
(* service with its table.  The service looks the receipt up, then inserts *)
(* it; the look-up is only a fast path, for the same receipt may be        *)
(* delivered many times at once, and by other clients than this one.       *)
(***************************************************************************)
EXTENDS MobileApi, FiniteSets

CONSTANTS Users, Receipts, Deliveries,   \* Deliveries: the service's handler calls
          Nobody, None

ASSUME PurchaseAssumption == Nobody \notin Users /\ None \notin Receipts

VARIABLES
    owner,      \* the purchase table: receipt -> its user, unique by receipt
    expired,    \* receipts of subscriptions that have run out
    delivery,   \* handler call -> [at, user, receipt, answer]
    buyer,      \* the user the phone is signed in as
    status,     \* usePurchaseStore: whose status it is, and the receipts in it
    paywall,    \* "closed" or "open"
    tap         \* what handlePurchase is at, for whom, with which receipt and call

tableVars == <<owner, expired>>
phoneVars == <<buyer, status, paywall, tap>>
vars      == <<tableVars, delivery, phoneVars>>

NoStatus == [of |-> Nobody, has |-> {}]
NoTap    == [at |-> "idle", user |-> Nobody, receipt |-> None, call |-> None, got |-> NoStatus]
NoCall   == [at |-> "free", user |-> Nobody, receipt |-> None, answer |-> Lost]
Received(u, r) == [at |-> "received", user |-> u, receipt |-> r, answer |-> Lost]

Fresh(r) == owner[r] = Nobody /\ \A d \in Deliveries : delivery[d].receipt # r

-----------------------------------------------------------------------------
(***************************************************************************)
(* PurchaseService.VerifyAndCreate.                                        *)
(***************************************************************************)
MissesReceipt(d) == delivery' = [delivery EXCEPT ![d].at = "missing"]
Answer(d, code)  == delivery' = [delivery EXCEPT ![d].at = "answered", ![d].answer = code]

\* The request passes the validation and is served; it may be any client's, a
\* copy of one that is being served or was served before.
Arrive(d, u, r) ==
    /\ delivery[d].at = "free"
    /\ delivery' = [delivery EXCEPT ![d] = Received(u, r)]
    /\ UNCHANGED <<tableVars, phoneVars>>

\* GetByTransactionID: found, not found, or an error of the database.
LookUp(d) ==
    /\ delivery[d].at = "received"
    /\ \/ owner[delivery[d].receipt] # Nobody /\ Answer(d, 409)
       \/ owner[delivery[d].receipt] = Nobody /\ MissesReceipt(d)
       \/ Answer(d, 500)
    /\ UNCHANGED <<tableVars, phoneVars>>

\* Mutant: the insert trusts the look-up, the index is gone.
Unclaimed(r) == TRUE
\* The unique index on transaction_id.
Indexed(r)   == owner[r] = Nobody

\* Create: the row is inserted, the index refuses it, or the database fails, which
\* may be after the row was committed.
Create(d) ==
    /\ delivery[d].at = "missing"
    /\ \/ /\ Indexed(delivery[d].receipt)
          /\ owner' = [owner EXCEPT ![delivery[d].receipt] = delivery[d].user]
          /\ Answer(d, 201) \/ Answer(d, 500)
       \/ ~Indexed(delivery[d].receipt) /\ Answer(d, 409) /\ UNCHANGED owner
       \/ Answer(d, 500) /\ UNCHANGED owner
    /\ UNCHANGED <<expired, phoneVars>>

\* GetActivePurchases: what a user has and has not run out.
Active(u) == {r \in Receipts : owner[r] = u} \ expired

\* A month after it was bought a subscription is over.
Expire(r) ==
    /\ owner[r] # Nobody /\ expired' = expired \cup {r}
    /\ UNCHANGED <<owner, delivery, phoneVars>>

-----------------------------------------------------------------------------
(***************************************************************************)
(* Paywall.handlePurchase, and the store it fills.                         *)
(***************************************************************************)
showPaywall == /\ paywall' = "open" /\ UNCHANGED <<tableVars, delivery, buyer, status, tap>>
hidePaywall == /\ paywall' = "closed" /\ UNCHANGED <<tableVars, delivery, buyer, status, tap>>

\* A tap on a product: a new transaction, sent for the user of the token.
handlePurchase(d, r) ==
    /\ paywall = "open" /\ tap.at = "idle" /\ buyer # Nobody
    /\ Fresh(r) /\ delivery[d].at = "free"
    /\ delivery' = [delivery EXCEPT ![d] = Received(buyer, r)]
    /\ tap' = [NoTap EXCEPT !.at = "verifying", !.user = buyer, !.receipt = r, !.call = d]
    /\ UNCHANGED <<tableVars, buyer, status, paywall>>

\* Mutant: a receipt the server knows already is as good as a new one.
Known(d)    == delivery[d].at = "answered" /\ delivery[d].answer \in {201, 409}
\* verifyPurchase resolves: the generated client throws unless the status is good.
Verified(d) == delivery[d].at = "answered" /\ Good(delivery[d].answer)

\* The tap's own call has been answered well: the status is asked for next.
VerifyEnds ==
    /\ tap.at = "verifying"
    /\ Verified(tap.call)
    /\ tap' = [tap EXCEPT !.at = "refreshing"]
    /\ UNCHANGED <<tableVars, delivery, buyer, status, paywall>>

\* GetStatus, for the user of the token it is asked with.
GetStatus ==
    /\ tap.at = "refreshing" /\ buyer # Nobody
    /\ tap' = [tap EXCEPT !.at = "served", !.got = [of |-> buyer, has |-> Active(buyer)]]
    /\ UNCHANGED <<tableVars, delivery, buyer, status, paywall>>

\* setStatus, "Purchase Successful!", and the paywall closes.
PurchaseSucceeds ==
    /\ tap.at = "served"
    /\ status' = tap.got /\ paywall' = "closed"
    /\ tap' = NoTap
    /\ UNCHANGED <<tableVars, delivery, buyer>>

\* "Purchase Failed": an error of either call, an answer that was lost.
PurchaseFails ==
    /\ tap.at \in {"verifying", "refreshing", "served"}
    /\ tap' = NoTap
    /\ UNCHANGED <<tableVars, delivery, buyer, status, paywall>>

\* The session ends or becomes another's: the status goes (authBoundaryReset).
Boundary(u) ==
    /\ u # buyer /\ buyer' = u /\ status' = NoStatus
    /\ UNCHANGED <<tableVars, delivery, paywall, tap>>

-----------------------------------------------------------------------------
Init ==
    /\ owner = [r \in Receipts |-> Nobody] /\ expired = {}
    /\ delivery = [d \in Deliveries |-> NoCall]
    /\ buyer \in Users \cup {Nobody} /\ status = NoStatus
    /\ paywall = "closed" /\ tap = NoTap

Serve(d) == LookUp(d) \/ Create(d) \/ \E u \in Users, r \in Receipts : Arrive(d, u, r)

Phone == \/ showPaywall \/ hidePaywall
         \/ \E d \in Deliveries, r \in Receipts : handlePurchase(d, r)
         \/ VerifyEnds \/ GetStatus \/ PurchaseSucceeds \/ PurchaseFails
         \/ \E u \in Users \cup {Nobody} : Boundary(u)

Next == \/ \E d \in Deliveries : Serve(d)
        \/ \E r \in Receipts : Expire(r)
        \/ Phone

Spec == Init /\ [][Next]_vars

-----------------------------------------------------------------------------
Call   == [at : {"free", "received", "missing", "answered"}, user : Users \cup {Nobody},
           receipt : Receipts \cup {None}, answer : {Lost} \cup verifyPurchase.statuses]
Status == [of : Users \cup {Nobody}, has : SUBSET Receipts]
Tap    == [at : {"idle", "verifying", "refreshing", "served"}, user : Users \cup {Nobody},
           receipt : Receipts \cup {None}, call : Deliveries \cup {None}, got : Status]

\* Every variable keeps to its values.
TypeOK ==
    /\ owner \in [Receipts -> Users \cup {Nobody}] /\ expired \in SUBSET Receipts
    /\ delivery \in [Deliveries -> Call]
    /\ buyer \in Users \cup {Nobody} /\ status \in Status
    /\ paywall \in {"closed", "open"} /\ tap \in Tap

Thanked(d, r) == /\ delivery[d].receipt = r
                 /\ delivery[d].at = "answered" /\ delivery[d].answer = 201

\* However often a receipt is delivered, at the same time or again, at most one
\* delivery is told that it bought something, and the table credits its user.
CreditedOnce ==
    \A r \in Receipts, d \in Deliveries : Thanked(d, r) =>
        /\ owner[r] = delivery[d].user
        /\ \A e \in Deliveries : Thanked(e, r) => e = d

\* The table and the answers are the ledger that the service promises.
Ledger == INSTANCE ReceiptLedger
            WITH owner <- owner,
                 thanked <- [r \in Receipts |-> {d \in Deliveries : Thanked(d, r)}]
ImplementsLedger == Ledger!Spec
=============================================================================
