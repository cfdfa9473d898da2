--------------------------- MODULE ReceiptLedger ---------------------------
(***************************************************************************)
(* What the purchase service promises about the receipts of the stores     *)
(* ("the database unique constraint on transaction_id is the final         *)
(* authority"): a receipt is credited to one user, once and for good, and  *)
(* nobody is told of a credit but the delivery that made it, if the answer *)
(* of the database reaches it.                                             *)
(***************************************************************************)
CONSTANTS Receipts, Users, Deliveries, Nobody

VARIABLES owner,     \* [Receipts -> Users \cup {Nobody}]
          thanked    \* receipt -> the deliveries that were answered 201

vars == <<owner, thanked>>

Init == /\ owner = [r \in Receipts |-> Nobody]
        /\ thanked = [r \in Receipts |-> {}]

Credit(r, u, d) == /\ owner[r] = Nobody
                   /\ owner' = [owner EXCEPT ![r] = u]
                   /\ thanked' \in {thanked, [thanked EXCEPT ![r] = {d}]}

Next == \E r \in Receipts, u \in Users, d \in Deliveries : Credit(r, u, d)

Spec == Init /\ [][Next]_vars
=============================================================================
