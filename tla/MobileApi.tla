----------------------------- MODULE MobileApi -----------------------------
(***************************************************************************)
(* The contract the app is generated from: for every operation the app     *)
(* calls, the statuses the server may answer with.  401 is among them      *)
(* exactly when the operation asks for a token.                            *)
(***************************************************************************)
EXTENDS Naturals

Operation(name, statuses) == [name |-> name, statuses |-> statuses]

getNearbyStories        == Operation("getNearbyStories", {200, 400, 429, 500})
getCity                 == Operation("getCity", {200, 400, 404, 500})
getCityDownloadManifest == Operation("getCityDownloadManifest", {200, 400, 404, 500})
listPOIs                == Operation("listPOIs", {200, 400, 500})

trackListening        == Operation("trackListening", {201, 400, 500})
createReport          == Operation("createReport", {201, 400, 500})
registerDeviceToken   == Operation("registerDeviceToken", {201, 400, 500})
unregisterDeviceToken == Operation("unregisterDeviceToken", {200, 400, 500})

deleteAccount     == Operation("deleteAccount", {200, 401, 404, 500})
verifyPurchase    == Operation("verifyPurchase", {201, 400, 401, 409, 500})
getPurchaseStatus == Operation("getPurchaseStatus", {200, 401, 500})

Secured(operation) == 401 \in operation.statuses
Good(status)       == status \in 200..299

\* SAFE_OFFLINE_ENDPOINTS: without a network these go to the sync queue.
Queued == {trackListening, createReport, registerDeviceToken, unregisterDeviceToken}

\* Lost stands for a request or an answer that the network lost.  A caller is
\* answered as the contract says, and 401 if and only if its token is not taken.
Lost == 0
Answers(operation, known) ==
    {Lost} \cup IF Secured(operation) /\ ~known THEN {401} ELSE operation.statuses \ {401}

\* What the caller of an endpoint gets: throwApiError hands the body of the
\* error on and never its status, so that no error is of the category
\* 'unauthorized'; what a request that was queued instead comes back as is the
\* platform's choice, whose Response may take the status 0 or throw.
Outcomes(operation, status) ==
    IF Good(status) THEN {"value"}
    ELSE IF status = Lost /\ operation \in Queued THEN {"value", "unknown"}
    ELSE IF status = Lost THEN {"network"} ELSE {"unknown"}
=============================================================================
