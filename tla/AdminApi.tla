------------------------------ MODULE AdminApi ------------------------------
(***************************************************************************)
(* The contract the admin site is generated from: for every operation it   *)
(* uses, the statuses the server may answer with.  An operation without    *)
(* 401 is public.                                                          *)
(***************************************************************************)
EXTENDS Naturals

Secured(ok, errors) == {ok, 400, 401, 403, 500} \cup errors
Public(operation)   == 401 \notin operation
Good(status)        == status \in 200..299

login        == {200, 400, 401, 403, 500}

getPOI       == {200, 400, 404, 500}
getStory     == {200, 400, 404, 500}

adminGetStats     == {200, 401, 403, 500}
adminListCities   == Secured(200, {})
adminCreateCity   == Secured(201, {409})
adminUpdateCity   == Secured(200, {404, 409})
adminDeleteCity   == Secured(200, {404})
adminRestoreCity  == {200, 401, 403, 404, 500}

adminListPOIs     == Secured(200, {})
adminUpdatePOI    == Secured(200, {404, 409})
adminListStories  == Secured(200, {})
adminUpdateStory  == Secured(200, {404, 409})

adminListReports          == Secured(200, {})
adminListReportsByPOI     == Secured(200, {})
adminUpdateReportStatus   == Secured(200, {404})
adminDisableReportedStory == Secured(200, {404})

adminTriggerInflation        == Secured(201, {409})
adminListInflationJobsByPOI  == Secured(200, {})
adminListAuditLogs           == Secured(200, {})
=============================================================================
