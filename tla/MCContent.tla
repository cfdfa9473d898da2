----------------------------- MODULE MCContent -----------------------------
(***************************************************************************)
(* Two small instances of Content.  One story at one point, with a report, *)
(* its own audio and one more file, two requests and two cleanup workers;  *)
(* and two stories at two points, each with its own audio, so that one can *)
(* be given what belongs to the other.                                     *)
(***************************************************************************)
EXTENDS Content

CONSTANTS s1, s2, r1, k1, k2

MCReportOn == r1 :> s1
MCHome     == s1 :> k1
MCHomes    == s1 :> k1 @@ s2 :> k2
=============================================================================
