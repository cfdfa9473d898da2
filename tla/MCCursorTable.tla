--------------------------- MODULE MCCursorTable ---------------------------
(***************************************************************************)
(* Instances of CursorTable: three or four rows, one of them still to be   *)
(* created, on pages of one row or of two.                                 *)
(***************************************************************************)
EXTENDS CursorTable
AllKinds  == {"reports", "audit", "cities"}
ThreeRows == 1..3
FourRows  == 1..4
OneSize   == <<1>>
OneAndTwo == <<1, 2>>
=============================================================================
