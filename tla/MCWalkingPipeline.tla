------------------------- MODULE MCWalkingPipeline -------------------------
(***************************************************************************)
(* Instances of WalkingPipeline for TLC: two or three stories.             *)
(***************************************************************************)
EXTENDS WalkingPipeline, TLC

CONSTANTS s1, s2, s3

TwoStories   == {s1, s2}
ThreeStories == {s1, s2, s3}
OneSilent    == {s2}
NoneSilent   == {}

\* Stories with audio are interchangeable.
SameStories == Permutations(Stories \ Silent)
=============================================================================
