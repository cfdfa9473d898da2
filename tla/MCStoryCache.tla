---------------------------- MODULE MCStoryCache ----------------------------
(***************************************************************************)
(* Instances of StoryCache for TLC: two cities with a story each, or one   *)
(* with two stories and one with none, in a cache that holds two bytes.    *)
(***************************************************************************)
EXTENDS StoryCache

CONSTANTS c1, c2, s1, s2

TwoCities  == {c1, c2}
TwoStories == {s1, s2}
OneFull    == [c \in Cities |-> IF c = c1 THEN <<s1, s2>> ELSE <<>>]
OneEach    == [c \in Cities |-> IF c = c1 THEN <<s1>> ELSE <<s2>>]
Bytes      == [s \in Stories |-> IF s = s1 THEN 2 ELSE 1]
Slots      == 1..2
=============================================================================
