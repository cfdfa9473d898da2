---------------------------- MODULE MCAppScreens ----------------------------
\* Two users, a receipt in three deliveries; two stories, two types, two taps; four
\* points in pages of two, loaded twice at a time.
EXTENDS AppScreens
CONSTANTS u1, u2, r1, r2, d1, d2, d3, s1, s2, t1, t2
TwoUsers        == {u1, u2}
TwoReceipts     == {r1, r2}
ThreeDeliveries == {d1, d2, d3}
TwoStories      == {s1, s2}
TwoTypes        == {t1, t2}
TwoTaps         == {1, 2}
OneReceipt      == {r1}
TwoDeliveries   == {d1, d2}
FourPois        == 1..4
OneLoad         == {1}
TwoLoads        == {1, 2}
=============================================================================
