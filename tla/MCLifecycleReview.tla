------------------------- MODULE MCLifecycleReview -------------------------
(* Three items, any of which may replace another.                          *)
EXTENDS LifecycleReviewProperties, TLC

CONSTANTS i1, i2, i3, p1, p2

MCSuits == {x \in Item \X Item : x[1] # x[2]}
Symmetry == Permutations(Item) \cup Permutations(Operator)
=============================================================================
