----------------------------- MODULE MCGradient -----------------------------
(* Three VMs; the second weighs half as much again as the others, the third  *)
(* is smaller than the least allocation.                                     *)
EXTENDS Gradient

Sizes == <<6, 6, 2>>
InvWeights == <<3, 2, 3>>
TwoSizes == <<6, 6>>
TwoInvWeights == <<2, 1>>
MeasuredSpeeds == {-1, 3, 4}
=============================================================================
