--------------------------- MODULE MCSubscriptions ---------------------------
(***************************************************************************)
(* Instances of Subscriptions for TLC.                                     *)
(***************************************************************************)
EXTENDS Subscriptions, TLC

CONSTANTS d1, d2, c1, c2

Leftover(d, isWhole) == [dev |-> d, app |-> 1, n |-> 0, whole |-> isWhole]

\* What the previous run left in the cloud.
OneWhole == {Leftover(d1, TRUE)}
WholeAndNarrow == {Leftover(d1, TRUE), Leftover(d1, FALSE)}
OneOfEach == {Leftover(d1, FALSE), Leftover(d2, TRUE)}

CallerSymmetry == Permutations(Callers)
=============================================================================
