---------------------------- MODULE MCLiveUpdates ----------------------------
(* Instances of LiveUpdates for TLC. *)
EXTENDS LiveUpdates, TLC

CONSTANTS o1, d1, c1, s1

OneDevice == [o \in Objects |-> d1]
=============================================================================
