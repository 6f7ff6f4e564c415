--------------------------- MODULE MCExternalTokens ---------------------------
(* Instances of ExternalTokens for TLC. *)
EXTENDS ExternalTokens, TLC

CONSTANTS k1, k2, c1, c2, i1, i2

\* Callers that are all suppliers, or none of them, are interchangeable.
TokenSymmetry == Permutations({k1, k2})
CallerAndTokenSymmetry == Permutations({c1, c2}) \cup TokenSymmetry
=============================================================================
