---------------------------- MODULE MCOAuthLogin ----------------------------
(***************************************************************************)
(* Instances of OAuthLogin for TLC.  The application's threads are         *)
(* interchangeable, and so are those of the server.                        *)
(***************************************************************************)
EXTENDS OAuthLogin, TLC

ThreadSymmetry == Permutations(Callers) \cup Permutations(Servers)
=============================================================================
