---------------------------- MODULE TokenContract ----------------------------
(***************************************************************************)
(* What the external-tokens mode promises its application about the two    *)
(* events it fires.  accessTokenRejected fires at most once per supplied   *)
(* token, authenticationCompleted at most once per sign-in; each is        *)
(* decided while its token, or some token, is the current one, and fires   *)
(* afterwards, when another may have replaced it.                          *)
(***************************************************************************)
EXTENDS Naturals

CONSTANTS Tokens, NoToken

VARIABLES
  token,         \* the current access token
  supplies,      \* how often each token was supplied
  signIns,       \* how often the application signed the Client in
  reporting,     \* the token about to be reported, or NoToken
  reports,       \* how often each token was reported
  announcing,    \* authenticationCompleted is about to fire
  announcements  \* how often it fired

supplied == <<token, supplies, signIns>>
vars == <<supplied, reporting, reports, announcing, announcements>>

Init ==
  /\ token = NoToken /\ supplies = [k \in Tokens |-> 0] /\ signIns = 0
  /\ reporting = NoToken /\ reports = [k \in Tokens |-> 0]
  /\ announcing = FALSE /\ announcements = 0

Supply(k) ==
  /\ token' = k
  /\ supplies' = [supplies EXCEPT ![k] = @ + 1]
  /\ signIns' = IF token = NoToken THEN signIns + 1 ELSE signIns
  /\ UNCHANGED <<reporting, reports, announcing, announcements>>

SignOut ==
  /\ token' = NoToken
  /\ UNCHANGED <<supplies, signIns, reporting, reports, announcing,
                 announcements>>

\* A report is due only for the current token, if a supply of it has none yet.
Decide(k) ==
  /\ reporting = NoToken /\ token = k /\ reports[k] < supplies[k]
  /\ reporting' = k
  /\ UNCHANGED <<supplied, reports, announcing, announcements>>

Report ==
  /\ reporting # NoToken
  /\ reports' = [reports EXCEPT ![reporting] = @ + 1]
  /\ reporting' = NoToken
  /\ UNCHANGED <<supplied, announcing, announcements>>

DecideAnnounce ==
  /\ ~announcing /\ token # NoToken /\ announcements < signIns
  /\ announcing' = TRUE
  /\ UNCHANGED <<supplied, reporting, reports, announcements>>

Announce ==
  /\ announcing
  /\ announcements' = announcements + 1 /\ announcing' = FALSE
  /\ UNCHANGED <<supplied, reporting, reports>>

Next ==
  \/ SignOut \/ Report \/ DecideAnnounce \/ Announce
  \/ \E k \in Tokens : Supply(k) \/ Decide(k)

Spec == Init /\ [][Next]_vars
=============================================================================
