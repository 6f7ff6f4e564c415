--------------------------- MODULE OAuthLoginProofs ---------------------------
(***************************************************************************)
(* Theorems about OAuthLogin, for any sets of application and server       *)
(* threads and every value of the bounds: its types, one refresh for each  *)
(* expired token, and that the live refresh token is kept.                 *)
(***************************************************************************)
EXTENDS OAuthLogin, TLAPS

USE ThreadsAssumption, BoundsAssumption
    DEF Threads, Numbers, Pair, NoPair, Loads, At, Goto, Unlocked,
        locals, cloud, history, vars

\* A server thread exchanges the code of a page that was opened.
Serves == \A s \in Servers : At(s, "exchange") => serving[s] \in 1..pages

\* Only the thread in authenticate() is at the steps of that call, and a
\* page is left for it to open.
LoginLabels == {"apply", "complete", "adopt", "validate", "giveUp", "discard",
                "renew", "consent", "openPage"}
LoginHeld ==
  /\ login # NoThread => pages < MaxPages
  /\ \A t \in Callers :
       /\ pc[t] \in LoginLabels => login = t
       /\ pc[t] \in {"merge", "write"} => login = t \/ authMutex = t

\* The requests that retry or refresh hold _authMutex.
LockHeld ==
  \A t \in Callers :
    /\ pc[t] \in {"retry", "refresh"} => authMutex = t
    /\ authMutex = t => pc[t] \in {"retry", "refresh", "merge", "write"}

Typed ==
  TypeClient /\ TypeThreads /\ TypeWorld /\ Serves /\ LoginHeld /\ LockHeld

\* What the token endpoint does to the tokens.
LEMMA IssueTyped ==
  ASSUME TypeWorld, NEW r \in {live, issued + 1}, Issue(r)
  PROVE  /\ issued' \in Numbers /\ accepted' \subseteq 1..issued'
         /\ live' \in 0..issued'
BY DEF Issue, TypeWorld

\* sendWithAuth() comes back to its own caller.
LEMMA ResultLogin ==
  ASSUME TypeThreads, LoginHeld, NEW t \in Callers,
         NEW o \in {"ok", "denied", "error"}, Result(t, o),
         authMutex' \in {authMutex, NoThread}, authMutex = t \/ authMutex' = authMutex,
         pages' = pages
  PROVE  LoginHeld'
BY DEF Result, AfterValidation, Return, TypeThreads, LoginHeld, LoginLabels

\* The first run, or one that finds a pair, starts with the types.
LEMMA TypedInit == Init => Typed
<1> SUFFICES ASSUME Init PROVE Typed
  OBVIOUS
<1>1. issued \in Numbers
  BY DEF Init
<1>2. TypeClient
  <2>1. keychain \in Pair /\ accessToken \in Numbers
    BY <1>1 DEF Init
  <2>2. authMutex = NoThread /\ pendingState = 0 /\ authFinished \in BOOLEAN
    BY DEF Init
  <2> QED
    BY <2>1, <2>2 DEF TypeClient
<1>3. TypeThreads
  BY DEF Init, TypeThreads, Labels
<1>4. TypeWorld
  <2>1. live \in 0..issued /\ accepted \subseteq 1..issued
    BY <1>1 DEF Init
  <2>2. /\ pages = 0 /\ used = {} /\ due = 0 /\ renewed = {} /\ answered = 0
        /\ outdated = {} /\ gone \in BOOLEAN /\ uninstalls = 0 /\ crashes = 0
    BY DEF Init
  <2> QED
    BY <1>1, <2>1, <2>2 DEF TypeWorld
<1>5. Serves /\ LoginHeld /\ LockHeld
  BY DEF Init, Serves, LoginHeld, LoginLabels, LockHeld
<1> QED
  BY <1>2, <1>3, <1>4, <1>5 DEF Typed

\* Every step keeps the types.
LEMMA TypedStep == Typed /\ [Next]_vars => Typed'
<1> SUFFICES ASSUME Typed, [Next]_vars PROVE Typed'
  OBVIOUS
<1> USE DEF Typed
<1>1. ASSUME NEW t \in Callers, CallerStep(t) PROVE Typed'
  <2>1. CASE Snapshot(t)
    <3>1. TypeClient'
      BY <2>1 DEF Snapshot, TypeClient, TypeThreads, TypeWorld
    <3>2. TypeThreads'
      BY <2>1 DEF Snapshot, TypeClient, TypeThreads, TypeWorld, Labels
    <3>3. TypeWorld'
      BY <2>1 DEF Snapshot, TypeClient, TypeThreads, TypeWorld
    <3>4. Serves'
      BY <2>1 DEF Snapshot, Serves, TypeThreads, TypeWorld
    <3>5. LoginHeld'
      BY <2>1 DEF Snapshot, LoginHeld, LoginLabels, TypeThreads, TypeClient
    <3>6. LockHeld'
      BY <2>1 DEF Snapshot, LockHeld, TypeThreads, TypeClient
    <3> QED
      BY <3>1, <3>2, <3>3, <3>4, <3>5, <3>6
  <2>2. CASE Answer(t)
    <3>1. TypeClient'
      BY <2>2 DEF Answer, Responds, Result, AfterValidation, Return,
         TypeClient, TypeThreads, TypeWorld
    <3>2. TypeThreads'
      BY <2>2 DEF Answer, Responds, Result, AfterValidation, Return,
         TypeClient, TypeThreads, TypeWorld, Labels
    <3>3. TypeWorld'
      BY <2>2 DEF Answer, Responds, Result, AfterValidation, Return,
         TypeClient, TypeThreads, TypeWorld
    <3>4. Serves'
      BY <2>2 DEF Answer, Responds, Result, AfterValidation, Return, Serves,
         TypeThreads, TypeWorld
    <3>5. LoginHeld'
      BY <2>2 DEF Answer, Responds, Result, AfterValidation, Return,
         LoginHeld, LoginLabels, TypeThreads, TypeClient
    <3>6. LockHeld'
      BY <2>2 DEF Answer, Responds, Result, AfterValidation, Return, LockHeld,
         TypeThreads, TypeClient
    <3> QED
      BY <3>1, <3>2, <3>3, <3>4, <3>5, <3>6
  <2>3. CASE Lock(t)
    <3>1. TypeClient'
      BY <2>3 DEF Lock, Result, AfterValidation, Return, TypeClient,
         TypeThreads, TypeWorld
    <3>2. TypeThreads'
      BY <2>3 DEF Lock, Result, AfterValidation, Return, TypeClient,
         TypeThreads, TypeWorld, Labels
    <3>3. TypeWorld'
      BY <2>3 DEF Lock, Result, AfterValidation, Return, TypeClient,
         TypeThreads, TypeWorld
    <3>4. Serves'
      BY <2>3 DEF Lock, Result, AfterValidation, Return, Serves, TypeThreads,
         TypeWorld
    <3>5. LoginHeld'
      BY <2>3 DEF Lock, Result, AfterValidation, Return, LoginHeld,
         LoginLabels, TypeThreads, TypeClient
    <3>6. LockHeld'
      BY <2>3 DEF Lock, Result, AfterValidation, Return, LockHeld,
         TypeThreads, TypeClient
    <3> QED
      BY <3>1, <3>2, <3>3, <3>4, <3>5, <3>6
  <2>4. CASE Retry(t)
    <3>1. TypeClient'
      BY <2>4 DEF Retry, Responds, Result, AfterValidation, Return,
         TypeClient, TypeThreads, TypeWorld
    <3>2. TypeThreads'
      BY <2>4 DEF Retry, Responds, Result, AfterValidation, Return,
         TypeClient, TypeThreads, TypeWorld, Labels
    <3>3. TypeWorld'
      BY <2>4 DEF Retry, Responds, Result, AfterValidation, Return,
         TypeClient, TypeThreads, TypeWorld
    <3>4. Serves'
      BY <2>4 DEF Retry, Responds, Result, AfterValidation, Return, Serves,
         TypeThreads, TypeWorld
    <3>5. LoginHeld'
      <4>1. PICK o \in {"ok", "denied", "error"} : Result(t, o)
        BY <2>4 DEF Retry, Responds
      <4> QED
        BY <2>4, <4>1, ResultLogin DEF Retry, LockHeld, cloud
    <3>6. LockHeld'
      BY <2>4 DEF Retry, Responds, Result, AfterValidation, Return, LockHeld,
         TypeThreads, TypeClient
    <3> QED
      BY <3>1, <3>2, <3>3, <3>4, <3>5, <3>6
  <2>5. CASE Refresh(t)
    <3>1. TypeClient'
      BY <2>5 DEF Refresh, Refreshed, RefreshLost, Issue, Result,
         AfterValidation, Return, TypeClient, TypeThreads, TypeWorld
    <3>2. TypeThreads'
      BY <2>5 DEF Refresh, Refreshed, RefreshLost, Issue, Result,
         AfterValidation, Return, TypeClient, TypeThreads, TypeWorld, Labels
    <3>3. TypeWorld'
      <4>1. /\ issued' \in Numbers /\ accepted' \subseteq 1..issued'
          /\ live' \in 0..issued' /\ gone' \in BOOLEAN
        BY <2>5, IssueTyped DEF Refresh, Refreshed, RefreshLost, TypeWorld
      <4>2. renewed' \subseteq Numbers
        <5>1. renewed \subseteq Numbers /\ sent[t] \in Numbers
          BY DEF TypeWorld, TypeThreads
        <5>2. renewed' = renewed \cup {sent[t]} \/ renewed' = renewed
          BY <2>5 DEF Refresh
        <5> QED
          BY <5>1, <5>2
      <4>3. UNCHANGED <<pages, used, due, answered, outdated, uninstalls, crashes>>
        BY <2>5 DEF Refresh
      <4> QED
        BY <4>1, <4>2, <4>3 DEF TypeWorld
    <3>4. Serves'
      BY <2>5 DEF Refresh, Refreshed, RefreshLost, Issue, Result,
         AfterValidation, Return, Serves, TypeThreads, TypeWorld
    <3>5. LoginHeld'
      <4>1. CASE Refreshed(t) /\ UNCHANGED <<authMutex, login, sent, serving>>
        <5>1. authMutex = t /\ UNCHANGED <<authMutex, login, pages>>
          BY <2>5, <4>1 DEF Refresh, LockHeld
        <5>2. pc' \in {[pc EXCEPT ![t] = "write"], [pc EXCEPT ![t] = "merge"]}
          BY <4>1 DEF Refreshed
        <5> QED
          BY <5>1, <5>2 DEF LoginHeld, LoginLabels, TypeThreads
      <4>2. CASE Result(t, "denied") /\ authMutex' = NoThread
        BY <2>5, <4>2, ResultLogin DEF Refresh, LockHeld
      <4> QED
        BY <2>5, <4>1, <4>2 DEF Refresh
    <3>6. LockHeld'
      BY <2>5 DEF Refresh, Refreshed, RefreshLost, Issue, Result,
         AfterValidation, Return, LockHeld, TypeThreads, TypeClient
    <3> QED
      BY <3>1, <3>2, <3>3, <3>4, <3>5, <3>6
  <2>6. CASE Merge(t)
    <3>1. TypeClient'
      BY <2>6 DEF Merge, TypeClient, TypeThreads, TypeWorld
    <3>2. TypeThreads'
      BY <2>6 DEF Merge, TypeClient, TypeThreads, TypeWorld, Labels
    <3>3. TypeWorld'
      BY <2>6 DEF Merge, TypeClient, TypeThreads, TypeWorld
    <3>4. Serves'
      BY <2>6 DEF Merge, Serves, TypeThreads, TypeWorld
    <3>5. LoginHeld'
      BY <2>6 DEF Merge, LoginHeld, LoginLabels, TypeThreads, TypeClient
    <3>6. LockHeld'
      BY <2>6 DEF Merge, LockHeld, TypeThreads, TypeClient
    <3> QED
      BY <3>1, <3>2, <3>3, <3>4, <3>5, <3>6
  <2>7. CASE Write(t)
    <3>1. TypeClient'
      BY <2>7 DEF Write, Stores, TypeClient, TypeThreads, TypeWorld
    <3>2. TypeThreads'
      BY <2>7 DEF Write, Stores, TypeClient, TypeThreads, TypeWorld, Labels
    <3>3. TypeWorld'
      BY <2>7 DEF Write, Stores, TypeClient, TypeThreads, TypeWorld
    <3>4. Serves'
      BY <2>7 DEF Write, Stores, Serves, TypeThreads, TypeWorld
    <3>5. LoginHeld'
      BY <2>7 DEF Write, Stores, LoginHeld, LoginLabels, TypeThreads, TypeClient
    <3>6. LockHeld'
      BY <2>7 DEF Write, Stores, LockHeld, TypeThreads, TypeClient
    <3> QED
      BY <3>1, <3>2, <3>3, <3>4, <3>5, <3>6
  <2>8. CASE Apply(t)
    <3>1. TypeClient'
      BY <2>8 DEF Apply, TypeClient, TypeThreads, TypeWorld
    <3>2. TypeThreads'
      BY <2>8 DEF Apply, TypeClient, TypeThreads, TypeWorld, Labels
    <3>3. TypeWorld'
      BY <2>8 DEF Apply, TypeClient, TypeThreads, TypeWorld
    <3>4. Serves'
      BY <2>8 DEF Apply, Serves, TypeThreads, TypeWorld
    <3>5. LoginHeld'
      BY <2>8 DEF Apply, LoginHeld, LoginLabels, TypeThreads, TypeClient
    <3>6. LockHeld'
      BY <2>8 DEF Apply, LockHeld, TypeThreads, TypeClient
    <3> QED
      BY <3>1, <3>2, <3>3, <3>4, <3>5, <3>6
  <2>9. CASE Complete(t)
    <3>1. TypeClient'
      BY <2>9 DEF Complete, Finish, Return, TypeClient, TypeThreads, TypeWorld
    <3>2. TypeThreads'
      BY <2>9 DEF Complete, Finish, Return, TypeClient, TypeThreads,
         TypeWorld, Labels
    <3>3. TypeWorld'
      BY <2>9 DEF Complete, Finish, Return, TypeClient, TypeThreads,
         TypeWorld, Serves
    <3>4. Serves'
      BY <2>9 DEF Complete, Finish, Return, Serves, TypeThreads, TypeWorld
    <3>5. LoginHeld'
      BY <2>9 DEF Complete, Finish, Return, LoginHeld, LoginLabels,
         TypeThreads, TypeClient
    <3>6. LockHeld'
      BY <2>9 DEF Complete, Finish, Return, LockHeld, TypeThreads, TypeClient
    <3> QED
      BY <3>1, <3>2, <3>3, <3>4, <3>5, <3>6
  <2>10. CASE Adopt(t)
    <3>1. TypeClient'
      BY <2>10 DEF Adopt, TypeClient, TypeThreads, TypeWorld
    <3>2. TypeThreads'
      BY <2>10 DEF Adopt, TypeClient, TypeThreads, TypeWorld, Labels
    <3>3. TypeWorld'
      BY <2>10 DEF Adopt, TypeClient, TypeThreads, TypeWorld
    <3>4. Serves'
      BY <2>10 DEF Adopt, Serves, TypeThreads, TypeWorld
    <3>5. LoginHeld'
      BY <2>10 DEF Adopt, LoginHeld, LoginLabels, TypeThreads, TypeClient
    <3>6. LockHeld'
      BY <2>10 DEF Adopt, LockHeld, TypeThreads, TypeClient
    <3> QED
      BY <3>1, <3>2, <3>3, <3>4, <3>5, <3>6
  <2>11. CASE Validate(t)
    <3>1. TypeClient'
      BY <2>11 DEF Validate, TypeClient, TypeThreads, TypeWorld
    <3>2. TypeThreads'
      BY <2>11 DEF Validate, TypeClient, TypeThreads, TypeWorld, Labels
    <3>3. TypeWorld'
      BY <2>11 DEF Validate, TypeClient, TypeThreads, TypeWorld
    <3>4. Serves'
      BY <2>11 DEF Validate, Serves, TypeThreads, TypeWorld
    <3>5. LoginHeld'
      BY <2>11 DEF Validate, LoginHeld, LoginLabels, TypeThreads, TypeClient
    <3>6. LockHeld'
      BY <2>11 DEF Validate, LockHeld, TypeThreads, TypeClient
    <3> QED
      BY <3>1, <3>2, <3>3, <3>4, <3>5, <3>6
  <2>12. CASE GiveUp(t)
    <3>1. TypeClient'
      BY <2>12 DEF GiveUp, Return, TypeClient, TypeThreads, TypeWorld
    <3>2. TypeThreads'
      BY <2>12 DEF GiveUp, Return, TypeClient, TypeThreads, TypeWorld, Labels
    <3>3. TypeWorld'
      BY <2>12 DEF GiveUp, Return, TypeClient, TypeThreads, TypeWorld
    <3>4. Serves'
      BY <2>12 DEF GiveUp, Return, Serves, TypeThreads, TypeWorld
    <3>5. LoginHeld'
      BY <2>12 DEF GiveUp, Return, LoginHeld, LoginLabels, TypeThreads,
         TypeClient
    <3>6. LockHeld'
      BY <2>12 DEF GiveUp, Return, LockHeld, TypeThreads, TypeClient
    <3> QED
      BY <3>1, <3>2, <3>3, <3>4, <3>5, <3>6
  <2>13. CASE Discard(t)
    <3>1. TypeClient'
      BY <2>13 DEF Discard, TypeClient, TypeThreads, TypeWorld
    <3>2. TypeThreads'
      BY <2>13 DEF Discard, TypeClient, TypeThreads, TypeWorld, Labels
    <3>3. TypeWorld'
      BY <2>13 DEF Discard, TypeClient, TypeThreads, TypeWorld
    <3>4. Serves'
      BY <2>13 DEF Discard, Serves, TypeThreads, TypeWorld
    <3>5. LoginHeld'
      BY <2>13 DEF Discard, LoginHeld, LoginLabels, TypeThreads, TypeClient
    <3>6. LockHeld'
      BY <2>13 DEF Discard, LockHeld, TypeThreads, TypeClient
    <3> QED
      BY <3>1, <3>2, <3>3, <3>4, <3>5, <3>6
  <2>14. CASE Renew(t)
    <3>1. TypeClient'
      BY <2>14 DEF Renew, Refreshed, RefreshLost, Issue, Return, TypeClient,
         TypeThreads, TypeWorld
    <3>2. TypeThreads'
      BY <2>14 DEF Renew, Refreshed, RefreshLost, Issue, Return, TypeClient,
         TypeThreads, TypeWorld, Labels
    <3>3. TypeWorld'
      <4>1. /\ issued' \in Numbers /\ accepted' \subseteq 1..issued'
          /\ live' \in 0..issued' /\ gone' \in BOOLEAN
        BY <2>14, IssueTyped DEF Renew, Refreshed, RefreshLost, TypeWorld
      <4>2. UNCHANGED <<pages, used, due, renewed, answered, outdated, uninstalls,
                       crashes>>
        BY <2>14 DEF Renew
      <4> QED
        BY <4>1, <4>2 DEF TypeWorld
    <3>4. Serves'
      BY <2>14 DEF Renew, Refreshed, RefreshLost, Issue, Return, Serves,
         TypeThreads, TypeWorld
    <3>5. LoginHeld'
      BY <2>14 DEF Renew, Refreshed, RefreshLost, Issue, Return, LoginHeld,
         LoginLabels, TypeThreads, TypeClient
    <3>6. LockHeld'
      BY <2>14 DEF Renew, Refreshed, RefreshLost, Issue, Return, LockHeld,
         TypeThreads, TypeClient
    <3> QED
      BY <3>1, <3>2, <3>3, <3>4, <3>5, <3>6
  <2>15. CASE Consent(t)
    <3>1. TypeClient'
      BY <2>15 DEF Consent, TypeClient, TypeThreads, TypeWorld
    <3>2. TypeThreads'
      BY <2>15 DEF Consent, TypeClient, TypeThreads, TypeWorld, Labels
    <3>3. TypeWorld'
      BY <2>15 DEF Consent, TypeClient, TypeThreads, TypeWorld
    <3>4. Serves'
      BY <2>15 DEF Consent, Serves, TypeThreads, TypeWorld
    <3>5. LoginHeld'
      BY <2>15 DEF Consent, LoginHeld, LoginLabels, TypeThreads, TypeClient
    <3>6. LockHeld'
      BY <2>15 DEF Consent, LockHeld, TypeThreads, TypeClient
    <3> QED
      BY <3>1, <3>2, <3>3, <3>4, <3>5, <3>6
  <2>16. CASE OpenPage(t)
    <3>1. TypeClient'
      BY <2>16 DEF OpenPage, Return, TypeClient, TypeThreads, TypeWorld,
         LoginHeld, LoginLabels
    <3>2. TypeThreads'
      BY <2>16 DEF OpenPage, Return, TypeClient, TypeThreads, TypeWorld,
         Labels
    <3>3. TypeWorld'
      BY <2>16 DEF OpenPage, Return, TypeClient, TypeThreads, TypeWorld,
         LoginHeld, LoginLabels
    <3>4. Serves'
      BY <2>16 DEF OpenPage, Return, Serves, TypeThreads, TypeWorld
    <3>5. LoginHeld'
      BY <2>16 DEF OpenPage, Return, LoginHeld, LoginLabels, TypeThreads,
         TypeClient, TypeWorld
    <3>6. LockHeld'
      BY <2>16 DEF OpenPage, Return, LockHeld, TypeThreads, TypeClient
    <3> QED
      BY <3>1, <3>2, <3>3, <3>4, <3>5, <3>6
  <2>17. CASE WakeUp(t)
    <3>1. TypeClient'
      BY <2>17 DEF WakeUp, Return, TypeClient, TypeThreads, TypeWorld
    <3>2. TypeThreads'
      BY <2>17 DEF WakeUp, Return, TypeClient, TypeThreads, TypeWorld, Labels
    <3>3. TypeWorld'
      BY <2>17 DEF WakeUp, Return, TypeClient, TypeThreads, TypeWorld
    <3>4. Serves'
      BY <2>17 DEF WakeUp, Return, Serves, TypeThreads, TypeWorld
    <3>5. LoginHeld'
      BY <2>17 DEF WakeUp, Return, LoginHeld, LoginLabels, TypeThreads,
         TypeClient
    <3>6. LockHeld'
      BY <2>17 DEF WakeUp, Return, LockHeld, TypeThreads, TypeClient
    <3> QED
      BY <3>1, <3>2, <3>3, <3>4, <3>5, <3>6
  <2> QED
    BY <1>1, <2>1, <2>2, <2>3, <2>4, <2>5, <2>6, <2>7, <2>8, <2>9, <2>10,
       <2>11, <2>12, <2>13, <2>14, <2>15, <2>16, <2>17 DEF CallerStep
<1>2. ASSUME NEW t \in Callers,
             Call(t) \/ Login(t) \/ Wait(t) \/ WaitTimeout(t)
      PROVE  Typed'
  <2>1. CASE Call(t)
    <3>1. TypeClient'
      BY <2>1 DEF Call, TypeClient, TypeThreads, TypeWorld
    <3>2. TypeThreads'
      BY <2>1 DEF Call, TypeClient, TypeThreads, TypeWorld, Labels
    <3>3. TypeWorld'
      BY <2>1 DEF Call, TypeClient, TypeThreads, TypeWorld
    <3>4. Serves'
      BY <2>1 DEF Call, Serves, TypeThreads, TypeWorld
    <3>5. LoginHeld'
      BY <2>1 DEF Call, LoginHeld, LoginLabels, TypeThreads, TypeClient
    <3>6. LockHeld'
      BY <2>1 DEF Call, LockHeld, TypeThreads, TypeClient
    <3> QED
      BY <3>1, <3>2, <3>3, <3>4, <3>5, <3>6
  <2>2. CASE Login(t)
    <3>1. TypeClient'
      BY <2>2 DEF Login, TypeClient, TypeThreads, TypeWorld
    <3>2. TypeThreads'
      BY <2>2 DEF Login, TypeClient, TypeThreads, TypeWorld, Labels
    <3>3. TypeWorld'
      BY <2>2 DEF Login, TypeClient, TypeThreads, TypeWorld
    <3>4. Serves'
      BY <2>2 DEF Login, Serves, TypeThreads, TypeWorld
    <3>5. LoginHeld'
      BY <2>2 DEF Login, LoginHeld, LoginLabels, TypeThreads, TypeClient,
         TypeWorld
    <3>6. LockHeld'
      BY <2>2 DEF Login, LockHeld, TypeThreads, TypeClient
    <3> QED
      BY <3>1, <3>2, <3>3, <3>4, <3>5, <3>6
  <2>3. CASE Wait(t)
    <3>1. TypeClient'
      BY <2>3 DEF Wait, TypeClient, TypeThreads, TypeWorld
    <3>2. TypeThreads'
      BY <2>3 DEF Wait, TypeClient, TypeThreads, TypeWorld, Labels
    <3>3. TypeWorld'
      BY <2>3 DEF Wait, TypeClient, TypeThreads, TypeWorld
    <3>4. Serves'
      BY <2>3 DEF Wait, Serves, TypeThreads, TypeWorld
    <3>5. LoginHeld'
      BY <2>3 DEF Wait, LoginHeld, LoginLabels, TypeThreads, TypeClient
    <3>6. LockHeld'
      BY <2>3 DEF Wait, LockHeld, TypeThreads, TypeClient
    <3> QED
      BY <3>1, <3>2, <3>3, <3>4, <3>5, <3>6
  <2>4. CASE WaitTimeout(t)
    <3>1. TypeClient'
      BY <2>4 DEF WaitTimeout, Return, TypeClient, TypeThreads, TypeWorld
    <3>2. TypeThreads'
      BY <2>4 DEF WaitTimeout, Return, TypeClient, TypeThreads, TypeWorld,
         Labels
    <3>3. TypeWorld'
      BY <2>4 DEF WaitTimeout, Return, TypeClient, TypeThreads, TypeWorld
    <3>4. Serves'
      BY <2>4 DEF WaitTimeout, Return, Serves, TypeThreads, TypeWorld
    <3>5. LoginHeld'
      BY <2>4 DEF WaitTimeout, Return, LoginHeld, LoginLabels, TypeThreads,
         TypeClient
    <3>6. LockHeld'
      BY <2>4 DEF WaitTimeout, Return, LockHeld, TypeThreads, TypeClient
    <3> QED
      BY <3>1, <3>2, <3>3, <3>4, <3>5, <3>6
  <2> QED
    BY <1>2, <2>1, <2>2, <2>3, <2>4
<1>3. ASSUME NEW s \in Servers, ServerStep(s) \/ Uninstall(s) PROVE Typed'
  <2>1. CASE CompleteWithError(s)
    <3>1. TypeClient'
      BY <2>1 DEF CompleteWithError, Finish, Return, TypeClient, TypeThreads,
         TypeWorld
    <3>2. TypeThreads'
      BY <2>1 DEF CompleteWithError, Finish, Return, TypeClient, TypeThreads,
         TypeWorld, Labels
    <3>3. TypeWorld'
      BY <2>1 DEF CompleteWithError, Finish, Return, TypeClient, TypeThreads,
         TypeWorld, Serves
    <3>4. Serves'
      BY <2>1 DEF CompleteWithError, Finish, Return, Serves, TypeThreads,
         TypeWorld
    <3>5. LoginHeld'
      BY <2>1 DEF CompleteWithError, Finish, Return, LoginHeld, LoginLabels,
         TypeThreads, TypeClient
    <3>6. LockHeld'
      BY <2>1 DEF CompleteWithError, Finish, Return, LockHeld, TypeThreads,
         TypeClient
    <3> QED
      BY <3>1, <3>2, <3>3, <3>4, <3>5, <3>6
  <2>2. CASE Write(s)
    <3>1. TypeClient'
      BY <2>2 DEF Write, Stores, TypeClient, TypeThreads, TypeWorld
    <3>2. TypeThreads'
      BY <2>2 DEF Write, Stores, TypeClient, TypeThreads, TypeWorld, Labels
    <3>3. TypeWorld'
      BY <2>2 DEF Write, Stores, TypeClient, TypeThreads, TypeWorld
    <3>4. Serves'
      BY <2>2 DEF Write, Stores, Serves, TypeThreads, TypeWorld
    <3>5. LoginHeld'
      BY <2>2 DEF Write, Stores, LoginHeld, LoginLabels, TypeThreads, TypeClient
    <3>6. LockHeld'
      BY <2>2 DEF Write, Stores, LockHeld, TypeThreads, TypeClient
    <3> QED
      BY <3>1, <3>2, <3>3, <3>4, <3>5, <3>6
  <2>3. CASE Apply(s)
    <3>1. TypeClient'
      BY <2>3 DEF Apply, TypeClient, TypeThreads, TypeWorld
    <3>2. TypeThreads'
      BY <2>3 DEF Apply, TypeClient, TypeThreads, TypeWorld, Labels
    <3>3. TypeWorld'
      BY <2>3 DEF Apply, TypeClient, TypeThreads, TypeWorld
    <3>4. Serves'
      BY <2>3 DEF Apply, Serves, TypeThreads, TypeWorld
    <3>5. LoginHeld'
      BY <2>3 DEF Apply, LoginHeld, LoginLabels, TypeThreads, TypeClient
    <3>6. LockHeld'
      BY <2>3 DEF Apply, LockHeld, TypeThreads, TypeClient
    <3> QED
      BY <3>1, <3>2, <3>3, <3>4, <3>5, <3>6
  <2>4. CASE Complete(s)
    <3>1. TypeClient'
      BY <2>4 DEF Complete, Finish, Return, TypeClient, TypeThreads, TypeWorld
    <3>2. TypeThreads'
      BY <2>4 DEF Complete, Finish, Return, TypeClient, TypeThreads,
         TypeWorld, Labels
    <3>3. TypeWorld'
      BY <2>4 DEF Complete, Finish, Return, TypeClient, TypeThreads,
         TypeWorld, Serves
    <3>4. Serves'
      BY <2>4 DEF Complete, Finish, Return, Serves, TypeThreads, TypeWorld
    <3>5. LoginHeld'
      BY <2>4 DEF Complete, Finish, Return, LoginHeld, LoginLabels,
         TypeThreads, TypeClient
    <3>6. LockHeld'
      BY <2>4 DEF Complete, Finish, Return, LockHeld, TypeThreads, TypeClient
    <3> QED
      BY <3>1, <3>2, <3>3, <3>4, <3>5, <3>6
  <2>5. CASE Exchange(s)
    <3>1. TypeClient'
      BY <2>5 DEF Exchange, Issue, TypeClient, TypeThreads, TypeWorld
    <3>2. TypeThreads'
      BY <2>5 DEF Exchange, Issue, TypeClient, TypeThreads, TypeWorld, Labels
    <3>3. TypeWorld'
      <4>1. /\ issued' \in Numbers /\ accepted' \subseteq 1..issued'
          /\ live' \in 0..issued' /\ gone' \in BOOLEAN
        BY <2>5, IssueTyped DEF Exchange, TypeWorld
      <4>2. used' \subseteq 1..pages
        BY <2>5 DEF Exchange, TypeWorld, Serves
      <4>3. UNCHANGED <<pages, due, renewed, answered, outdated, uninstalls, crashes>>
        BY <2>5 DEF Exchange
      <4> QED
        BY <4>1, <4>2, <4>3 DEF TypeWorld
    <3>4. Serves'
      BY <2>5 DEF Exchange, Issue, Serves, TypeThreads, TypeWorld
    <3>5. LoginHeld'
      BY <2>5 DEF Exchange, Issue, LoginHeld, LoginLabels, TypeThreads,
         TypeClient
    <3>6. LockHeld'
      BY <2>5 DEF Exchange, Issue, LockHeld, TypeThreads, TypeClient
    <3> QED
      BY <3>1, <3>2, <3>3, <3>4, <3>5, <3>6
  <2>6. CASE ClearToken(s)
    <3>1. TypeClient'
      BY <2>6 DEF ClearToken, TypeClient, TypeThreads, TypeWorld
    <3>2. TypeThreads'
      BY <2>6 DEF ClearToken, TypeClient, TypeThreads, TypeWorld, Labels
    <3>3. TypeWorld'
      BY <2>6 DEF ClearToken, TypeClient, TypeThreads, TypeWorld
    <3>4. Serves'
      BY <2>6 DEF ClearToken, Serves, TypeThreads, TypeWorld
    <3>5. LoginHeld'
      BY <2>6 DEF ClearToken, LoginHeld, LoginLabels, TypeThreads, TypeClient
    <3>6. LockHeld'
      BY <2>6 DEF ClearToken, LockHeld, TypeThreads, TypeClient
    <3> QED
      BY <3>1, <3>2, <3>3, <3>4, <3>5, <3>6
  <2>7. CASE RemovePair(s)
    <3>1. TypeClient'
      BY <2>7 DEF RemovePair, Return, TypeClient, TypeThreads, TypeWorld
    <3>2. TypeThreads'
      BY <2>7 DEF RemovePair, Return, TypeClient, TypeThreads, TypeWorld,
         Labels
    <3>3. TypeWorld'
      BY <2>7 DEF RemovePair, Return, TypeClient, TypeThreads, TypeWorld
    <3>4. Serves'
      BY <2>7 DEF RemovePair, Return, Serves, TypeThreads, TypeWorld
    <3>5. LoginHeld'
      BY <2>7 DEF RemovePair, Return, LoginHeld, LoginLabels, TypeThreads,
         TypeClient
    <3>6. LockHeld'
      BY <2>7 DEF RemovePair, Return, LockHeld, TypeThreads, TypeClient
    <3> QED
      BY <3>1, <3>2, <3>3, <3>4, <3>5, <3>6
  <2>8. CASE Uninstall(s)
    <3>1. TypeClient'
      BY <2>8 DEF Uninstall, TypeClient, TypeThreads, TypeWorld
    <3>2. TypeThreads'
      BY <2>8 DEF Uninstall, TypeClient, TypeThreads, TypeWorld, Labels
    <3>3. TypeWorld'
      BY <2>8 DEF Uninstall, TypeWorld
    <3>4. Serves'
      BY <2>8 DEF Uninstall, Serves, TypeThreads, TypeWorld
    <3>5. LoginHeld'
      BY <2>8 DEF Uninstall, LoginHeld, LoginLabels, TypeThreads, TypeClient
    <3>6. LockHeld'
      BY <2>8 DEF Uninstall, LockHeld, TypeThreads, TypeClient
    <3> QED
      BY <3>1, <3>2, <3>3, <3>4, <3>5, <3>6
  <2> QED
    BY <1>3, <2>1, <2>2, <2>3, <2>4, <2>5, <2>6, <2>7, <2>8 DEF ServerStep
<1>4. ASSUME NEW s \in Servers, NEW p \in 1..pages, Redirect(s, p) PROVE Typed'
  <2>1. TypeClient'
    BY <1>4 DEF Redirect, TypeClient, TypeThreads, TypeWorld
  <2>2. TypeThreads'
    BY <1>4 DEF Redirect, TypeClient, TypeThreads, TypeWorld, Labels
  <2>3. TypeWorld'
    BY <1>4 DEF Redirect, TypeClient, TypeThreads, TypeWorld
  <2>4. Serves'
    BY <1>4 DEF Redirect, Serves, TypeThreads, TypeWorld
  <2>5. LoginHeld'
    BY <1>4 DEF Redirect, LoginHeld, LoginLabels, TypeThreads, TypeClient
  <2>6. LockHeld'
    BY <1>4 DEF Redirect, LockHeld, TypeThreads, TypeClient
  <2> QED
    BY <2>1, <2>2, <2>3, <2>4, <2>5, <2>6
<1>5. ASSUME NEW k \in accepted, Expire(k) PROVE Typed'
  <2>1. TypeClient'
    BY <1>5 DEF Expire, TypeClient, TypeThreads, TypeWorld
  <2>2. TypeThreads'
    BY <1>5 DEF Expire, TypeClient, TypeThreads, TypeWorld, Labels
  <2>3. TypeWorld'
    BY <1>5 DEF Expire, TypeClient, TypeThreads, TypeWorld
  <2>4. Serves'
    BY <1>5 DEF Expire, Serves, TypeThreads, TypeWorld
  <2>5. LoginHeld'
    BY <1>5 DEF Expire, LoginHeld, LoginLabels, TypeThreads, TypeClient
  <2>6. LockHeld'
    BY <1>5 DEF Expire, LockHeld, TypeThreads, TypeClient
  <2> QED
    BY <2>1, <2>2, <2>3, <2>4, <2>5, <2>6
<1>6. ASSUME Crash PROVE Typed'
  <2>1. TypeClient'
    <3>1. accessToken' \in Numbers /\ keychain' \in Pair
      BY <1>6 DEF Crash, Storing, TypeClient
    <3>2. authMutex' = NoThread /\ pendingState' = 0 /\ authFinished' \in BOOLEAN
      BY <1>6 DEF Crash
    <3> QED
      BY <3>1, <3>2 DEF TypeClient
  <2>2. TypeThreads'
    BY <1>6 DEF Crash, Storing, TypeClient, TypeThreads, TypeWorld, Labels
  <2>3. TypeWorld'
    BY <1>6 DEF Crash, Storing, TypeClient, TypeThreads, TypeWorld
  <2>4. Serves'
    BY <1>6 DEF Crash, Storing, Serves, TypeThreads, TypeWorld
  <2>5. LoginHeld'
    BY <1>6 DEF Crash, Storing, LoginHeld, LoginLabels, TypeThreads, TypeClient
  <2>6. LockHeld'
    BY <1>6 DEF Crash, Storing, LockHeld, TypeThreads, TypeClient
  <2> QED
    BY <2>1, <2>2, <2>3, <2>4, <2>5, <2>6
<1>8. ASSUME Revoke PROVE Typed'
  <2>1. TypeClient'
    BY <1>8 DEF Revoke, TypeClient
  <2>2. TypeThreads'
    BY <1>8 DEF Revoke, TypeThreads
  <2>3. TypeWorld'
    <3>1. /\ issued' = issued /\ accepted' = {} /\ live' = 0 /\ pages' = pages
          /\ used' = used /\ gone' \in BOOLEAN
      BY <1>8 DEF Revoke
    <3>2. uninstalls' \in 0..MaxUninstalls /\ due' \in 0..uninstalls'
      BY <1>8 DEF Revoke, TypeWorld
    <3>3. UNCHANGED <<renewed, answered, outdated, crashes>>
      BY <1>8 DEF Revoke
    <3> QED
      BY <3>1, <3>2, <3>3 DEF TypeWorld
  <2>4. Serves' /\ LoginHeld' /\ LockHeld'
    BY <1>8 DEF Revoke, Serves, LoginHeld, LockHeld
  <2> QED
    BY <2>1, <2>2, <2>3, <2>4
<1>7. ASSUME UNCHANGED vars PROVE Typed'
  BY <1>7 DEF TypeClient, TypeThreads, TypeWorld, Serves, LoginHeld, LockHeld
<1> QED
  BY <1>1, <1>2, <1>3, <1>4, <1>5, <1>6, <1>7, <1>8 DEF Next

\* Every variable keeps its type, and the bounds hold (TypeOK).
THEOREM TypeCorrect == Spec => []TypeOK
<1>1. Typed => TypeOK
  BY DEF Typed, TypeOK
<1> QED
  BY TypedInit, TypedStep, <1>1, PTL DEF Spec

-----------------------------------------------------------------------------
\* Every token the program knows has been issued.
Known ==
  /\ accessToken \in 0..issued /\ keychain.access \in 0..issued
  /\ renewed \subseteq 0..issued
  /\ \A t \in Threads : sent[t] \in 0..issued /\ tok[t].access \in 0..issued

\* The holder of _authMutex refreshes the current token; a current token that
\* has been refreshed is about to be replaced, by one that has not.
Renewing ==
  /\ \A t \in Callers : pc[t] = "refresh" => sent[t] = accessToken
  /\ accessToken \in renewed \ {0} =>
       \E t \in Callers : authMutex = t /\ pc[t] \in {"merge", "write"}
  /\ \A t \in Callers : authMutex = t /\ pc[t] \in {"merge", "write"}
                       => tok[t].access \notin renewed

LEMMA OnceInit == Init => Known /\ Renewing
<1> SUFFICES ASSUME Init PROVE Known /\ Renewing
  OBVIOUS
<1>1. Known
  BY DEF Init, Known
<1>2. Renewing
  BY DEF Init, Renewing
<1> QED
  BY <1>1, <1>2

\* Every step keeps both.
LEMMA OnceStep ==
  Typed /\ Known /\ Renewing /\ [Next]_vars => Known' /\ Renewing'
<1> SUFFICES ASSUME Typed, Known, Renewing, [Next]_vars
             PROVE  Known' /\ Renewing'
  OBVIOUS
<1> USE DEF Typed
<1>1. ASSUME NEW t \in Callers, CallerStep(t) PROVE Known' /\ Renewing'
  <2>1. CASE Snapshot(t)
    <3>1. Known'
      BY <2>1 DEF Snapshot, Known, TypeClient, TypeThreads, TypeWorld
    <3>2. Renewing'
      BY <2>1 DEF Snapshot, Renewing, Known, LockHeld, TypeThreads, TypeClient
    <3> QED
      BY <3>1, <3>2
  <2>2. CASE Answer(t)
    <3>1. Known'
      BY <2>2 DEF Answer, Responds, Result, AfterValidation, Return, Known,
         TypeClient, TypeThreads, TypeWorld
    <3>2. Renewing'
      BY <2>2 DEF Answer, Responds, Result, AfterValidation, Return, Renewing,
         Known, LockHeld, TypeThreads, TypeClient
    <3> QED
      BY <3>1, <3>2
  <2>3. CASE Lock(t)
    <3>1. Known'
      BY <2>3 DEF Lock, Result, AfterValidation, Return, Known, TypeClient,
         TypeThreads, TypeWorld
    <3>2. Renewing'
      BY <2>3 DEF Lock, Result, AfterValidation, Return, Renewing, Known,
         LockHeld, TypeThreads, TypeClient
    <3> QED
      BY <3>1, <3>2
  <2>4. CASE Retry(t)
    <3>1. Known'
      BY <2>4 DEF Retry, Responds, Result, AfterValidation, Return, Known,
         TypeClient, TypeThreads, TypeWorld
    <3>2. Renewing'
      BY <2>4 DEF Retry, Responds, Result, AfterValidation, Return, Renewing,
         Known, LockHeld, TypeThreads, TypeClient
    <3> QED
      BY <3>1, <3>2
  <2>5. CASE Refresh(t)
    <3>1. Known'
      <4>1. issued \in Nat /\ UNCHANGED <<accessToken, keychain>>
        BY <2>5 DEF Refresh, TypeWorld
      <4>2. CASE /\ Refreshed(t) /\ renewed' = renewed \cup {sent[t]}
               /\ UNCHANGED <<authMutex, login, sent, serving>>
        <5>1. issued' = issued + 1
          BY <4>2 DEF Refreshed, Issue
        <5>2. \/ tok' = [tok EXCEPT ![t] = [access |-> issued', refresh |-> issued']]
              \/ tok' = [tok EXCEPT ![t] = [access |-> issued', refresh |-> 0]]
          BY <4>2 DEF Refreshed
        <5>3. \A u \in Threads : tok'[u].access \in 0..issued'
          BY <4>1, <5>1, <5>2 DEF Known, TypeThreads
        <5>4. \A n \in 0..issued : n \in 0..issued'
          BY <4>1, <5>1
        <5>5. /\ accessToken' \in 0..issued' /\ keychain'.access \in 0..issued'
              /\ renewed' \subseteq 0..issued'
          BY <4>1, <4>2, <5>4 DEF Known
        <5>6. \A u \in Threads : sent'[u] \in 0..issued'
          BY <4>2, <5>4 DEF Known
        <5> QED
          BY <5>3, <5>5, <5>6 DEF Known
      <4>3. CASE /\ issued' \in {issued, issued + 1} /\ authMutex' = NoThread
               /\ Result(t, "denied") /\ UNCHANGED renewed
        BY <4>1, <4>3 DEF Result, AfterValidation, Return, Known, TypeThreads
      <4> QED
        BY <2>5, <4>2, <4>3 DEF Refresh, RefreshLost, Issue
    <3>2. Renewing'
      <4>1. /\ issued \in Nat /\ authMutex = t /\ sent[t] = accessToken
          /\ accessToken' = accessToken
        BY <2>5 DEF Refresh, TypeWorld, LockHeld, Renewing
      <4>2. CASE /\ Refreshed(t) /\ renewed' = renewed \cup {sent[t]}
               /\ UNCHANGED <<authMutex, login, sent, serving>>
        <5>1. pc'[t] \in {"write", "merge"} /\ tok'[t].access = issued + 1
          BY <4>2 DEF Refreshed, Issue, TypeThreads
        <5>2. \A u \in Callers \ {t} : pc'[u] = pc[u] /\ sent'[u] = sent[u]
          BY <4>2 DEF Refreshed, TypeThreads
        <5>3. \A u \in Callers : pc'[u] = "refresh" => u # t /\ authMutex = u
          BY <5>1, <5>2 DEF LockHeld
        <5>4. issued + 1 \notin renewed'
          BY <4>1, <4>2 DEF Known
        <5> QED
          BY <4>1, <4>2, <5>1, <5>3, <5>4 DEF Renewing
      <4>3. CASE /\ issued' \in {issued, issued + 1} /\ authMutex' = NoThread
               /\ Result(t, "denied") /\ UNCHANGED renewed
        <5>1. accessToken \notin renewed \ {0}
          BY <2>5, <4>1 DEF Refresh, Renewing
        <5>2. \A u \in Callers : pc'[u] # "refresh"
          BY <2>5, <4>1, <4>3 DEF Result, AfterValidation, Return, LockHeld, TypeThreads
        <5> QED
          BY <4>1, <4>3, <5>1, <5>2 DEF Renewing
      <4> QED
        BY <2>5, <4>2, <4>3 DEF Refresh, RefreshLost, Issue
    <3> QED
      BY <3>1, <3>2
  <2>6. CASE Merge(t)
    <3>1. Known'
      BY <2>6 DEF Merge, Known, TypeClient, TypeThreads, TypeWorld
    <3>2. Renewing'
      BY <2>6 DEF Merge, Renewing, Known, LockHeld, TypeThreads, TypeClient
    <3> QED
      BY <3>1, <3>2
  <2>7. CASE Write(t)
    <3>1. Known'
      BY <2>7 DEF Write, Stores, Known, TypeClient, TypeThreads, TypeWorld
    <3>2. Renewing'
      BY <2>7 DEF Write, Stores, Renewing, Known, LockHeld, TypeThreads, TypeClient
    <3> QED
      BY <3>1, <3>2
  <2>8. CASE Apply(t)
    <3>1. Known'
      BY <2>8 DEF Apply, Known, TypeClient, TypeThreads, TypeWorld
    <3>2. Renewing'
      BY <2>8 DEF Apply, Renewing, Known, LockHeld, TypeThreads, TypeClient
    <3> QED
      BY <3>1, <3>2
  <2>9. CASE Complete(t)
    <3>1. Known'
      BY <2>9 DEF Complete, Finish, Return, Known, TypeClient, TypeThreads,
         TypeWorld
    <3>2. Renewing'
      BY <2>9 DEF Complete, Finish, Return, Renewing, Known, LockHeld,
         TypeThreads, TypeClient
    <3> QED
      BY <3>1, <3>2
  <2>10. CASE Adopt(t)
    <3>1. Known'
      BY <2>10 DEF Adopt, Known, TypeClient, TypeThreads, TypeWorld
    <3>2. Renewing'
      BY <2>10 DEF Adopt, Renewing, Known, LockHeld, TypeThreads, TypeClient
    <3> QED
      BY <3>1, <3>2
  <2>11. CASE Validate(t)
    <3>1. Known'
      BY <2>11 DEF Validate, Known, TypeClient, TypeThreads, TypeWorld
    <3>2. Renewing'
      BY <2>11 DEF Validate, Renewing, Known, LockHeld, TypeThreads,
         TypeClient
    <3> QED
      BY <3>1, <3>2
  <2>12. CASE GiveUp(t)
    <3>1. Known'
      BY <2>12 DEF GiveUp, Return, Known, TypeClient, TypeThreads, TypeWorld
    <3>2. Renewing'
      BY <2>12 DEF GiveUp, Return, Renewing, Known, LockHeld, TypeThreads,
         TypeClient
    <3> QED
      BY <3>1, <3>2
  <2>13. CASE Discard(t)
    <3>1. Known'
      BY <2>13 DEF Discard, Known, TypeClient, TypeThreads, TypeWorld
    <3>2. Renewing'
      BY <2>13 DEF Discard, Renewing, Known, LockHeld, TypeThreads, TypeClient
    <3> QED
      BY <3>1, <3>2
  <2>14. CASE Renew(t)
    <3>1. Known'
      BY <2>14 DEF Renew, Refreshed, RefreshLost, Issue, Return, Known,
         TypeClient, TypeThreads, TypeWorld
    <3>2. Renewing'
      BY <2>14 DEF Renew, Refreshed, RefreshLost, Issue, Return, Renewing,
         Known, LockHeld, TypeThreads, TypeClient
    <3> QED
      BY <3>1, <3>2
  <2>15. CASE Consent(t)
    <3>1. Known'
      BY <2>15 DEF Consent, Known, TypeClient, TypeThreads, TypeWorld
    <3>2. Renewing'
      BY <2>15 DEF Consent, Renewing, Known, LockHeld, TypeThreads, TypeClient
    <3> QED
      BY <3>1, <3>2
  <2>16. CASE OpenPage(t)
    <3>1. Known'
      BY <2>16 DEF OpenPage, Return, Known, TypeClient, TypeThreads, TypeWorld
    <3>2. Renewing'
      BY <2>16 DEF OpenPage, Return, Renewing, Known, LockHeld, TypeThreads,
         TypeClient
    <3> QED
      BY <3>1, <3>2
  <2>17. CASE WakeUp(t)
    <3>1. Known'
      BY <2>17 DEF WakeUp, Return, Known, TypeClient, TypeThreads, TypeWorld
    <3>2. Renewing'
      BY <2>17 DEF WakeUp, Return, Renewing, Known, LockHeld, TypeThreads,
         TypeClient
    <3> QED
      BY <3>1, <3>2
  <2> QED
    BY <1>1, <2>1, <2>2, <2>3, <2>4, <2>5, <2>6, <2>7, <2>8, <2>9, <2>10,
       <2>11, <2>12, <2>13, <2>14, <2>15, <2>16, <2>17 DEF CallerStep
<1>2. ASSUME NEW t \in Callers,
             Call(t) \/ Login(t) \/ Wait(t) \/ WaitTimeout(t)
      PROVE  Known' /\ Renewing'
  <2>1. CASE Call(t)
    <3>1. Known'
      BY <2>1 DEF Call, Known, TypeClient, TypeThreads, TypeWorld
    <3>2. Renewing'
      BY <2>1 DEF Call, Renewing, Known, LockHeld, TypeThreads, TypeClient
    <3> QED
      BY <3>1, <3>2
  <2>2. CASE Login(t)
    <3>1. Known'
      BY <2>2 DEF Login, Known, TypeClient, TypeThreads, TypeWorld
    <3>2. Renewing'
      BY <2>2 DEF Login, Renewing, Known, LockHeld, TypeThreads, TypeClient
    <3> QED
      BY <3>1, <3>2
  <2>3. CASE Wait(t)
    <3>1. Known'
      BY <2>3 DEF Wait, Known, TypeClient, TypeThreads, TypeWorld
    <3>2. Renewing'
      BY <2>3 DEF Wait, Renewing, Known, LockHeld, TypeThreads, TypeClient
    <3> QED
      BY <3>1, <3>2
  <2>4. CASE WaitTimeout(t)
    <3>1. Known'
      BY <2>4 DEF WaitTimeout, Return, Known, TypeClient, TypeThreads,
         TypeWorld
    <3>2. Renewing'
      BY <2>4 DEF WaitTimeout, Return, Renewing, Known, LockHeld, TypeThreads,
         TypeClient
    <3> QED
      BY <3>1, <3>2
  <2> QED
    BY <1>2, <2>1, <2>2, <2>3, <2>4
<1>3. ASSUME NEW s \in Servers, ServerStep(s) \/ Uninstall(s) PROVE Known' /\ Renewing'
  <2>1. CASE CompleteWithError(s)
    <3>1. Known'
      BY <2>1 DEF CompleteWithError, Finish, Return, Known, TypeClient,
         TypeThreads, TypeWorld
    <3>2. Renewing'
      BY <2>1 DEF CompleteWithError, Finish, Return, Renewing, Known,
         LockHeld, TypeThreads, TypeClient
    <3> QED
      BY <3>1, <3>2
  <2>2. CASE Write(s)
    <3>1. Known'
      BY <2>2 DEF Write, Stores, Known, TypeClient, TypeThreads, TypeWorld
    <3>2. Renewing'
      BY <2>2 DEF Write, Stores, Renewing, Known, LockHeld, TypeThreads, TypeClient
    <3> QED
      BY <3>1, <3>2
  <2>3. CASE Apply(s)
    <3>1. Known'
      BY <2>3 DEF Apply, Known, TypeClient, TypeThreads, TypeWorld
    <3>2. Renewing'
      BY <2>3 DEF Apply, Renewing, Known, LockHeld, TypeThreads, TypeClient
    <3> QED
      BY <3>1, <3>2
  <2>4. CASE Complete(s)
    <3>1. Known'
      BY <2>4 DEF Complete, Finish, Return, Known, TypeClient, TypeThreads,
         TypeWorld
    <3>2. Renewing'
      BY <2>4 DEF Complete, Finish, Return, Renewing, Known, LockHeld,
         TypeThreads, TypeClient
    <3> QED
      BY <3>1, <3>2
  <2>5. CASE Exchange(s)
    <3>1. Known'
      BY <2>5 DEF Exchange, Issue, Known, TypeClient, TypeThreads, TypeWorld
    <3>2. Renewing'
      BY <2>5 DEF Exchange, Issue, Renewing, Known, LockHeld, TypeThreads,
         TypeClient
    <3> QED
      BY <3>1, <3>2
  <2>6. CASE ClearToken(s)
    <3>1. Known'
      BY <2>6 DEF ClearToken, Known, TypeClient, TypeThreads, TypeWorld
    <3>2. Renewing'
      BY <2>6 DEF ClearToken, Renewing, Known, LockHeld, TypeThreads,
         TypeClient
    <3> QED
      BY <3>1, <3>2
  <2>7. CASE RemovePair(s)
    <3>1. Known'
      BY <2>7 DEF RemovePair, Return, Known, TypeClient, TypeThreads,
         TypeWorld
    <3>2. Renewing'
      BY <2>7 DEF RemovePair, Return, Renewing, Known, LockHeld, TypeThreads,
         TypeClient
    <3> QED
      BY <3>1, <3>2
  <2>8. CASE Uninstall(s)
    <3>1. Known'
      BY <2>8 DEF Uninstall, Known, TypeClient, TypeThreads, TypeWorld
    <3>2. Renewing'
      BY <2>8 DEF Uninstall, Renewing, Known, LockHeld, TypeThreads,
         TypeClient
    <3> QED
      BY <3>1, <3>2
  <2> QED
    BY <1>3, <2>1, <2>2, <2>3, <2>4, <2>5, <2>6, <2>7, <2>8 DEF ServerStep
<1>4. ASSUME NEW s \in Servers, NEW p \in 1..pages, Redirect(s, p) PROVE Known' /\ Renewing'
  <2>1. Known'
    BY <1>4 DEF Redirect, Known, TypeClient, TypeThreads, TypeWorld
  <2>2. Renewing'
    BY <1>4 DEF Redirect, Renewing, Known, LockHeld, TypeThreads, TypeClient
  <2> QED
    BY <2>1, <2>2
<1>5. ASSUME NEW k \in accepted, Expire(k) PROVE Known' /\ Renewing'
  <2>1. Known'
    BY <1>5 DEF Expire, Known, TypeClient, TypeThreads, TypeWorld
  <2>2. Renewing'
    BY <1>5 DEF Expire, Renewing, Known, LockHeld, TypeThreads, TypeClient
  <2> QED
    BY <2>1, <2>2
<1>6. ASSUME Crash PROVE Known' /\ Renewing'
  <2>1. Known'
    BY <1>6 DEF Crash, Storing, Known, TypeClient, TypeThreads, TypeWorld
  <2>2. Renewing'
    BY <1>6 DEF Crash, Storing, Renewing, Known, LockHeld, TypeThreads, TypeClient
  <2> QED
    BY <2>1, <2>2
<1>8. ASSUME Revoke PROVE Known' /\ Renewing'
  BY <1>8 DEF Revoke, Known, Renewing
<1>7. ASSUME UNCHANGED vars PROVE Known' /\ Renewing'
  BY <1>7 DEF Known, Renewing
<1> QED
  BY <1>1, <1>2, <1>3, <1>4, <1>5, <1>6, <1>7, <1>8 DEF Next

\* Requests that fail with the same access token refresh it once
\* (OneRefreshPerExpiry): the second comer finds the token changed.
THEOREM RefreshesOnce == Spec => OneRefreshPerExpiry
<1>1. ASSUME Typed, Renewing, NEW t \in Callers, pc[t] = "refresh"
      PROVE  sent[t] \notin renewed \ {0}
  BY <1>1 DEF Typed, LockHeld, Renewing
<1>2. Typed /\ Known /\ Renewing /\ [Next]_vars =>
        [\A t \in Callers : (At(t, "refresh") /\ pc'[t] \in {"write", "merge"})
             => sent[t] \notin renewed \ {0}]_vars
  BY <1>1
<1> QED
  BY TypedInit, TypedStep, OnceInit, OnceStep, <1>2, PTL
     DEF Spec, OneRefreshPerExpiry
-----------------------------------------------------------------------------
(* The keychain                                                            *)

\* Every refresh token the program knows has been issued.
Stored ==
  /\ keychain.refresh \in 0..issued
  /\ \A t \in Threads : tok[t].refresh \in 0..issued

\* A thread that came to its write after the last one holds no older pair than
\* the keychain.
Young ==
  \A t \in Threads \ outdated :
    At(t, "write") /\ keychain.refresh = live /\ live # 0
      => tok[t].refresh = live

KInv == Stored /\ Young /\ KeychainLive

\* What the answer of a request, or reading the keychain, leaves alone.
Quiet ==
  /\ \A u \in Threads :
       /\ pc'[u] = "write" <=> pc[u] = "write"
       /\ tok'[u].refresh \in {0, tok[u].refresh, keychain.refresh}
       /\ pc[u] = "write" => tok'[u] = tok[u]

\* The end of sendWithAuth() in a thread of the application is quiet.
LEMMA ResultQuiet ==
  ASSUME Typed, NEW t \in Callers, pc[t] # "write",
         NEW outcome \in {"ok", "denied", "error"}, Result(t, outcome)
  PROVE  Quiet
<1>1. AfterValidation[outcome] # "write"
  BY DEF AfterValidation
<1>2. CASE login = t
  <2>1. pc' = [pc EXCEPT ![t] = AfterValidation[outcome]] /\ tok' = tok
    BY <1>2 DEF Result
  <2> QED
    BY <1>1, <2>1 DEF Quiet, Typed, TypeThreads
<1>3. CASE login # t
  <2>1. pc' = [pc EXCEPT ![t] = "idle"] /\ tok' = [tok EXCEPT ![t] = NoPair]
    BY <1>3 DEF Result, Return
  <2> QED
    BY <2>1 DEF Quiet
<1> QED
  BY <1>2, <1>3

\* So is the answer of the API.
LEMMA RespondsQuiet ==
  ASSUME Typed, NEW t \in Callers, pc[t] # "write", Responds(t)
  PROVE  Quiet
BY ResultQuiet DEF Responds

\* A quiet step that leaves the keychain and the refresh tokens alone.
LEMMA QuietKeeps ==
  ASSUME Typed, KInv, Quiet, UNCHANGED <<keychain, live, issued, outdated, gone>>
  PROVE  KInv'
<1>1. Stored'
  BY DEF KInv, Stored, Quiet, Typed, TypeWorld, Numbers
<1>2. Young'
  BY DEF KInv, Young, Quiet
<1>3. KeychainLive'
  BY DEF KInv, KeychainLive, Quiet
<1> QED
  BY <1>1, <1>2, <1>3 DEF KInv

\* A quiet step in which the answer of a rotation is lost.
LEMMA QuietLoses ==
  ASSUME Typed, KInv, Quiet, live # 0, issued' = issued + 1, live' = issued + 1,
         gone' = TRUE, UNCHANGED <<keychain, outdated>>
  PROVE  KInv'
<1>0. issued \in Nat
  BY DEF Typed, TypeWorld, Numbers
<1>1. Stored'
  BY <1>0 DEF KInv, Stored, Quiet
<1>2. Young'
  BY <1>0 DEF KInv, Young, Stored
<1>3. KeychainLive'
  BY DEF KeychainLive
<1> QED
  BY <1>1, <1>2, <1>3 DEF KInv

\* A write keeps the live refresh token, or records how it lost it: it stored
\* a pair that was older or had not been merged, or it failed.
LEMMA WriteKeeps ==
  ASSUME Typed, KInv, NEW t \in Threads, Write(t)
  PROVE  KInv'
<1>1. /\ pc[t] = "write" /\ Stores(t) /\ UNCHANGED <<live, issued, tok>>
      /\ \A u \in Threads \ {t} : pc'[u] = pc[u]
      /\ pc'[t] # "write"
  BY DEF Write, Typed, TypeThreads
<1>2. Stored'
  BY <1>1 DEF Stores, KInv, Stored, Typed, TypeWorld
<1>3. CASE /\ keychain' = tok[t]
           /\ outdated' = {u \in Threads : At(u, "write")} \ {t}
           /\ gone' = (gone \/ (t \in outdated /\ keychain.refresh = live
                                /\ tok[t].refresh # live))
  <2>1. Young'
    BY <1>1, <1>3 DEF Young
  <2>2. KeychainLive'
    BY <1>1, <1>3 DEF KInv, Young, KeychainLive
  <2> QED
    BY <1>2, <2>1, <2>2 DEF KInv
<1>4. CASE /\ keychain' \in {keychain, NoPair}
           /\ outdated' = outdated \ {t}
           /\ gone' = (gone \/ (live \in {keychain.refresh, tok[t].refresh} \ {0}
                                /\ keychain'.refresh # live))
  <2>1. Young'
    BY <1>1, <1>4 DEF KInv, Young
  <2>2. KeychainLive'
    BY <1>1, <1>4 DEF KInv, KeychainLive
  <2> QED
    BY <1>2, <2>1, <2>2 DEF KInv
<1> QED
  BY <1>1, <1>3, <1>4 DEF Stores

\* Every step keeps the live refresh token, or records how it went.
LEMMA KeychainStep == Typed /\ KInv /\ [Next]_vars => KInv'
<1> SUFFICES ASSUME Typed, KInv, [Next]_vars PROVE KInv'
  OBVIOUS
<1>1. ASSUME NEW t \in Callers, CallerStep(t) PROVE KInv'
  <2>1. CASE Snapshot(t)
    BY <2>1 DEF Snapshot, KInv, Stored, Young, KeychainLive
  <2>2. CASE Answer(t)
    <3>1. Quiet
      <4>1. CASE sent[t] \notin accepted /\ Goto(t, "lock") /\ UNCHANGED locals
        BY <2>2, <4>1 DEF Answer, Quiet
      <4>2. CASE Responds(t)
        BY <2>2, <4>2, RespondsQuiet DEF Answer
      <4> QED
        BY <2>2, <4>1, <4>2 DEF Answer
    <3> QED
      BY <2>2, <3>1, QuietKeeps DEF Answer
  <2>3. CASE Lock(t)
    <3>1. Quiet
      <4>1. pc[t] = "lock"
        BY <2>3 DEF Lock
      <4>2. CASE Result(t, "denied")
        BY <4>1, <4>2, ResultQuiet
      <4>3. CASE /\ pc' = [pc EXCEPT ![t] = "retry"]
                 /\ UNCHANGED tok
        BY <4>1, <4>3 DEF Quiet, Typed, TypeThreads
      <4>4. ASSUME NEW pair \in Loads(keychain),
                   pc' = [pc EXCEPT ![t] = "refresh"],
                   tok' = [tok EXCEPT ![t] = pair]
            PROVE  Quiet
        BY <4>1, <4>4 DEF Quiet, Typed, TypeThreads
      <4> QED
        BY <2>3, <4>2, <4>3, <4>4 DEF Lock
    <3> QED
      BY <2>3, <3>1, QuietKeeps DEF Lock
  <2>4. CASE Retry(t)
    <3>1. Quiet
      BY <2>4, RespondsQuiet DEF Retry
    <3> QED
      BY <2>4, <3>1, QuietKeeps DEF Retry
  <2>5. CASE Refresh(t)
    <3>1. CASE Refreshed(t)
      <4>1. PICK r \in {issued + 1, live} :
              /\ issued' = issued + 1 /\ live' = r
              /\ r = issued + 1 =>
                   /\ tok' = [tok EXCEPT ![t] = [access |-> issued + 1,
                                                refresh |-> issued + 1]]
                   /\ pc' = [pc EXCEPT ![t] = "write"] /\ gone' = FALSE
              /\ r # issued + 1 =>
                   /\ tok' = [tok EXCEPT ![t] = [access |-> issued + 1,
                                                refresh |-> 0]]
                   /\ pc' = [pc EXCEPT ![t] = "merge"] /\ gone' = gone
        BY <3>1 DEF Refreshed, Issue, Typed, TypeWorld
      <4>2. /\ pc[t] = "refresh" /\ live # 0
            /\ UNCHANGED <<keychain, outdated>>
        BY <2>5, <3>1 DEF Refresh, Refreshed
      <4>3. Stored'
        BY <4>1, <4>2 DEF KInv, Stored, Typed, TypeThreads, TypeWorld
      <4>4. Young'
        BY <4>1, <4>2 DEF KInv, Young, Stored, Typed, TypeThreads, TypeWorld
      <4>5. KeychainLive'
        <5>1. CASE r = issued + 1
          <6>1. pc'[t] = "write" /\ tok'[t].refresh = live'
            BY <4>1, <5>1 DEF Typed, TypeThreads
          <6> QED
            BY <6>1 DEF KeychainLive
        <5>2. CASE r # issued + 1
          <6>1. UNCHANGED <<keychain, live, gone>>
            BY <4>1, <4>2, <5>2
          <6>2. \A u \in Threads : pc[u] = "write" =>
                  pc'[u] = "write" /\ tok'[u] = tok[u]
            BY <4>1, <4>2, <5>2 DEF Typed, TypeThreads
          <6> QED
            BY <6>1, <6>2 DEF KInv, KeychainLive
        <5> QED
          BY <5>1, <5>2
      <4> QED
        BY <4>3, <4>4, <4>5 DEF KInv
    <3>2. CASE Result(t, "denied")
      <4>1. Quiet
        BY <2>5, <3>2, ResultQuiet DEF Refresh
      <4>2. CASE RefreshLost(t)
        BY <2>5, <4>1, <4>2, QuietLoses DEF Refresh, RefreshLost, Issue
      <4>3. CASE UNCHANGED <<issued, accepted, live, gone>>
        BY <2>5, <4>1, <4>3, QuietKeeps DEF Refresh
      <4>4. CASE Refreshed(t)
        BY <3>1, <4>4
      <4> QED
        BY <2>5, <4>2, <4>3, <4>4 DEF Refresh
    <3> QED
      BY <2>5, <3>1, <3>2 DEF Refresh
  <2>6. CASE Merge(t)
    <3>1. PICK pair \in Loads(keychain) :
            /\ tok' = [tok EXCEPT ![t].refresh = pair.refresh]
            /\ outdated' = IF pair = keychain THEN outdated
                                              ELSE outdated \cup {t}
      BY <2>6 DEF Merge
    <3>2. /\ pc[t] = "merge" /\ pc' = [pc EXCEPT ![t] = "write"]
          /\ UNCHANGED <<keychain, live, issued, gone>>
      BY <2>6 DEF Merge
    <3>3. /\ tok'[t].refresh = pair.refresh
          /\ \A u \in Threads \ {t} : tok'[u] = tok[u]
      BY <3>1 DEF Typed, TypeThreads
    <3>4. Stored'
      BY <3>1, <3>2, <3>3 DEF KInv, Stored, Typed, TypeWorld
    <3>5. Young'
      BY <3>1, <3>2, <3>3 DEF KInv, Young, Typed, TypeThreads
    <3>6. KeychainLive'
      BY <3>2, <3>3 DEF KInv, KeychainLive, Typed, TypeThreads
    <3> QED
      BY <3>4, <3>5, <3>6 DEF KInv
  <2>7. CASE Write(t)
    BY <2>7, WriteKeeps
  <2>8. CASE Apply(t)
    BY <2>8 DEF Apply, KInv, Stored, Young, KeychainLive
  <2>9. CASE Complete(t)
    BY <2>9 DEF Complete, Finish, Return, KInv, Stored, Young,
       KeychainLive, Typed, TypeWorld
  <2>10. CASE Adopt(t)
    BY <2>10 DEF Adopt, KInv, Stored, Young, KeychainLive
  <2>11. CASE Validate(t)
    BY <2>11 DEF Validate, KInv, Stored, Young, KeychainLive
  <2>12. CASE GiveUp(t)
    BY <2>12 DEF GiveUp, Return, KInv, Stored, Young, KeychainLive,
       Typed, TypeWorld
  <2>13. CASE Discard(t)
    BY <2>13 DEF Discard, KInv, Stored, Young, KeychainLive, Typed,
       TypeWorld
  <2>14. CASE Renew(t)
    BY <2>14 DEF Renew, Refreshed, RefreshLost, Issue, Return, KInv, Stored,
       Young, KeychainLive, Typed, TypeThreads, TypeWorld
  <2>15. CASE Consent(t)
    BY <2>15 DEF Consent, KInv, Stored, Young, KeychainLive
  <2>16. CASE OpenPage(t)
    BY <2>16 DEF OpenPage, Return, KInv, Stored, Young,
       KeychainLive, Typed, TypeWorld
  <2>17. CASE WakeUp(t)
    BY <2>17 DEF WakeUp, Return, KInv, Stored, Young, KeychainLive,
       Typed, TypeWorld
  <2> QED
    BY <1>1, <2>1, <2>2, <2>3, <2>4, <2>5, <2>6, <2>7, <2>8, <2>9, <2>10,
       <2>11, <2>12, <2>13, <2>14, <2>15, <2>16, <2>17 DEF CallerStep
<1>2. ASSUME NEW t \in Callers, Call(t) PROVE KInv'
  BY <1>2 DEF Call, KInv, Stored, Young, KeychainLive
<1>3. ASSUME NEW t \in Callers, Login(t) PROVE KInv'
  <2>1. PICK pair \in Loads(keychain), l \in {"adopt", "renew", "consent"} :
          tok' = [tok EXCEPT ![t] = pair] /\ pc' = [pc EXCEPT ![t] = l]
    BY <1>3 DEF Login
  <2>2. pc[t] = "idle" /\ UNCHANGED <<keychain, live, issued, outdated, gone>>
    BY <1>3 DEF Login
  <2>3. Quiet
    BY <2>1, <2>2 DEF Quiet, Typed, TypeThreads
  <2> QED
    BY <2>2, <2>3, QuietKeeps
<1>4. ASSUME NEW t \in Callers, Wait(t) PROVE KInv'
  BY <1>4 DEF Wait, KInv, Stored, Young, KeychainLive
<1>5. ASSUME NEW t \in Callers, WaitTimeout(t) PROVE KInv'
  BY <1>5 DEF WaitTimeout, Return, KInv, Stored, Young,
     KeychainLive, Typed, TypeWorld
<1>6. ASSUME NEW s \in Servers, ServerStep(s) PROVE KInv'
  <2>1. CASE Exchange(s)
    BY <2>1 DEF Exchange, Issue, KInv, Stored, Young, KeychainLive, Typed,
       TypeThreads, TypeWorld
  <2>2. CASE ClearToken(s)
    BY <2>2 DEF ClearToken, KInv, Stored, Young, KeychainLive
  <2>3. CASE RemovePair(s)
    <3>1. /\ pc[s] = "removePair" /\ pc' = [pc EXCEPT ![s] = "idle"]
          /\ tok' = [tok EXCEPT ![s] = NoPair]
          /\ keychain' \in {NoPair, keychain}
          /\ gone' = (gone \/ (keychain.refresh = live
                               /\ keychain'.refresh # live))
          /\ UNCHANGED <<live, issued, outdated>>
      BY <2>3 DEF RemovePair, Return
    <3>2. Quiet
      BY <3>1 DEF Quiet, Typed, TypeThreads
    <3>3. Stored'
      BY <3>1, <3>2 DEF KInv, Stored, Quiet, Typed, TypeWorld
    <3>4. Young'
      BY <3>1, <3>2 DEF KInv, Young, Quiet
    <3>5. KeychainLive'
      BY <3>1, <3>2 DEF KInv, KeychainLive, Quiet
    <3> QED
      BY <3>3, <3>4, <3>5 DEF KInv
  <2>4. CASE CompleteWithError(s)
    BY <2>4 DEF CompleteWithError, Finish, Return, KInv, Stored, Young,
       KeychainLive, Typed, TypeWorld
  <2>5. CASE Write(s)
    BY <2>5, WriteKeeps
  <2>6. CASE Apply(s)
    BY <2>6 DEF Apply, KInv, Stored, Young, KeychainLive
  <2>7. CASE Complete(s)
    BY <2>7 DEF Complete, Finish, Return, KInv, Stored, Young, KeychainLive,
       Typed, TypeWorld
  <2> QED
    BY <1>6, <2>1, <2>2, <2>3, <2>4, <2>5, <2>6, <2>7 DEF ServerStep
<1>7. ASSUME NEW s \in Servers, Uninstall(s) PROVE KInv'
  BY <1>7 DEF Uninstall, KInv, Stored, Young, KeychainLive
<1>8. ASSUME NEW s \in Servers, NEW p \in 1..pages, Redirect(s, p) PROVE KInv'
  BY <1>8 DEF Redirect, KInv, Stored, Young, KeychainLive, Typed, TypeThreads
<1>9. ASSUME NEW k \in accepted, Expire(k) PROVE KInv'
  BY <1>9 DEF Expire, KInv, Stored, Young, KeychainLive
<1>10. CASE Revoke
  BY <1>10 DEF Revoke, KInv, Stored, Young, KeychainLive
<1>11. CASE Crash
  <2>1. /\ UNCHANGED <<live, issued>>
        /\ keychain' = keychain \/ (Storing /\ keychain' = NoPair)
        /\ gone' = (gone \/ (Storing /\ keychain'.refresh # live))
        /\ \A u \in Threads : pc'[u] = "idle" /\ tok'[u].refresh = 0
    BY <1>11 DEF Crash
  <2>2. Stored'
    BY <2>1 DEF KInv, Stored, Typed, TypeWorld
  <2>3. Young'
    BY <2>1 DEF Young
  <2>4. KeychainLive'
    BY <2>1 DEF KInv, KeychainLive, Storing
  <2> QED
    BY <2>2, <2>3, <2>4 DEF KInv
<1>12. CASE UNCHANGED vars
  BY <1>12 DEF KInv, Stored, Young, KeychainLive
<1> QED
  BY <1>1, <1>2, <1>3, <1>4, <1>5, <1>6, <1>7, <1>8, <1>9, <1>10, <1>11,
     <1>12 DEF Next

\* With any number of threads the refresh token that works stays in the
\* keychain or in the hands of the thread about to write it there, unless it
\* is lost in one of the ways KeychainLive names.
THEOREM LiveTokenIsKept == Spec => []KeychainLive
<1>1. Init => KInv
  BY ThreadsAssumption DEF Init, KInv, Stored, Young, KeychainLive,
     Threads, At, NoPair
<1>2. KInv => KeychainLive
  BY DEF KInv
<1> QED
  BY <1>1, <1>2, TypedInit, TypedStep, KeychainStep, PTL DEF Spec
=============================================================================
