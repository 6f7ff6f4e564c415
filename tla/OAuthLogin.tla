------------------------------ MODULE OAuthLogin ------------------------------
(***************************************************************************)
(* The OAuth mode of the Client (src/client.cpp, src/oauth2): login,       *)
(* consent in the browser, refresh after a 401, and the keychain that      *)
(* holds the token pair between two runs.                                  *)
(*                                                                         *)
(* Tokens are numbered as the cloud issues them, and 0 is the empty        *)
(* string.  A pair is [access, refresh]; the token endpoint may rotate the *)
(* refresh token or leave it out of its answer.  Every request can fail,   *)
(* and so can every call of the storage behind the keychain.  The local    *)
(* clock (isExpired) is left open.  Subscriptions and the installed-app id *)
(* follow a token but never change one: they are modelled in Subscriptions *)
(* and ExternalTokens.                                                     *)
(***************************************************************************)
EXTENDS Naturals

CONSTANTS
  Callers,        \* application threads
  Servers,        \* the threads of the IHttpServer's pool
  NoThread,       \* no thread
  MaxTokens,      \* bound: tokens the cloud issues
  MaxPages,       \* bound: consent pages opened
  MaxUninstalls,  \* bound: installations removed
  MaxCrashes      \* bound: crashes of the program

Threads == Callers \cup Servers

ASSUME ThreadsAssumption ==
  Callers \cap Servers = {} /\ NoThread \notin Threads
ASSUME BoundsAssumption ==
  /\ MaxTokens \in Nat \ {0} /\ MaxPages \in Nat
  /\ MaxUninstalls \in Nat /\ MaxCrashes \in Nat

VARIABLES
  \* --- the Client -------------------------------------------------------
  accessToken,  \* _access_token
  authMutex,    \* the holder of _authMutex, where it spans several steps
  pendingState, \* _pending_state: the page whose redirect is expected
  authFinished, \* _authFinished
  keychain,     \* the pair under "oauth.token"; two empty tokens load as none
  \* --- the threads ------------------------------------------------------
  pc,
  login,        \* the thread inside authenticate()
  sent,         \* the token a request carries (tokenSnapshot)
  tok,          \* the pair a thread has loaded or obtained
  serving,      \* the page whose redirect a server thread handles
  \* --- the cloud and the browser ----------------------------------------
  issued,       \* tokens issued so far
  accepted,     \* access tokens the API accepts
  live,         \* the refresh token the token endpoint accepts
  pages,        \* consent pages opened
  used,         \* pages whose code has been exchanged
  due,          \* UNINSTALL requests on their way
  \* --- history ----------------------------------------------------------
  renewed,      \* tokens refreshed after a 401 since they were last installed
  answered,     \* the page of the last redirect handled in this run
  outdated,     \* threads about to write a pair older than the keychain's, or
                \* one whose refresh token they could not read from it
  gone,         \* the only copy of the live refresh token was lost
  uninstalls, crashes

locals == <<login, sent, tok, serving>>
cloud == <<issued, accepted, live, pages, used, due>>
history == <<renewed, answered, outdated, gone, uninstalls, crashes>>
vars == <<accessToken, authMutex, pendingState, authFinished, keychain, pc,
          locals, cloud, history>>

NoPair == [access |-> 0, refresh |-> 0]

\* What loadPersistedOAuthToken() makes of a pair that is stored: it returns
\* none when the storage cannot be read.
Loads(stored) == {stored, NoPair}

\* A first run, or one that finds the pair of an earlier run: the constructor
\* loads its access token.
Init ==
  /\ issued \in {0, 1} /\ live = issued /\ accepted \in SUBSET (1..issued)
  /\ keychain = [access |-> issued, refresh |-> issued]
  /\ accessToken \in {pair.access : pair \in Loads(keychain)}
  /\ authMutex = NoThread /\ pendingState = 0 /\ authFinished = FALSE
  /\ pc = [t \in Threads |-> "idle"] /\ login = NoThread
  /\ serving = [t \in Threads |-> 0]
  /\ sent = [t \in Threads |-> 0] /\ tok = [t \in Threads |-> NoPair]
  /\ pages = 0 /\ used = {} /\ due = 0
  /\ renewed = {} /\ answered = 0 /\ outdated = {} /\ gone = FALSE
  /\ uninstalls = 0 /\ crashes = 0

At(t, label) == pc[t] = label
Goto(t, label) == pc' = [pc EXCEPT ![t] = label]
Unlocked == authMutex = NoThread

\* The end of a call, whose locals are gone.
Return(t) ==
  /\ Goto(t, "idle")
  /\ sent' = [sent EXCEPT ![t] = 0] /\ tok' = [tok EXCEPT ![t] = NoPair]
  /\ login' = IF login = t THEN NoThread ELSE login
  /\ serving' = [serving EXCEPT ![t] = 0]

-----------------------------------------------------------------------------
(* sendWithAuth()                                                           *)

\* Where validateAuthentication() leads authenticate() to.
AfterValidation ==
  [ok |-> "complete", denied |-> "discard", error |-> "giveUp"]

\* The result of sendWithAuth().
Result(t, outcome) ==
  IF login = t
  THEN Goto(t, AfterValidation[outcome]) /\ UNCHANGED <<login, sent, tok, serving>>
  ELSE Return(t)

\* The answer of the API: 401 for a token it does not accept; a request may
\* also be refused for its scope (403), or fail.
Responds(t) ==
  \/ sent[t] \in accepted /\ Result(t, "ok")
  \/ Result(t, "denied")
  \/ Result(t, "error")

\* An API call, which checks isAuthenticated().
Call(t) ==
  /\ At(t, "idle") /\ Unlocked
  /\ accessToken # 0
  /\ Goto(t, "snapshot")
  /\ UNCHANGED <<accessToken, authMutex, pendingState, authFinished, keychain,
                 locals, cloud, history>>

Snapshot(t) ==
  /\ At(t, "snapshot") /\ Unlocked
  /\ sent' = [sent EXCEPT ![t] = accessToken]
  /\ Goto(t, "request")
  /\ UNCHANGED <<accessToken, authMutex, pendingState, authFinished, keychain,
                 login, tok, serving, cloud, history>>

Answer(t) ==
  /\ At(t, "request")
  /\ \/ sent[t] \notin accepted /\ Goto(t, "lock") /\ UNCHANGED locals
     \/ Responds(t)
  /\ UNCHANGED <<accessToken, authMutex, pendingState, authFinished, keychain,
                 cloud, history>>

\* Variant of Lock that refreshes whatever the token is by now.
LockRefreshes(t) ==
  /\ At(t, "lock") /\ Unlocked
  /\ \E pair \in Loads(keychain) :
       \/ /\ pair.refresh # 0
          /\ authMutex' = t /\ tok' = [tok EXCEPT ![t] = pair]
          /\ Goto(t, "refresh") /\ UNCHANGED <<login, sent, serving>>
       \/ /\ pair.refresh = 0
          /\ Result(t, "denied") /\ UNCHANGED authMutex
  /\ UNCHANGED <<accessToken, pendingState, authFinished, keychain, cloud,
                 history>>

\* After the 401, _authMutex is taken until the end: a token that has changed
\* meanwhile is tried at once, otherwise the stored pair is loaded to refresh.
Lock(t) ==
  /\ At(t, "lock") /\ Unlocked
  /\ \/ /\ accessToken # sent[t]
        /\ authMutex' = t /\ sent' = [sent EXCEPT ![t] = accessToken]
        /\ Goto(t, "retry") /\ UNCHANGED <<login, tok, serving>>
     \/ /\ accessToken = sent[t]
        /\ \E pair \in Loads(keychain) :
             \/ /\ pair.refresh # 0
                /\ authMutex' = t /\ tok' = [tok EXCEPT ![t] = pair]
                /\ Goto(t, "refresh") /\ UNCHANGED <<login, sent, serving>>
             \/ /\ pair.refresh = 0
                /\ Result(t, "denied") /\ UNCHANGED authMutex
  /\ UNCHANGED <<accessToken, pendingState, authFinished, keychain, cloud,
                 history>>

\* The second answer, and the release of _authMutex.
Retry(t) ==
  /\ At(t, "retry")
  /\ Responds(t)
  /\ authMutex' = NoThread
  /\ UNCHANGED <<accessToken, pendingState, authFinished, keychain, cloud,
                 history>>

-----------------------------------------------------------------------------
(* The token endpoint                                                       *)

\* A new access token, with a new refresh token r or the old one.
Issue(r) ==
  /\ issued < MaxTokens
  /\ issued' = issued + 1 /\ accepted' = accepted \cup {issued + 1}
  /\ live' = r

\* refresh() of a live refresh token is answered by a rotated pair, or by an
\* access token alone.
Refreshed(t) ==
  /\ tok[t].refresh # 0 /\ tok[t].refresh = live
  /\ \/ /\ Issue(issued + 1) /\ gone' = FALSE
        /\ tok' = [tok EXCEPT ![t] = [access |-> issued', refresh |-> issued']]
        /\ Goto(t, "write")
     \/ /\ Issue(live) /\ UNCHANGED gone
        /\ tok' = [tok EXCEPT ![t] = [access |-> issued', refresh |-> 0]]
        /\ Goto(t, "merge")

\* ... and the answer of a rotation may be lost.
RefreshLost(t) ==
  /\ tok[t].refresh # 0 /\ tok[t].refresh = live
  /\ Issue(issued + 1) /\ gone' = TRUE

\* _token_refresh_callback of the request that holds _authMutex.  A refresh
\* that fails leaves the request with its 401.
Refresh(t) ==
  /\ At(t, "refresh")
  /\ \/ /\ Refreshed(t) /\ renewed' = renewed \cup {sent[t]}
        /\ UNCHANGED <<authMutex, login, sent, serving>>
     \/ /\ RefreshLost(t) \/ UNCHANGED <<issued, accepted, live, gone>>
        /\ authMutex' = NoThread /\ Result(t, "denied") /\ UNCHANGED renewed
  /\ UNCHANGED <<accessToken, pendingState, authFinished, keychain, pages, used,
                 due, answered, outdated, uninstalls, crashes>>

-----------------------------------------------------------------------------
(* persistOAuthToken() and applyOAuthToken()                                *)

\* Variant of Merge that stores the pair as it was answered.
MergeNothing(t) ==
  /\ At(t, "merge")
  /\ Goto(t, "write")
  /\ UNCHANGED <<accessToken, authMutex, pendingState, authFinished, keychain,
                 locals, cloud, history>>

\* Fields the answer left out are taken from the pair stored before, if that
\* can be read.
Merge(t) ==
  /\ At(t, "merge")
  /\ \E pair \in Loads(keychain) :
       /\ tok' = [tok EXCEPT ![t].refresh = pair.refresh]
       /\ outdated' = IF pair = keychain THEN outdated ELSE outdated \cup {t}
  /\ Goto(t, "write")
  /\ UNCHANGED <<accessToken, authMutex, pendingState, authFinished, keychain,
                 login, sent, serving, cloud, renewed, answered, gone,
                 uninstalls, crashes>>

\* _keychain->setValue(), whose result is not looked at: the pair is stored,
\* or the file cannot be opened, or it is truncated and the write fails.
Stores(t) ==
  \/ /\ keychain' = tok[t]
     /\ outdated' = {u \in Threads : At(u, "write")} \ {t}
     /\ gone' = (gone \/ (t \in outdated /\ keychain.refresh = live
                          /\ tok[t].refresh # live))
  \/ /\ keychain' \in {keychain, NoPair}
     /\ outdated' = outdated \ {t}
     /\ gone' = (gone \/ (live \in {keychain.refresh, tok[t].refresh} \ {0}
                          /\ keychain'.refresh # live))

\* Variant of Write in which the callback calls applyOAuthToken().
WriteApplies(t) ==
  /\ At(t, "write")
  /\ Stores(t)
  /\ Goto(t, "apply")
  /\ UNCHANGED <<accessToken, sent, authMutex, pendingState, authFinished, login, tok, serving,
                 cloud, renewed, answered, uninstalls, crashes>>

\* The callback returns to sendWithAuth(), which assigns the token and retries;
\* applyOAuthToken() goes on to take the mutex.
Write(t) ==
  /\ At(t, "write")
  /\ Stores(t)
  /\ IF authMutex = t
     THEN /\ accessToken' = tok[t].access
          /\ sent' = [sent EXCEPT ![t] = tok[t].access]
          /\ Goto(t, "retry")
     ELSE Goto(t, "apply") /\ UNCHANGED <<accessToken, sent>>
  /\ UNCHANGED <<authMutex, pendingState, authFinished, login, tok, serving,
                 cloud, renewed, answered, uninstalls, crashes>>

\* Variant of Apply that does not release _authMutex.
ApplyKeepsMutex(t) ==
  /\ At(t, "apply") /\ Unlocked
  /\ authMutex' = t
  /\ accessToken' = tok[t].access
  /\ renewed' = renewed \ {tok[t].access}
  /\ Goto(t, IF tok[t].access = 0 THEN "consent" ELSE "complete")
  /\ UNCHANGED <<pendingState, authFinished, keychain, locals, cloud,
                 answered, outdated, gone, uninstalls, crashes>>

\* After a blank pair the consent follows, otherwise the end of the attempt.
Apply(t) ==
  /\ At(t, "apply") /\ Unlocked
  /\ accessToken' = tok[t].access
  /\ renewed' = renewed \ {tok[t].access}
  /\ Goto(t, IF tok[t].access = 0 THEN "consent" ELSE "complete")
  /\ UNCHANGED <<authMutex, pendingState, authFinished, keychain, locals, cloud,
                 answered, outdated, gone, uninstalls, crashes>>

\* completeAuthentication(): waitForAuthentication() is woken.
Finish(t) ==
  /\ authFinished' = TRUE
  /\ answered' = IF t \in Servers THEN serving[t] ELSE answered
  /\ Return(t)
  /\ UNCHANGED <<accessToken, authMutex, pendingState, keychain, cloud, renewed,
                 outdated, gone, uninstalls, crashes>>

Complete(t) == At(t, "complete") /\ Finish(t)

\* Variant of CompleteWithError that wakes nobody.
CompleteUnnoticed(t) ==
  /\ At(t, "fail")
  /\ answered' = serving[t]
  /\ Return(t)
  /\ UNCHANGED <<accessToken, authMutex, pendingState, authFinished, keychain,
                 cloud, renewed, outdated, gone, uninstalls, crashes>>

CompleteWithError(t) == At(t, "fail") /\ Finish(t)

-----------------------------------------------------------------------------
(* authenticate() and waitForAuthentication()                               *)

\* The stored pair decides: a token the clock calls valid is tried first.  One
\* thread of the application runs authenticate() (client.h:477 "Call once at
\* startup"); the others may make API calls meanwhile.
Login(t) ==
  /\ At(t, "idle") /\ login = NoThread
  /\ pages < MaxPages
  /\ login' = t
  /\ \E pair \in Loads(keychain) :
       /\ tok' = [tok EXCEPT ![t] = pair]
       /\ \/ pair.access # 0 /\ Goto(t, "adopt")
          \/ Goto(t, IF pair.refresh # 0 THEN "renew" ELSE "consent")
  /\ UNCHANGED <<accessToken, authMutex, pendingState, authFinished, keychain,
                 sent, serving, cloud, history>>

Adopt(t) ==
  /\ At(t, "adopt") /\ Unlocked
  /\ accessToken' = tok[t].access
  /\ renewed' = renewed \ {tok[t].access}
  /\ Goto(t, "validate")
  /\ UNCHANGED <<authMutex, pendingState, authFinished, keychain, locals, cloud,
                 answered, outdated, gone, uninstalls, crashes>>

\* isAuthenticated() of validateAuthentication().
Validate(t) ==
  /\ At(t, "validate") /\ Unlocked
  /\ Goto(t, IF accessToken # 0 THEN "snapshot" ELSE "giveUp")
  /\ UNCHANGED <<accessToken, authMutex, pendingState, authFinished, keychain,
                 locals, cloud, history>>

\* The validation failed for another reason than the token.
GiveUp(t) ==
  /\ At(t, "giveUp") /\ Unlocked
  /\ accessToken' = 0
  /\ Return(t)
  /\ UNCHANGED <<authMutex, pendingState, authFinished, keychain, cloud, history>>

\* The token was refused: a blank pair is applied.
Discard(t) ==
  /\ At(t, "discard") /\ Unlocked
  /\ accessToken' = 0
  /\ tok' = [tok EXCEPT ![t] = NoPair]
  /\ Goto(t, "merge")
  /\ UNCHANGED <<authMutex, pendingState, authFinished, keychain, login, sent,
                 serving, cloud, history>>

\* The silent renewal.  It is given up when the endpoint is unreachable; any
\* other failure leads to the consent.
Renew(t) ==
  /\ At(t, "renew")
  /\ \/ Refreshed(t) /\ UNCHANGED <<login, sent, serving>>
     \/ /\ RefreshLost(t) \/ UNCHANGED <<issued, accepted, live, gone>>
        /\ Return(t) \/ (Goto(t, "consent") /\ UNCHANGED locals)
  /\ UNCHANGED <<accessToken, authMutex, pendingState, authFinished, keychain,
                 pages, used, due, renewed, answered, outdated, uninstalls,
                 crashes>>

\* The outcome of an earlier attempt is forgotten ...
Consent(t) ==
  /\ At(t, "consent")
  /\ authFinished' = FALSE
  /\ Goto(t, "openPage")
  /\ UNCHANGED <<accessToken, authMutex, pendingState, keychain, locals, cloud,
                 history>>

\* ... before buildAuthorizeUrl() and openBrowserRequested.
OpenPage(t) ==
  /\ At(t, "openPage")
  /\ pages' = pages + 1 /\ pendingState' = pages + 1
  /\ Return(t)
  /\ UNCHANGED <<accessToken, authMutex, authFinished, keychain, issued,
                 accepted, live, used, due, history>>

Wait(t) ==
  /\ At(t, "idle")
  /\ Goto(t, "waiting")
  /\ UNCHANGED <<accessToken, authMutex, pendingState, authFinished, keychain,
                 locals, cloud, history>>

WakeUp(t) ==
  /\ At(t, "waiting") /\ authFinished
  /\ Return(t)
  /\ UNCHANGED <<accessToken, authMutex, pendingState, authFinished, keychain,
                 cloud, history>>

WaitTimeout(t) ==
  /\ At(t, "waiting") /\ ~authFinished
  /\ Return(t)
  /\ UNCHANGED <<accessToken, authMutex, pendingState, authFinished, keychain,
                 cloud, history>>

-----------------------------------------------------------------------------
(* The server threads: onOAuthRedirect() and UNINSTALL                      *)

\* The browser follows the redirect of page p, perhaps an old one or once
\* more.  It fails when the consent was denied or the state does not match,
\* as it may while authenticate() writes _pending_state unsynchronized.
Redirect(s, p) ==
  /\ At(s, "idle")
  /\ serving' = [serving EXCEPT ![s] = p]
  /\ \/ p = pendingState /\ Goto(s, "exchange")
     \/ Goto(s, "fail")
  /\ UNCHANGED <<accessToken, authMutex, pendingState, authFinished, keychain,
                 login, sent, tok, cloud, history>>

\* The code of the page is exchanged; success drops whatever state is pending.
Exchange(s) ==
  /\ At(s, "exchange")
  /\ \/ /\ serving[s] \notin used /\ Issue(issued + 1) /\ gone' = FALSE
        /\ used' = used \cup {serving[s]}
        /\ tok' = [tok EXCEPT ![s] = [access |-> issued', refresh |-> issued']]
        /\ pendingState' = 0
        /\ Goto(s, "write")
     \/ /\ serving[s] \notin used /\ Issue(issued + 1) /\ gone' = TRUE
        /\ used' = used \cup {serving[s]}
        /\ Goto(s, "fail") /\ UNCHANGED <<tok, pendingState>>
     \/ /\ Goto(s, "fail")
        /\ UNCHANGED <<tok, pendingState, used, issued, accepted, live, gone>>
  /\ UNCHANGED <<accessToken, authMutex, authFinished, keychain, login, sent,
                 serving, pages, due, renewed, answered, outdated, uninstalls,
                 crashes>>

\* UNINSTALL is handled by whichever thread of the pool gets it, whatever has
\* been granted since the cloud sent it.
Uninstall(s) ==
  /\ At(s, "idle") /\ due > 0
  /\ due' = due - 1
  /\ Goto(s, "clearToken")
  /\ UNCHANGED <<accessToken, authMutex, pendingState, authFinished, keychain,
                 locals, issued, accepted, live, pages, used, history>>

ClearToken(s) ==
  /\ At(s, "clearToken") /\ Unlocked
  /\ accessToken' = 0
  /\ Goto(s, "removePair")
  /\ UNCHANGED <<authMutex, pendingState, authFinished, keychain, locals, cloud,
                 history>>

\* removeValue() returns nothing: it may have failed.  A refresh token that is
\* live when it is removed was granted after the cloud sent the request.
RemovePair(s) ==
  /\ At(s, "removePair")
  /\ keychain' \in {NoPair, keychain}
  /\ gone' = (gone \/ (keychain.refresh = live /\ keychain'.refresh # live))
  /\ Return(s)
  /\ UNCHANGED <<accessToken, authMutex, pendingState, authFinished, cloud,
                 renewed, answered, outdated, uninstalls, crashes>>

-----------------------------------------------------------------------------
(* The environment                                                          *)

\* An access token expires or is revoked.
Expire(k) ==
  /\ accepted' = accepted \ {k}
  /\ UNCHANGED <<accessToken, authMutex, pendingState, authFinished, keychain,
                 pc, locals, issued, live, pages, used, due, history>>

\* The user removes the installation: the cloud forgets its tokens, and says so.
Revoke ==
  /\ uninstalls < MaxUninstalls
  /\ uninstalls' = uninstalls + 1 /\ due' = due + 1
  /\ live' = 0 /\ accepted' = {} /\ gone' = FALSE
  /\ UNCHANGED <<accessToken, authMutex, pendingState, authFinished, keychain,
                 pc, locals, issued, pages, used, renewed, answered, outdated,
                 crashes>>

\* A thread is in front of a call that changes the keychain, or inside it.
Storing == \E t \in Threads : At(t, "write") \/ At(t, "removePair")

\* The program dies and is started again: what is left is the keychain, which
\* a write cut short leaves empty, and from which the constructor loads the
\* access token.
Crash ==
  /\ crashes < MaxCrashes
  /\ crashes' = crashes + 1
  /\ keychain' = keychain \/ (Storing /\ keychain' = NoPair)
  /\ gone' = (gone \/ (Storing /\ keychain'.refresh # live))
  /\ accessToken' \in {pair.access : pair \in Loads(keychain')}
  /\ authMutex' = NoThread /\ pendingState' = 0 /\ authFinished' = FALSE
  /\ pc' = [t \in Threads |-> "idle"] /\ login' = NoThread
  /\ serving' = [t \in Threads |-> 0]
  /\ sent' = [t \in Threads |-> 0] /\ tok' = [t \in Threads |-> NoPair]
  /\ renewed' = {} /\ answered' = 0 /\ outdated' = {}
  /\ UNCHANGED <<cloud, uninstalls>>

\* The steps of a thread inside the library.
CallerStep(t) ==
  \/ Snapshot(t) \/ Answer(t) \/ Lock(t) \/ Retry(t) \/ Refresh(t)
  \/ Merge(t) \/ Write(t) \/ Apply(t) \/ Complete(t)
  \/ Adopt(t) \/ Validate(t) \/ GiveUp(t) \/ Discard(t) \/ Renew(t)
  \/ Consent(t) \/ OpenPage(t) \/ WakeUp(t)

ServerStep(s) ==
  \/ Exchange(s) \/ ClearToken(s) \/ RemovePair(s) \/ CompleteWithError(s)
  \/ Write(s) \/ Apply(s) \/ Complete(s)

Next ==
  \/ \E t \in Callers : \/ CallerStep(t) \/ Call(t) \/ Login(t)
                        \/ Wait(t) \/ WaitTimeout(t)
  \/ \E s \in Servers : \/ ServerStep(s) \/ Uninstall(s)
                        \/ \E p \in 1..pages : Redirect(s, p)
  \/ \E k \in accepted : Expire(k)
  \/ Revoke \/ Crash

Spec == Init /\ [][Next]_vars

\* Threads are scheduled, requests time out and mutexes are released; a mutex
\* wanted again and again is granted in the end.
FairSpec ==
  /\ Spec
  /\ \A t \in Callers : SF_vars(CallerStep(t))
  /\ \A s \in Servers : SF_vars(ServerStep(s))

-----------------------------------------------------------------------------
(* Properties                                                               *)

Labels ==
  {"idle", "snapshot", "request", "lock", "retry", "refresh", "merge", "write",
   "apply", "complete", "fail", "adopt", "validate", "giveUp", "discard",
   "renew", "consent", "openPage", "waiting", "exchange", "clearToken",
   "removePair"}

Numbers == 0..MaxTokens
Pair == [access : Numbers, refresh : Numbers]

TypeClient ==
  /\ accessToken \in Numbers /\ keychain \in Pair
  /\ authMutex \in Callers \cup {NoThread}
  /\ pendingState \in 0..MaxPages /\ authFinished \in BOOLEAN
TypeThreads ==
  /\ pc \in [Threads -> Labels] /\ login \in Callers \cup {NoThread}
  /\ sent \in [Threads -> Numbers] /\ tok \in [Threads -> Pair]
  /\ serving \in [Threads -> 0..MaxPages]
TypeWorld ==
  /\ issued \in Numbers /\ accepted \subseteq 1..issued /\ live \in 0..issued
  /\ pages \in 0..MaxPages /\ used \subseteq 1..pages
  /\ due \in 0..uninstalls
  /\ renewed \subseteq Numbers /\ answered \in 0..MaxPages
  /\ outdated \subseteq Threads /\ gone \in BOOLEAN
  /\ uninstalls \in 0..MaxUninstalls /\ crashes \in 0..MaxCrashes

\* Every variable has its type, and the bounds hold.
TypeOK == TypeClient /\ TypeThreads /\ TypeWorld

\* The refresh token that still works is in the keychain, or with the thread
\* about to write it: a refresh that leaves it out, the blank pair of
\* authenticate() and a restart keep it (persistOAuthToken,
\* client.cpp:911-938).  What loses it is an answer that does not arrive, a
\* crash at a write or a removal, a storage call that fails (its result is
\* ignored, client.cpp:937), a thread that writes an older pair over it or one
\* it could not merge, and an UNINSTALL handled after a newer grant.
KeychainLive ==
  \/ live \in {0, keychain.refresh} \/ gone
  \/ \E t \in Threads : At(t, "write") /\ tok[t].refresh = live

\* Requests that fail with one and the same access token refresh it once: the
\* second of them retries with the token the first one obtained
\* (client.cpp:330-335).  A login or a redirect that installs an older token
\* again makes that a new expiry; the empty token, which a call overtaken by
\* authenticate() or UNINSTALL sends, has none.
OneRefreshPerExpiry ==
  [][\A t \in Callers : (At(t, "refresh") /\ pc'[t] \in {"write", "merge"})
        => sent[t] \notin renewed \ {0}]_vars

\* Every call returns; in particular the refresh callback, which runs with
\* _authMutex held, never waits for that mutex (client.cpp:125-128).
CallsReturn ==
  \A t \in Threads : ~At(t, "idle") /\ ~At(t, "waiting") ~> At(t, "idle")

\* Whoever waits in waitForAuthentication() wakes up once the redirect of the
\* newest page has been handled, with success or not (client.cpp:882-899),
\* unless another login starts.
WaitEnds ==
  \A t \in Callers :
    (At(t, "waiting") /\ pages > 0 /\ answered = pages)
      ~> (~At(t, "waiting") \/ login # NoThread)
=============================================================================
