---------------------------- MODULE ExternalTokens ----------------------------
(***************************************************************************)
(* The external-tokens mode of the Client (src/client.cpp): tokens arrive  *)
(* through setAccessToken(), requests that get a 401 report their token,   *)
(* and a worker thread persists the installed-app id, delivers the reports,*)
(* flushes the parked subscriptions and announces sign-ins.                *)
(*                                                                         *)
(* setAccessToken() is three critical sections, of _authMutex,             *)
(* _installMutex and _workerMutex; reportRejectedToken() is two.  Each is  *)
(* one step here, so that the calls of several threads interleave as they  *)
(* do in the code.  Which devices a flush retries is the business of       *)
(* Subscriptions; here a flush is one authenticated request.               *)
(***************************************************************************)
EXTENDS Naturals, FiniteSets

CONSTANTS
  Tokens,       \* non-empty access tokens
  NoToken,      \* the empty string
  AppIds,       \* installed-app ids
  NoId,         \* the empty string, or an empty optional
  Callers,      \* application threads; they make the API calls
  Suppliers,    \* the ones of them that also call setAccessToken()
  Server,       \* the IHttpServer thread
  Worker,       \* the thread of workerLoop()
  MaxSupplies,  \* bound: setAccessToken() calls, sign-outs included
  MaxWebhooks   \* bound: INSTALL and UNINSTALL requests

Threads == Callers \cup {Server, Worker}

ASSUME TokensAssumption == NoToken \notin Tokens /\ NoId \notin AppIds
ASSUME ThreadsAssumption ==
  /\ IsFiniteSet(Callers)
  /\ Server \notin Callers /\ Worker \notin Callers /\ Server # Worker
  /\ Suppliers \subseteq Callers
ASSUME BoundsAssumption == MaxSupplies \in Nat /\ MaxWebhooks \in Nat

VARIABLES
  \* --- the Client -------------------------------------------------------
  token,          \* _access_token
  rejectedToken,  \* _rejectedToken
  installedAppId, \* _installedAppId
  stored,         \* "installedAppId" in _storage
  flushJob,       \* _workerFlush
  announceJob,    \* _workerAnnounce
  persistJob,     \* _workerPersistAppId
  rejectedJob,    \* _workerRejected: how many entries each token has in it
  phase,          \* progress of ~Client()
  \* --- what workerLoop() took -------------------------------------------
  flush, announce, persist, toReport, stopping,
  \* --- the threads ------------------------------------------------------
  pc,
  arg,            \* the token passed to, or used by, the current call
  argId,          \* the installed-app id passed to setAccessToken()
  signsIn,        \* setAccessToken()'s local of that name
  \* --- the cloud --------------------------------------------------------
  expired,        \* tokens the API answers 401
  \* --- history ----------------------------------------------------------
  calls,          \* setAccessToken() calls
  supplies,       \* how many of them supplied each token
  reports,        \* accessTokenRejected notifications per token
  told,           \* tokens reported since a token was last supplied
  signIns,        \* calls that signed the Client in
  announcements,  \* authenticationCompleted notifications
  unannounced,    \* the last sign-in is not announced yet
  webhooks        \* INSTALL and UNINSTALL requests handled

tokens == <<token, rejectedToken>>
ids == <<installedAppId, stored>>
jobs == <<flushJob, announceJob, persistJob, rejectedJob>>
taken == <<flush, announce, persist, toReport, stopping>>
args == <<arg, argId, signsIn>>
client == <<tokens, ids, jobs, phase, taken>>
supplied == <<calls, supplies, signIns>>
fired == <<reports, told, announcements, unannounced>>
world == <<expired, supplied, fired, webhooks>>
vars == <<client, pc, args, world>>

None == [k \in Tokens |-> 0]

\* The constructor rehydrates the installed-app id; the worker starts waiting.
Init ==
  /\ token = NoToken /\ rejectedToken = NoToken
  /\ stored \in AppIds \cup {NoId} /\ installedAppId = stored
  /\ flushJob = FALSE /\ announceJob = FALSE /\ persistJob = NoId
  /\ rejectedJob = None
  /\ phase = "running"
  /\ flush = FALSE /\ announce = FALSE /\ persist = NoId
  /\ toReport = None /\ stopping = FALSE
  /\ pc = [t \in Threads |-> IF t = Worker THEN "wait" ELSE "idle"]
  /\ arg = [t \in Threads |-> NoToken] /\ argId = [t \in Threads |-> NoId]
  /\ signsIn = [t \in Threads |-> FALSE]
  /\ expired = {}
  /\ calls = 0 /\ supplies = None /\ signIns = 0
  /\ reports = None /\ told = {} /\ announcements = 0 /\ unannounced = FALSE
  /\ webhooks = 0

At(t, label) == pc[t] = label
Goto(t, label) == pc' = [pc EXCEPT ![t] = label]

\* Where a request of the thread goes on: only the worker and the server do
\* more after one.
Resume(t) == IF t = Worker THEN "announce" ELSE "idle"

\* The end of a call, whose locals are gone.
Return(t) ==
  /\ Goto(t, Resume(t))
  /\ arg' = [arg EXCEPT ![t] = NoToken] /\ argId' = [argId EXCEPT ![t] = NoId]
  /\ signsIn' = [signsIn EXCEPT ![t] = FALSE]

-----------------------------------------------------------------------------
(* setAccessToken()                                                         *)

\* Variant of Supply that does not re-arm the report of the token.
SupplyKeepsRejected(t, k, id) ==
  /\ phase = "running" /\ t \in Suppliers /\ At(t, "idle")
  /\ calls < MaxSupplies
  /\ LET signs == token = NoToken /\ k # NoToken IN
     /\ signsIn' = [signsIn EXCEPT ![t] = signs]
     /\ signIns' = IF signs THEN signIns + 1 ELSE signIns
     /\ unannounced' = (signs \/ unannounced)
  /\ token' = k /\ rejectedToken' = rejectedToken
  /\ arg' = [arg EXCEPT ![t] = k] /\ argId' = [argId EXCEPT ![t] = id]
  /\ calls' = calls + 1 /\ told' = {}
  /\ supplies' = [j \in Tokens |-> supplies[j] + (IF j = k THEN 1 ELSE 0)]
  /\ Goto(t, IF id = NoId THEN "enqueue" ELSE "adoptId")
  /\ UNCHANGED <<ids, jobs, phase, taken, expired, reports, announcements,
                  webhooks>>

\* The section of _authMutex.
Supply(t, k, id) ==
  /\ phase = "running" /\ t \in Suppliers /\ At(t, "idle")
  /\ calls < MaxSupplies
  /\ LET signs == token = NoToken /\ k # NoToken IN
     /\ signsIn' = [signsIn EXCEPT ![t] = signs]
     /\ signIns' = IF signs THEN signIns + 1 ELSE signIns
     /\ unannounced' = (signs \/ unannounced)
  /\ token' = k /\ rejectedToken' = NoToken
  /\ arg' = [arg EXCEPT ![t] = k] /\ argId' = [argId EXCEPT ![t] = id]
  /\ calls' = calls + 1 /\ told' = {}
  /\ supplies' = [j \in Tokens |-> supplies[j] + (IF j = k THEN 1 ELSE 0)]
  /\ Goto(t, IF id = NoId THEN "enqueue" ELSE "adoptId")
  /\ UNCHANGED <<ids, jobs, phase, taken, expired, reports, announcements,
                  webhooks>>

\* The section of _installMutex.
AdoptId(t) ==
  /\ At(t, "adoptId")
  /\ installedAppId' = argId[t]
  /\ Goto(t, "enqueue")
  /\ UNCHANGED <<tokens, stored, jobs, phase, taken, args, world>>

\* Variant of Enqueue that announces refreshed tokens too.
EnqueueAnnounces(t) ==
  /\ At(t, "enqueue")
  /\ persistJob' = IF argId[t] = NoId THEN persistJob ELSE argId[t]
  /\ flushJob' = (flushJob \/ arg[t] # NoToken)
  /\ announceJob' = (arg[t] # NoToken )
  /\ Return(t)
  /\ UNCHANGED <<tokens, ids, rejectedJob, phase, taken, world>>

\* Variant of Enqueue in which a refresh cancels the announcement.
EnqueueOverwrites(t) ==
  /\ At(t, "enqueue")
  /\ persistJob' = IF argId[t] = NoId THEN persistJob ELSE argId[t]
  /\ flushJob' = (flushJob \/ arg[t] # NoToken)
  /\ announceJob' = signsIn[t]
  /\ Return(t)
  /\ UNCHANGED <<tokens, ids, rejectedJob, phase, taken, world>>

\* The section of _workerMutex, and the notification of the worker.
Enqueue(t) ==
  /\ At(t, "enqueue")
  /\ persistJob' = IF argId[t] = NoId THEN persistJob ELSE argId[t]
  /\ flushJob' = (flushJob \/ arg[t] # NoToken)
  /\ announceJob' = (arg[t] # NoToken /\ (announceJob \/ signsIn[t]))
  /\ Return(t)
  /\ UNCHANGED <<tokens, ids, rejectedJob, phase, taken, world>>

-----------------------------------------------------------------------------
(* Requests                                                                 *)

Denied(k) == k \in expired \cup {NoToken}

\* An API call checks isAuthenticated() ...
Call(t) ==
  /\ phase = "running" /\ t \in Callers /\ At(t, "idle")
  /\ token # NoToken
  /\ Goto(t, "snapshot")
  /\ UNCHANGED <<client, args, world>>

\* ... and sendWithAuth() sends the token that is current then, if any.
Snapshot(t) ==
  /\ At(t, "snapshot")
  /\ arg' = [arg EXCEPT ![t] = token]
  /\ Goto(t, "request")
  /\ UNCHANGED <<client, argId, signsIn, world>>

\* The answer.  After a 401 the request is sent again, once, if another token
\* has arrived since; otherwise the token is reported.
Answer(t) ==
  /\ At(t, "request")
  /\ \/ ~Denied(arg[t]) /\ Return(t)
     \/ /\ Denied(arg[t]) /\ token \notin {NoToken, arg[t]}
        /\ arg' = [arg EXCEPT ![t] = token] /\ UNCHANGED <<argId, signsIn>>
        /\ Goto(t, "lastRequest")
     \/ /\ Denied(arg[t]) /\ token \in {NoToken, arg[t]}
        /\ Goto(t, "report") /\ UNCHANGED args
  /\ UNCHANGED <<client, world>>

\* subscribeTo() and the other subscription calls send their request once.
\* With the installation's own token, which is never reported, they change
\* nothing here.
Subscribe(t) ==
  /\ \/ /\ installedAppId # NoId /\ token # NoToken
        /\ arg' = [arg EXCEPT ![t] = token] /\ UNCHANGED <<argId, signsIn>>
        /\ Goto(t, "lastRequest")
     \/ Return(t)
  /\ UNCHANGED <<client, world>>

CallSubscribe(t) ==
  /\ phase = "running" /\ t \in Callers /\ At(t, "idle")
  /\ Subscribe(t)

\* The answer to a request that is not sent again.
LastAnswer(t) ==
  /\ At(t, "lastRequest")
  /\ \/ ~Denied(arg[t]) /\ Return(t)
     \/ Denied(arg[t]) /\ Goto(t, "report") /\ UNCHANGED args
  /\ UNCHANGED <<client, world>>

\* Variant of Report without "already reported".
ReportAgain(t) ==
  /\ At(t, "report")
  /\ IF arg[t] # NoToken /\ token = arg[t]
     THEN /\ rejectedToken' = arg[t]
          /\ Goto(t, "queueReport") /\ UNCHANGED args
     ELSE rejectedToken' = rejectedToken /\ Return(t)
  /\ UNCHANGED <<token, ids, jobs, phase, taken, world>>

\* Variant of Report without "already replaced".
ReportStale(t) ==
  /\ At(t, "report")
  /\ IF arg[t] \notin {NoToken, rejectedToken}
     THEN /\ rejectedToken' = arg[t]
          /\ Goto(t, "queueReport") /\ UNCHANGED args
     ELSE rejectedToken' = rejectedToken /\ Return(t)
  /\ UNCHANGED <<token, ids, jobs, phase, taken, world>>

\* reportRejectedToken(), the section of _authMutex.
Report(t) ==
  /\ At(t, "report")
  /\ IF arg[t] \notin {NoToken, rejectedToken} /\ token = arg[t]
     THEN /\ rejectedToken' = arg[t]
          /\ Goto(t, "queueReport") /\ UNCHANGED args
     ELSE rejectedToken' = rejectedToken /\ Return(t)
  /\ UNCHANGED <<token, ids, jobs, phase, taken, world>>

\* Its section of _workerMutex, and the notification of the worker.
QueueReport(t) ==
  /\ At(t, "queueReport")
  /\ rejectedJob' = [rejectedJob EXCEPT ![arg[t]] = @ + 1]
  /\ Return(t)
  /\ UNCHANGED <<tokens, ids, flushJob, announceJob, persistJob, phase, taken,
                 world>>

-----------------------------------------------------------------------------
(* workerLoop()                                                             *)

\* Variant of Take that does not wait for the stop.
TakeJobsOnly ==
  /\ At(Worker, "wait")
  /\ \/ flushJob \/ announceJob \/ persistJob # NoId \/ rejectedJob # None
  /\ flush' = flushJob /\ announce' = announceJob /\ persist' = persistJob
  /\ toReport' = rejectedJob
  /\ stopping' = (phase \notin {"running", "stopServer"})
  /\ flushJob' = FALSE /\ announceJob' = FALSE /\ persistJob' = NoId
  /\ rejectedJob' = None
  /\ Goto(Worker, "persist")
  /\ UNCHANGED <<tokens, ids, phase, args, world>>

\* Waiting for a job, or the stop; then every queued job is taken at once.
Take ==
  /\ At(Worker, "wait")
  /\ \/ phase \notin {"running", "stopServer"}
     \/ flushJob \/ announceJob \/ persistJob # NoId \/ rejectedJob # None
  /\ flush' = flushJob /\ announce' = announceJob /\ persist' = persistJob
  /\ toReport' = rejectedJob
  /\ stopping' = (phase \notin {"running", "stopServer"})
  /\ flushJob' = FALSE /\ announceJob' = FALSE /\ persistJob' = NoId
  /\ rejectedJob' = None
  /\ Goto(Worker, "persist")
  /\ UNCHANGED <<tokens, ids, phase, args, world>>

\* Variant of Persist that returns first when stopping.
PersistUnlessStopping ==
  /\ At(Worker, "persist")
  /\ stored' = IF persist = NoId \/ stopping THEN stored ELSE persist
  /\ persist' = NoId
  /\ Goto(Worker, IF stopping THEN "done" ELSE "reports")
  /\ UNCHANGED <<tokens, installedAppId, jobs, phase, flush, announce,
                 toReport, stopping, args, world>>

\* The id is persisted, also when stopping.
Persist ==
  /\ At(Worker, "persist")
  /\ stored' = IF persist = NoId THEN stored ELSE persist
  /\ persist' = NoId
  /\ Goto(Worker, IF stopping THEN "done" ELSE "reports")
  /\ UNCHANGED <<tokens, installedAppId, jobs, phase, flush, announce,
                 toReport, stopping, args, world>>

\* Variant of NextReport without the check of the current token.
NextReportAny(k) ==
  /\ At(Worker, "reports") /\ toReport[k] > 0
  /\ toReport' = [toReport EXCEPT ![k] = @ - 1]
  /\ arg' = [arg EXCEPT ![Worker] = k]
  /\ Goto(Worker, "notify")
  /\ UNCHANGED <<tokens, ids, jobs, phase, flush, announce, persist, stopping,
                  argId, signsIn, world>>

\* The next report, dropped when its token is no longer the current one.
NextReport(k) ==
  /\ At(Worker, "reports") /\ toReport[k] > 0
  /\ toReport' = [toReport EXCEPT ![k] = @ - 1]
  /\ IF k = token
     THEN arg' = [arg EXCEPT ![Worker] = k] /\ Goto(Worker, "notify")
     ELSE UNCHANGED <<arg, pc>>
  /\ UNCHANGED <<tokens, ids, jobs, phase, flush, announce, persist, stopping,
                 argId, signsIn, world>>

\* accessTokenRejected fires.  A handler that calls setAccessToken() acts as
\* a caller does while the worker is here.
NotifyRejected ==
  /\ At(Worker, "notify")
  /\ reports' = [reports EXCEPT ![arg[Worker]] = @ + 1]
  /\ told' = told \cup {arg[Worker]}
  /\ arg' = [arg EXCEPT ![Worker] = NoToken]
  /\ Goto(Worker, "reports")
  /\ UNCHANGED <<client, argId, signsIn, expired, supplied, announcements,
                 unannounced, webhooks>>

\* All reported: flushPendingSubscriptions(), if a flush is due and a token
\* is there.
Flush ==
  /\ At(Worker, "reports") /\ toReport = None
  /\ \/ flush /\ token # NoToken /\ Subscribe(Worker)
     \/ /\ ~(flush /\ token # NoToken)
        /\ Return(Worker) /\ UNCHANGED <<client, world>>

\* The end of a round, whose locals are gone.
NextRound ==
  /\ flush' = FALSE /\ announce' = FALSE
  /\ UNCHANGED <<persist, toReport, stopping>>
  /\ Goto(Worker, "wait")

\* Announce the sign-in if a token is still there ...
Announce ==
  /\ At(Worker, "announce")
  /\ IF announce /\ token # NoToken
     THEN Goto(Worker, "complete") /\ UNCHANGED taken
     ELSE NextRound
  /\ UNCHANGED <<tokens, ids, jobs, phase, args, world>>

\* ... by completeAuthentication(), which fires authenticationCompleted.
Complete ==
  /\ At(Worker, "complete")
  /\ announcements' = announcements + 1 /\ unannounced' = FALSE
  /\ NextRound
  /\ UNCHANGED <<tokens, ids, jobs, phase, args, expired, supplied, reports,
                 told, webhooks>>

-----------------------------------------------------------------------------
(* Webhooks, on the server thread                                           *)

\* INSTALL: the id in memory ...
Install(id) ==
  /\ phase = "running" /\ At(Server, "idle") /\ webhooks < MaxWebhooks
  /\ installedAppId' = id /\ argId' = [argId EXCEPT ![Server] = id]
  /\ webhooks' = webhooks + 1
  /\ Goto(Server, "store")
  /\ UNCHANGED <<tokens, stored, jobs, phase, taken, arg, signsIn, expired,
                  supplied, fired>>

\* ... then in the storage ...
Store ==
  /\ At(Server, "store")
  /\ stored' = argId[Server]
  /\ Goto(Server, "flush")
  /\ UNCHANGED <<tokens, installedAppId, jobs, phase, taken, args, world>>

\* ... then flushPendingSubscriptions().
InstallFlush == At(Server, "flush") /\ Subscribe(Server)

\* UNINSTALL clears the id, then the token, then the storage.
Uninstall ==
  /\ phase = "running" /\ At(Server, "idle") /\ webhooks < MaxWebhooks
  /\ installedAppId' = NoId
  /\ webhooks' = webhooks + 1
  /\ Goto(Server, "clearToken")
  /\ UNCHANGED <<tokens, stored, jobs, phase, taken, args, expired, supplied,
                  fired>>

ClearToken ==
  /\ At(Server, "clearToken")
  /\ token' = NoToken
  /\ Goto(Server, "removeId")
  /\ UNCHANGED <<rejectedToken, ids, jobs, phase, taken, args, world>>

RemoveId ==
  /\ At(Server, "removeId")
  /\ stored' = NoId
  /\ Return(Server)
  /\ UNCHANGED <<tokens, installedAppId, jobs, phase, taken, world>>

-----------------------------------------------------------------------------
(* ~Client(), and the cloud                                                 *)

\* The application destroys the Client when no call of its own is running:
\* the server is stopped, then the worker.
Destroy ==
  /\ phase = "running" /\ \A t \in Callers : At(t, "idle")
  /\ phase' = "stopServer"
  /\ UNCHANGED <<tokens, ids, jobs, taken, pc, args, world>>

StopServer ==
  /\ phase = "stopServer" /\ At(Server, "idle")
  /\ phase' = "stopWorker"
  /\ UNCHANGED <<tokens, ids, jobs, taken, pc, args, world>>

JoinWorker ==
  /\ phase = "stopWorker" /\ At(Worker, "done")
  /\ phase' = "gone"
  /\ UNCHANGED <<tokens, ids, jobs, taken, pc, args, world>>

\* The API stops accepting a token, for good.
Expire(k) ==
  /\ k \notin expired
  /\ expired' = expired \cup {k}
  /\ UNCHANGED <<client, pc, args, supplied, fired, webhooks>>

-----------------------------------------------------------------------------
(* The system                                                               *)

Requests(t) ==
  \/ Snapshot(t) \/ Answer(t) \/ LastAnswer(t) \/ Report(t) \/ QueueReport(t)

CallerSteps(t) == AdoptId(t) \/ Enqueue(t) \/ Requests(t)

WorkerSteps ==
  \/ Take \/ Persist \/ NotifyRejected \/ Flush \/ Announce \/ Complete
  \/ (\E k \in Tokens : NextReport(k)) \/ Requests(Worker)

ServerSteps ==
  Store \/ InstallFlush \/ ClearToken \/ RemoveId \/ Requests(Server)

Destruction == StopServer \/ JoinWorker

Environment ==
  \/ \E t \in Callers : Call(t) \/ CallSubscribe(t)
  \/ \E t \in Suppliers, k \in Tokens \cup {NoToken} :
       \E id \in AppIds \cup {NoId} : Supply(t, k, id)
  \/ \E id \in AppIds : Install(id)
  \/ Uninstall \/ Destroy
  \/ \E k \in Tokens : Expire(k)

Next ==
  \/ Environment \/ WorkerSteps \/ ServerSteps \/ Destruction
  \/ \E t \in Callers : CallerSteps(t)

\* Threads that can run do; requests are answered or time out.  Nobody has to
\* call the Client, expire a token or destroy anything.
Fairness ==
  /\ WF_vars(WorkerSteps) /\ WF_vars(ServerSteps) /\ WF_vars(Destruction)
  /\ \A t \in Callers : WF_vars(CallerSteps(t))

Spec == Init /\ [][Next]_vars
FairSpec == Spec /\ Fairness

-----------------------------------------------------------------------------
(* Properties                                                               *)

Labels == {"idle", "adoptId", "enqueue", "snapshot", "request", "lastRequest",
           "report", "queueReport", "store", "flush", "clearToken", "removeId",
           "wait", "persist", "reports", "notify", "announce", "complete",
           "done"}

Counts == [Tokens -> 0 .. MaxSupplies]

TypeClient ==
  /\ token \in Tokens \cup {NoToken} /\ rejectedToken \in Tokens \cup {NoToken}
  /\ installedAppId \in AppIds \cup {NoId} /\ stored \in AppIds \cup {NoId}
  /\ flushJob \in BOOLEAN /\ announceJob \in BOOLEAN
  /\ persistJob \in AppIds \cup {NoId} /\ rejectedJob \in Counts
  /\ phase \in {"running", "stopServer", "stopWorker", "gone"}
  /\ flush \in BOOLEAN /\ announce \in BOOLEAN /\ stopping \in BOOLEAN
  /\ persist \in AppIds \cup {NoId} /\ toReport \in Counts

TypeThreads ==
  /\ pc \in [Threads -> Labels]
  /\ arg \in [Threads -> Tokens \cup {NoToken}]
  /\ argId \in [Threads -> AppIds \cup {NoId}]
  /\ signsIn \in [Threads -> BOOLEAN]

TypeWorld ==
  /\ expired \subseteq Tokens /\ told \subseteq Tokens
  /\ calls \in 0 .. MaxSupplies /\ signIns \in 0 .. calls
  /\ supplies \in Counts /\ reports \in Counts
  /\ announcements \in 0 .. MaxSupplies /\ unannounced \in BOOLEAN
  /\ webhooks \in 0 .. MaxWebhooks

\* The types, with the bounds: no queue of reports outgrows the supplies.
TypeOK == TypeClient /\ TypeThreads /\ TypeWorld

\* accessTokenRejected fires at most once each time a token is supplied,
\* however many requests it fails at once and however late the worker is.
ReportedOncePerSupply == \A k \in Tokens : reports[k] <= supplies[k]

\* authenticationCompleted fires at most once per sign-in, not for refreshes.
AnnouncedOncePerSignIn == announcements <= signIns

\* The token recorded as reported is the current one, so that a report can
\* never silence the token that replaced it.
RejectedIsCurrent ==
  rejectedToken # NoToken /\ token # NoToken => rejectedToken = token

\* What the worker and its queue do implements TokenContract.
Contract == INSTANCE TokenContract WITH
  reporting <- IF At(Worker, "notify") THEN arg[Worker] ELSE NoToken,
  announcing <- At(Worker, "complete")

ImplementsContract == Contract!Spec

\* An id supplied just before the destruction is not lost: with one supplier
\* and no webhook, the storage ends with the id the Client had (workerLoop()).
NoIdLost == phase = "gone" => stored = installedAppId

\* A token recorded as rejected is reported to the application, unless it is
\* replaced or the Client destroyed: reportRejectedToken() marks it before
\* the report is queued, and the mark silences every later 401.
RejectionTold ==
  \A k \in Tokens :
    (token = k /\ rejectedToken = k)
      ~> (k \in told \/ token # k \/ phase # "running")

\* A sign-in is announced, unless the Client is signed out or destroyed.
\* client.h of setAccessToken(): "when this token signs the Client in [...]
\* authenticationCompleted fires with success".
SignInAnnounced ==
  unannounced ~> (~unannounced \/ token = NoToken \/ phase # "running")

\* ~Client() gets past the worker, whatever is queued and whoever calls.
DestructionEnds == (phase = "stopServer") ~> (phase = "gone")

Quiet ==
  /\ persistJob = NoId /\ At(Worker, "wait")
  /\ \A t \in Threads \ {Worker} : At(t, "idle")

\* webhook.cpp on UNINSTALL: "The installation [...] is gone: forget the
\* persisted state too".  Once everything is quiet, no id is left in the
\* storage for the next run when there is none in memory.
UninstallForgotten == Quiet /\ installedAppId = NoId => stored = NoId
=============================================================================
