------------------------ MODULE ExternalTokensProofs ------------------------
(***************************************************************************)
(* Theorems about ExternalTokens, for every set of tokens, ids and threads *)
(* and every value of the bounds.  Each of the two events is counted: what *)
(* has fired, and every place a notification still to fire can be in, sum  *)
(* up to no more than the calls of setAccessToken() that earned it.  Then, *)
(* for one supplier: an id handed in is stored in the end, and what has to *)
(* be reported or announced is on its way.                                 *)
(***************************************************************************)
EXTENDS ExternalTokens, FiniteSetTheorems, TLAPS

One(b) == IF b THEN 1 ELSE 0

\* A thread reports, or queues a report of, a token and not "".
HasToken ==
  \A t \in Threads : pc[t] \in {"notify", "queueReport"} => arg[t] \in Tokens

\* TypeOK without its bounds, which follow from the counts below.
NatCounts == [Tokens -> Nat]

Typed ==
  /\ token \in Tokens \cup {NoToken} /\ rejectedToken \in Tokens \cup {NoToken}
  /\ installedAppId \in AppIds \cup {NoId} /\ stored \in AppIds \cup {NoId}
  /\ flushJob \in BOOLEAN /\ announceJob \in BOOLEAN
  /\ persistJob \in AppIds \cup {NoId} /\ rejectedJob \in NatCounts
  /\ phase \in {"running", "stopServer", "stopWorker", "gone"}
  /\ flush \in BOOLEAN /\ announce \in BOOLEAN /\ stopping \in BOOLEAN
  /\ persist \in AppIds \cup {NoId} /\ toReport \in NatCounts
  /\ TypeThreads
  /\ expired \subseteq Tokens /\ told \subseteq Tokens
  /\ calls \in 0 .. MaxSupplies /\ signIns \in 0 .. calls
  /\ supplies \in [Tokens -> 0 .. calls] /\ reports \in NatCounts
  /\ announcements \in Nat /\ unannounced \in BOOLEAN
  /\ webhooks \in 0 .. MaxWebhooks
  /\ HasToken

\* What the worker's locals hold at each point of its loop.
WorkerLocals ==
  /\ At(Worker, "wait") => ~announce
  /\ At(Worker, "complete") => announce
  /\ pc[Worker] \notin {"persist", "reports", "notify", "done"} => toReport = None

Queueing(k) == {t \in Threads : At(t, "queueReport") /\ arg[t] = k}
Signing == {t \in Threads : signsIn[t]}

\* The reports of k that have fired, are on their way, or may still be started.
AllReports(k) ==
  reports[k] + rejectedJob[k] + toReport[k] + Cardinality(Queueing(k))
    + One(At(Worker, "notify") /\ arg[Worker] = k)
    + One(token = k /\ rejectedToken # k)

ReportsCounted == \A k \in Tokens : AllReports(k) <= supplies[k]

\* The announcements that have fired or are on their way.
SignInsCounted ==
  announcements + One(announceJob) + One(announce) + Cardinality(Signing)
    <= signIns

IInv ==
  /\ Typed /\ WorkerLocals /\ RejectedIsCurrent
  /\ ReportsCounted /\ SignInsCounted

USE TokensAssumption, ThreadsAssumption, BoundsAssumption DEF Threads

-----------------------------------------------------------------------------
(* Counting threads                                                         *)

\* There are finitely many threads.
LEMMA ThreadsFinite == IsFiniteSet(Threads)
<1>1. IsFiniteSet(Callers \cup {Server})
  BY FS_AddElement
<1>2. IsFiniteSet((Callers \cup {Server}) \cup {Worker})
  BY <1>1, FS_AddElement
<1>3. Threads = (Callers \cup {Server}) \cup {Worker}
  OBVIOUS
<1> QED
  BY <1>2, <1>3

\* A set of threads is finite, and a subset of it is no larger.
LEMMA FewerThreads ==
  ASSUME NEW S \in SUBSET Threads, NEW T \in SUBSET S
  PROVE  /\ Cardinality(T) \in Nat /\ Cardinality(S) \in Nat
         /\ Cardinality(T) <= Cardinality(S)
BY ThreadsFinite, FS_Subset, FS_CardinalityType

\* One more thread.
LEMMA OneMoreThread ==
  ASSUME NEW S \in SUBSET Threads, NEW t \in Threads, t \notin S
  PROVE  Cardinality(S \cup {t}) = Cardinality(S) + 1
BY ThreadsFinite, FS_Subset, FS_AddElement

\* One thread less.
LEMMA OneThreadLess ==
  ASSUME NEW S \in SUBSET Threads, NEW t \in S
  PROVE  Cardinality(S \ {t}) = Cardinality(S) - 1
BY ThreadsFinite, FS_Subset, FS_RemoveElement

-----------------------------------------------------------------------------
(* Types                                                                    *)

\* The constructor leaves every member with its type.
LEMMA TypedInit == Init => Typed
<1> SUFFICES ASSUME Init PROVE Typed
  OBVIOUS
<1>1. None \in NatCounts /\ None \in [Tokens -> 0 .. 0]
  BY DEF None, NatCounts
<1>2. TypeThreads /\ HasToken
  BY DEF Init, TypeThreads, Labels, HasToken
<1>3. supplies \in [Tokens -> 0 .. calls] /\ calls \in 0 .. MaxSupplies
  BY <1>1 DEF Init
<1>4. /\ reports \in NatCounts /\ rejectedJob \in NatCounts
      /\ toReport \in NatCounts
  BY <1>1 DEF Init
<1>5. /\ flushJob \in BOOLEAN /\ announceJob \in BOOLEAN /\ flush \in BOOLEAN
      /\ announce \in BOOLEAN /\ stopping \in BOOLEAN
      /\ unannounced \in BOOLEAN
  BY DEF Init
<1>6. /\ token \in Tokens \cup {NoToken}
      /\ rejectedToken \in Tokens \cup {NoToken}
      /\ installedAppId \in AppIds \cup {NoId} /\ stored \in AppIds \cup {NoId}
      /\ persistJob \in AppIds \cup {NoId} /\ persist \in AppIds \cup {NoId}
      /\ expired \subseteq Tokens /\ told \subseteq Tokens
      /\ phase = "running"
  BY DEF Init
<1>7. signIns \in 0 .. calls /\ announcements \in Nat /\ webhooks \in 0 .. MaxWebhooks
  BY DEF Init
<1> QED
  BY <1>2, <1>3, <1>4, <1>5, <1>6, <1>7 DEF Typed

\* The end of a call that changes nothing else keeps the types.
LEMMA TypedReturn ==
  ASSUME Typed, NEW t \in Threads, Return(t), UNCHANGED <<client, world>>
  PROVE  Typed'
<1>1. TypeThreads' /\ HasToken'
  BY DEF Typed, TypeThreads, HasToken, Return, Goto, Resume, Labels
<1> QED
  BY <1>1 DEF Typed, client, tokens, ids, jobs, taken, supplied, fired, world

\* So does a step of a request that goes on with a token.
LEMMA TypedGoto ==
  ASSUME Typed, NEW t \in Threads, NEW label \in Labels, Goto(t, label),
         label \notin {"notify", "queueReport"},
         NEW k \in Tokens \cup {NoToken},
         arg' = [arg EXCEPT ![t] = k], UNCHANGED <<client, argId, signsIn, world>>
  PROVE  Typed'
<1>1. TypeThreads' /\ HasToken'
  BY DEF Typed, TypeThreads, HasToken, Goto
<1> QED
  BY <1>1 DEF Typed, client, tokens, ids, jobs, taken, supplied, fired, world

\* Every step keeps the types.
LEMMA TypedStep == Typed /\ [Next]_vars => Typed'
<1> SUFFICES ASSUME Typed, [Next]_vars PROVE Typed'
  OBVIOUS
<1>0. ASSUME NEW t \in Threads, Answer(t) PROVE Typed'
  <2>1. arg = [arg EXCEPT ![t] = arg[t]] /\ arg[t] \in Tokens \cup {NoToken}
    BY DEF Typed, TypeThreads
  <2>2. "lastRequest" \in Labels /\ "report" \in Labels
    BY DEF Labels
  <2>3. CASE Return(t)
    BY <1>0, <2>3, TypedReturn DEF Answer
  <2>4. CASE /\ Goto(t, "lastRequest") /\ UNCHANGED <<argId, signsIn>>
             /\ arg' = [arg EXCEPT ![t] = token]
    <3>1. token \in Tokens \cup {NoToken}
      BY DEF Typed
    <3> QED
      BY <1>0, <2>2, <2>4, <3>1, TypedGoto DEF Answer
  <2>5. CASE Goto(t, "report") /\ UNCHANGED args
    BY <1>0, <2>1, <2>2, <2>5, TypedGoto DEF Answer, args
  <2> QED
    BY <1>0, <2>3, <2>4, <2>5 DEF Answer
<1>2. ASSUME NEW t \in Threads, Subscribe(t) PROVE Typed'
  <2>1. CASE Return(t)
    BY <1>2, <2>1, TypedReturn DEF Subscribe
  <2>2. CASE /\ Goto(t, "lastRequest") /\ UNCHANGED <<argId, signsIn>>
             /\ arg' = [arg EXCEPT ![t] = token]
    <3>1. token \in Tokens \cup {NoToken} /\ "lastRequest" \in Labels
      BY DEF Typed, Labels
    <3> QED
      BY <1>2, <2>2, <3>1, TypedGoto DEF Subscribe
  <2> QED
    BY <1>2, <2>1, <2>2 DEF Subscribe
<1> USE DEF Typed, TypeThreads, HasToken, NatCounts, Goto, At, Return, vars,
   client,
    tokens, ids, jobs, taken, args, supplied, fired, world
<1>1. ASSUME NEW t \in Threads, Requests(t) PROVE Typed'
  <2>1. CASE Snapshot(t)
    BY <2>1 DEF Snapshot, Labels
  <2>2. CASE Answer(t)
    BY <1>0, <2>2
  <2>3. CASE LastAnswer(t)
    <3>1. CASE Return(t) /\ UNCHANGED <<client, world>>
      BY <3>1, TypedReturn
    <3>2. CASE Goto(t, "report") /\ UNCHANGED <<client, args, world>>
      BY <3>2 DEF Labels
    <3> QED
      BY <2>3, <3>1, <3>2 DEF LastAnswer
  <2>4. CASE Report(t)
    <3>1. CASE Return(t) /\ UNCHANGED <<client, world>>
      BY <3>1, TypedReturn
    <3>2. CASE /\ arg[t] # NoToken /\ rejectedToken' = arg[t]
               /\ Goto(t, "queueReport")
               /\ UNCHANGED <<token, ids, jobs, phase, taken, args, world>>
      BY <3>2 DEF Labels
    <3> QED
      BY <2>4, <3>1, <3>2 DEF Report
  <2>5. CASE QueueReport(t)
    BY <2>5 DEF QueueReport, Resume, Labels
  <2> QED
    BY <1>1, <2>1, <2>2, <2>3, <2>4, <2>5 DEF Requests
<1>3. ASSUME NEW t \in Callers, CallerSteps(t) PROVE Typed'
  <2>1. CASE AdoptId(t)
    BY <2>1 DEF AdoptId, Labels
  <2>2. CASE Enqueue(t)
    BY <2>2 DEF Enqueue, Resume, Labels
  <2> QED
    BY <1>1, <1>3, <2>1, <2>2 DEF CallerSteps
<1>4. CASE WorkerSteps
  <2>1. CASE Take
    <3>1. None \in NatCounts
      BY DEF None
    <3>2. /\ flush' \in BOOLEAN /\ announce' \in BOOLEAN /\ stopping' \in BOOLEAN
          /\ flushJob' \in BOOLEAN /\ announceJob' \in BOOLEAN
      BY <2>1 DEF Take
    <3>3. /\ persist' \in AppIds \cup {NoId} /\ persistJob' \in AppIds \cup {NoId}
          /\ toReport' \in NatCounts /\ rejectedJob' \in NatCounts
      BY <2>1, <3>1 DEF Take
    <3>4. pc' \in [Threads -> Labels]
      BY <2>1 DEF Take, Labels
    <3>5. /\ UNCHANGED <<token, rejectedToken, installedAppId, stored, phase>>
          /\ UNCHANGED <<arg, argId, signsIn>>
      BY <2>1 DEF Take
    <3>6. /\ UNCHANGED <<expired, told, calls, signIns, supplies, reports>>
          /\ UNCHANGED <<announcements, unannounced, webhooks>>
      BY <2>1 DEF Take
    <3>7. TypeThreads'
      BY <3>4, <3>5
    <3>8. HasToken'
      BY <2>1, <3>5 DEF Take
    <3> QED
      BY <3>2, <3>3, <3>5, <3>6, <3>7, <3>8
  <2>2. CASE Persist
    <3>1. stored' \in AppIds \cup {NoId} /\ persist' \in AppIds \cup {NoId}
      BY <2>2 DEF Persist
    <3>2. pc' \in [Threads -> Labels]
      BY <2>2 DEF Persist, Labels
    <3> QED
      BY <2>2, <3>1, <3>2 DEF Persist
  <2>3. CASE NotifyRejected
    BY <2>3 DEF NotifyRejected, Labels
  <2>4. CASE Flush
    <3>1. CASE Subscribe(Worker)
      BY <1>2, <3>1
    <3>2. CASE Return(Worker) /\ UNCHANGED <<client, world>>
      BY <3>2, TypedReturn
    <3> QED
      BY <2>4, <3>1, <3>2 DEF Flush
  <2>5. CASE Announce
    <3>1. pc' \in [Threads -> Labels] /\ HasToken'
      BY <2>5 DEF Announce, NextRound, Labels
    <3>2. taken' = taken \/ NextRound
      BY <2>5 DEF Announce
    <3>3. /\ flush' \in BOOLEAN /\ announce' \in BOOLEAN
          /\ UNCHANGED <<persist, toReport, stopping>>
      BY <3>2 DEF NextRound
    <3> QED
      BY <2>5, <3>1, <3>3 DEF Announce
  <2>7. CASE Complete
    <3>1. pc' \in [Threads -> Labels] /\ HasToken'
      BY <2>7 DEF Complete, NextRound, Labels
    <3>2. announcements' \in Nat
      BY <2>7 DEF Complete
    <3>3. unannounced' \in BOOLEAN /\ flush' \in BOOLEAN /\ announce' \in BOOLEAN
      BY <2>7 DEF Complete, NextRound
    <3> QED
      BY <2>7, <3>1, <3>2, <3>3 DEF Complete, NextRound
  <2>6. ASSUME NEW k \in Tokens, NextReport(k) PROVE Typed'
    BY <2>6 DEF NextReport, Labels
  <2> QED
    BY <1>1, <1>4, <2>1, <2>2, <2>3, <2>4, <2>5, <2>6, <2>7 DEF WorkerSteps
<1>5. CASE ServerSteps
  <2>1. CASE Store
    BY <2>1 DEF Store, Labels
  <2>2. CASE ClearToken
    BY <2>2 DEF ClearToken, Labels
  <2>3. CASE RemoveId
    BY <2>3 DEF RemoveId, Resume, Labels
  <2> QED
    BY <1>1, <1>2, <1>5, <2>1, <2>2, <2>3 DEF ServerSteps, InstallFlush
<1>6. CASE Environment
  <2>1. ASSUME NEW t \in Callers, Call(t) \/ CallSubscribe(t) PROVE Typed'
    BY <1>2, <2>1 DEF Call, CallSubscribe, Labels
  <2>2. ASSUME NEW t \in Suppliers, NEW k \in Tokens \cup {NoToken},
               NEW id \in AppIds \cup {NoId}, Supply(t, k, id)
        PROVE  Typed'
    <3>1. calls' \in 0 .. MaxSupplies /\ signIns' \in 0 .. calls'
      BY <2>2 DEF Supply
    <3>2. supplies' \in [Tokens -> 0 .. calls']
      BY <2>2 DEF Supply
    <3> QED
      BY <2>2, <3>1, <3>2 DEF Supply, Labels
  <2>3. ASSUME NEW id \in AppIds, Install(id) PROVE Typed'
    BY <2>3 DEF Install, Labels
  <2>4. CASE Uninstall
    BY <2>4 DEF Uninstall, Labels
  <2>5. CASE Destroy
    BY <2>5 DEF Destroy
  <2>6. ASSUME NEW k \in Tokens, Expire(k) PROVE Typed'
    BY <2>6 DEF Expire
  <2> QED
    BY <1>6, <2>1, <2>2, <2>3, <2>4, <2>5, <2>6 DEF Environment
<1>7. CASE Destruction
  BY <1>7 DEF Destruction, StopServer, JoinWorker
<1>8. CASE UNCHANGED vars
  BY <1>8
<1> QED
  BY <1>3, <1>4, <1>5, <1>6, <1>7, <1>8 DEF Next

-----------------------------------------------------------------------------
(* The counts                                                               *)

\* A step that starts no report and no announcement, and moves none on.
QuietReports ==
  /\ UNCHANGED <<reports, rejectedJob, toReport, supplies>>
  /\ \A k \in Tokens :
       /\ Queueing(k)' \subseteq Queueing(k)
       /\ (At(Worker, "notify") /\ arg[Worker] = k)'
            => At(Worker, "notify") /\ arg[Worker] = k
       /\ (token = k /\ rejectedToken # k)' => token = k /\ rejectedToken # k

QuietSignIns ==
  /\ UNCHANGED <<announcements, announceJob, announce, signIns>>
  /\ Signing' \subseteq Signing

\* The terms of the two sums are naturals.
LEMMA NatTerms ==
  ASSUME Typed
  PROVE  /\ announcements \in Nat /\ signIns \in Nat
         /\ \A b \in BOOLEAN : One(b) \in {0, 1}
         /\ Cardinality(Signing) \in Nat
         /\ \A k \in Tokens :
              /\ reports[k] \in Nat /\ rejectedJob[k] \in Nat
              /\ toReport[k] \in Nat /\ supplies[k] \in Nat
              /\ Cardinality(Queueing(k)) \in Nat
<1>1. Cardinality(Signing) \in Nat
  BY FewerThreads DEF Signing
<1>2. \A k \in Tokens : Cardinality(Queueing(k)) \in Nat
  BY FewerThreads DEF Queueing
<1>3. calls \in Nat
  BY DEF Typed
<1> QED
  BY <1>1, <1>2, <1>3 DEF Typed, NatCounts, One

\* A quiet step keeps the count of the reports ...
LEMMA ReportsKept ==
  ASSUME Typed, Typed', ReportsCounted, QuietReports
  PROVE  ReportsCounted'
<1> SUFFICES ASSUME NEW k \in Tokens PROVE (AllReports(k) <= supplies[k])'
  BY DEF ReportsCounted
<1>1. Cardinality(Queueing(k)') <= Cardinality(Queueing(k))
  BY FewerThreads DEF QuietReports, Queueing
<1>2. One(At(Worker, "notify") /\ arg[Worker] = k)'
        <= One(At(Worker, "notify") /\ arg[Worker] = k)
  BY DEF QuietReports, One
<1>3. One(token = k /\ rejectedToken # k)' <= One(token = k /\ rejectedToken # k)
  BY DEF QuietReports, One
<1>4. Cardinality(Queueing(k)') \in Nat
  BY FewerThreads DEF Queueing
<1>5. AllReports(k) <= supplies[k]
  BY DEF ReportsCounted
<1> DEFINE n == One(At(Worker, "notify") /\ arg[Worker] = k)
           m == One(token = k /\ rejectedToken # k)
<1>6. n \in Nat /\ m \in Nat /\ n' \in Nat /\ m' \in Nat
  BY DEF One
<1>7. AllReports(k)' = reports[k] + rejectedJob[k] + toReport[k]
                         + Cardinality(Queueing(k)') + n' + m'
  BY DEF AllReports, QuietReports
<1>8. supplies'[k] = supplies[k]
  BY DEF QuietReports
<1>9. n' <= n /\ m' <= m
  BY <1>2, <1>3
<1>10. AllReports(k) = reports[k] + rejectedJob[k] + toReport[k]
                         + Cardinality(Queueing(k)) + n + m
  BY DEF AllReports
<1> HIDE DEF n, m
<1> QED
  BY <1>1, <1>4, <1>5, <1>6, <1>7, <1>8, <1>9, <1>10, NatTerms

\* ... and that of the announcements.
LEMMA SignInsKept ==
  ASSUME Typed, Typed', SignInsCounted, QuietSignIns
  PROVE  SignInsCounted'
<1>1. Cardinality(Signing') <= Cardinality(Signing)
  BY FewerThreads DEF QuietSignIns, Signing
<1>2. Cardinality(Signing') \in Nat
  BY FewerThreads DEF Signing
<1>3. One(announceJob) \in Nat /\ One(announce) \in Nat
  BY DEF One
<1>4. One(announceJob)' = One(announceJob) /\ One(announce)' = One(announce)
  BY DEF One, QuietSignIns
<1> QED
  BY <1>1, <1>2, <1>3, <1>4, NatTerms DEF SignInsCounted, QuietSignIns

-----------------------------------------------------------------------------
(* The inductive invariant                                                  *)

\* What the counts need of a step of one thread: no other thread, and not the
\* worker's notification, is disturbed.
LEMMA QuietReturn ==
  ASSUME Typed, NEW t \in Threads, Return(t)
  PROVE  /\ Signing' \subseteq Signing
         /\ \A k \in Tokens :
              /\ Queueing(k)' \subseteq Queueing(k)
              /\ Queueing(k)' = Queueing(k) \ {t}
              /\ (At(Worker, "notify") /\ arg[Worker] = k)'
                   => At(Worker, "notify") /\ arg[Worker] = k
BY DEF Typed, TypeThreads, Return, Resume, Goto, At, Signing, Queueing

\* A request starts no announcement.
LEMMA RequestSignIns ==
  ASSUME Typed, NEW t \in Threads, Requests(t) \/ Subscribe(t)
  PROVE  QuietSignIns
<1>1. /\ UNCHANGED <<announcements, announceJob, announce, signIns>>
      /\ Return(t) \/ UNCHANGED signsIn
  BY DEF Requests, Subscribe, Snapshot, Answer, LastAnswer, Report,
     QueueReport,
     client, args, world, jobs, taken, supplied, fired
<1>2. UNCHANGED signsIn => Signing' = Signing
  BY DEF Signing
<1> QED
  BY <1>1, <1>2, QuietReturn DEF QuietSignIns

\* Only workerLoop() itself moves the worker's locals.
LEMMA WorkerLocalsStep ==
  Typed /\ WorkerLocals /\ [Next]_vars => WorkerLocals'
<1> SUFFICES ASSUME Typed, WorkerLocals, [Next]_vars PROVE WorkerLocals'
  OBVIOUS
<1> USE DEF WorkerLocals, At, Goto, vars, client, tokens, ids, jobs, taken,
   args,
    supplied, fired, world
<1>1. pc \in [Threads -> Labels]
  BY DEF Typed, TypeThreads
<1>2. ASSUME NEW t \in Threads, Requests(t) PROVE WorkerLocals'
  <2>1. /\ UNCHANGED taken
        /\ \E l \in {"request", "lastRequest", "report", "queueReport", Resume(t)} :
             Goto(t, l)
        /\ pc[t] \notin {"persist", "reports", "notify", "done"}
    BY <1>2 DEF Requests, Snapshot, Answer, LastAnswer, Report, QueueReport,
       Return
  <2> QED
    BY <1>1, <2>1 DEF Resume
<1>3. ASSUME NEW t \in Threads, Subscribe(t),
             t = Worker => toReport = None
      PROVE  WorkerLocals'
  BY <1>1, <1>3 DEF Subscribe, Return, Resume
<1>4. ASSUME NEW t \in Callers, CallerSteps(t) PROVE WorkerLocals'
  BY <1>1, <1>2, <1>4 DEF CallerSteps, AdoptId, Enqueue, Return
<1>5. CASE WorkerSteps
  <2>1. CASE Take \/ Persist \/ NotifyRejected
    BY <1>1, <2>1 DEF Take, Persist, NotifyRejected
  <2>2. CASE Flush
    BY <1>1, <1>3, <2>2 DEF Flush, Return, Resume
  <2>3. CASE Announce \/ Complete
    BY <1>1, <2>3 DEF Announce, Complete, NextRound
  <2>4. ASSUME NEW k \in Tokens, NextReport(k) PROVE WorkerLocals'
    BY <1>1, <2>4 DEF NextReport
  <2> QED
    BY <1>2, <1>5, <2>1, <2>2, <2>3, <2>4 DEF WorkerSteps
<1>6. CASE ServerSteps
  BY <1>1, <1>2, <1>3, <1>6
  DEF ServerSteps, Store, InstallFlush, ClearToken, RemoveId, Return
<1>7. CASE Environment
  BY <1>1, <1>3, <1>7
  DEF Environment, Call, CallSubscribe, Supply, Install, Uninstall, Destroy,
  Expire
<1>8. CASE Destruction \/ UNCHANGED vars
  BY <1>8 DEF Destruction, StopServer, JoinWorker
<1> QED
  BY <1>4, <1>5, <1>6, <1>7, <1>8 DEF Next

\* The mark of reportRejectedToken() is set on the current token, and goes
\* when another takes its place.
LEMMA RejectedStep ==
  Typed /\ RejectedIsCurrent /\ [Next]_vars => RejectedIsCurrent'
<1> SUFFICES ASSUME Typed, RejectedIsCurrent, [Next]_vars
             PROVE  RejectedIsCurrent'
  OBVIOUS
<1> USE DEF RejectedIsCurrent, vars, client, tokens, ids, jobs, taken, world
<1>1. ASSUME NEW t \in Threads, Requests(t) PROVE RejectedIsCurrent'
  BY <1>1 DEF Requests, Snapshot, Answer, LastAnswer, Report, QueueReport
<1>2. ASSUME NEW t \in Callers, CallerSteps(t) PROVE RejectedIsCurrent'
  BY <1>1, <1>2 DEF CallerSteps, AdoptId, Enqueue
<1>3. CASE WorkerSteps
  BY <1>1, <1>3 DEF WorkerSteps, Take, Persist, NotifyRejected, Flush,
     Subscribe,
     Announce, Complete, NextReport
<1>4. CASE ServerSteps
  BY <1>1, <1>4
  DEF ServerSteps, Store, InstallFlush, Subscribe, ClearToken, RemoveId
<1>5. CASE Environment
  BY <1>5 DEF Environment, Call, CallSubscribe, Subscribe, Supply, Install,
     Uninstall, Destroy, Expire
<1>6. CASE Destruction \/ UNCHANGED vars
  BY <1>6 DEF Destruction, StopServer, JoinWorker
<1> QED
  BY <1>2, <1>3, <1>4, <1>5, <1>6 DEF Next

\* Every announcement on its way goes back to a sign-in of its own.
LEMMA SignInsStep ==
  Typed /\ Typed' /\ WorkerLocals /\ SignInsCounted /\ [Next]_vars
    => SignInsCounted'
<1> SUFFICES ASSUME Typed, Typed', WorkerLocals, SignInsCounted, [Next]_vars
             PROVE  SignInsCounted'
  OBVIOUS
<1>0. /\ signsIn \in [Threads -> BOOLEAN] /\ announceJob \in BOOLEAN
      /\ announce \in BOOLEAN
  BY DEF Typed, TypeThreads
<1>1. ASSUME UNCHANGED <<announcements, announceJob, announce, signIns>>,
             \/ UNCHANGED signsIn
             \/ \E t \in Threads : Return(t)
      PROVE  SignInsCounted'
  <2>1. Signing' \subseteq Signing
    BY <1>1, QuietReturn DEF Signing
  <2> QED
    BY <1>1, <2>1, SignInsKept DEF QuietSignIns
<1>2. ASSUME NEW t \in Threads, Requests(t) \/ Subscribe(t)
      PROVE  SignInsCounted'
  BY <1>2, RequestSignIns, SignInsKept
<1>3. ASSUME NEW t \in Callers, Enqueue(t) PROVE SignInsCounted'
  <2>1. UNCHANGED <<announcements, announce, signIns>>
    BY <1>3 DEF Enqueue, taken, world, fired, supplied
  <2>2. Signing' = Signing \ {t}
    BY <1>0, <1>3 DEF Enqueue, Return, Signing
  <2>3. announceJob' => announceJob \/ signsIn[t]
    BY <1>3 DEF Enqueue
  <2>4. CASE signsIn[t]
    <3>1. Cardinality(Signing') = Cardinality(Signing) - 1
      BY <2>2, <2>4, OneThreadLess DEF Signing
    <3>2. One(announceJob)' <= One(announceJob) + 1
      BY DEF One
    <3>3. One(announceJob)' \in Nat /\ One(announceJob) \in Nat /\ One(announce) \in Nat
      BY DEF One
    <3>4. One(announce)' = One(announce)
      BY <2>1 DEF One
    <3> QED
      BY <2>1, <3>1, <3>2, <3>3, <3>4, NatTerms DEF SignInsCounted
  <2>5. CASE ~signsIn[t]
    <3>1. Signing' = Signing
      BY <2>2, <2>5 DEF Signing
    <3>2. One(announceJob)' <= One(announceJob)
      BY <2>3, <2>5 DEF One
    <3>3. One(announceJob)' \in Nat /\ One(announceJob) \in Nat /\ One(announce) \in Nat
      BY DEF One
    <3>4. One(announce)' = One(announce)
      BY <2>1 DEF One
    <3> QED
      BY <2>1, <3>1, <3>2, <3>3, <3>4, NatTerms DEF SignInsCounted
  <2> QED
    BY <2>4, <2>5
<1>4. CASE Take
  <2>1. ~announce /\ announceJob' = FALSE /\ announce' = announceJob
    BY <1>4 DEF Take, WorkerLocals
  <2>2. UNCHANGED <<announcements, signIns, signsIn>>
    BY <1>4 DEF Take, args, world, fired, supplied
  <2>3. Signing' = Signing
    BY <2>2 DEF Signing
  <2>4. One(announceJob)' = One(announce) /\ One(announce)' = One(announceJob)
    BY <2>1 DEF One
  <2>5. One(announceJob) \in Nat /\ One(announce) \in Nat
    BY DEF One
  <2> QED
    BY <2>2, <2>3, <2>4, <2>5, NatTerms DEF SignInsCounted
<1>5. CASE Announce
  <2>1. CASE UNCHANGED taken
    BY <1>1, <1>5, <2>1 DEF Announce, taken, jobs, args, world, fired, supplied
  <2>2. CASE NextRound
    <3>1. UNCHANGED <<announcements, announceJob, signIns, signsIn>>
      BY <1>5 DEF Announce, jobs, args, world, fired, supplied
    <3>2. One(announce)' = 0 /\ One(announceJob)' = One(announceJob)
      BY <2>2, <3>1 DEF NextRound, One
    <3>3. One(announceJob) \in Nat /\ One(announce) \in Nat
      BY DEF One
    <3>4. Signing' = Signing
      BY <3>1 DEF Signing
    <3> QED
      BY <3>1, <3>2, <3>3, <3>4, NatTerms DEF SignInsCounted
  <2> QED
    BY <1>5, <2>1, <2>2 DEF Announce
<1>6. CASE Complete
  <2>1. /\ UNCHANGED <<announceJob, signIns, signsIn>>
        /\ announcements' = announcements + 1
    BY <1>6 DEF Complete, jobs, args, supplied
  <2>2. announce /\ announce' = FALSE
    BY <1>6 DEF Complete, NextRound, WorkerLocals
  <2>3. One(announce) = 1 /\ One(announce)' = 0 /\ One(announceJob)' = One(announceJob)
    BY <2>1, <2>2 DEF One
  <2>4. One(announceJob) \in Nat /\ Signing' = Signing
    BY <2>1 DEF One, Signing
  <2> QED
    BY <2>1, <2>3, <2>4, NatTerms DEF SignInsCounted
<1>7. ASSUME NEW t \in Suppliers, NEW k \in Tokens \cup {NoToken},
             NEW id \in AppIds \cup {NoId}, Supply(t, k, id)
      PROVE  SignInsCounted'
  <2>1. UNCHANGED <<announcements, announceJob, announce>>
    BY <1>7 DEF Supply, jobs, taken
  <2>2. One(announceJob)' = One(announceJob) /\ One(announce)' = One(announce)
    BY <2>1 DEF One
  <2>3. One(announceJob) \in Nat /\ One(announce) \in Nat
    BY DEF One
  <2>4. CASE token = NoToken /\ k # NoToken
    <3>1. signIns' = signIns + 1 /\ Signing' = Signing \cup {t}
      BY <1>0, <1>7, <2>4 DEF Supply, Signing
    <3>2. Cardinality(Signing') \in {Cardinality(Signing), Cardinality(Signing) + 1}
      BY <3>1, OneMoreThread, Signing \cup {t} = Signing \/ t \notin Signing
         DEF Signing
    <3> QED
      BY <2>1, <2>2, <2>3, <3>1, <3>2, NatTerms DEF SignInsCounted
  <2>5. CASE ~(token = NoToken /\ k # NoToken)
    <3>1. signIns' = signIns /\ Signing' \subseteq Signing
      BY <1>0, <1>7, <2>5 DEF Supply, Signing
    <3> QED
      BY <2>1, <3>1, SignInsKept DEF QuietSignIns
  <2> QED
    BY <2>4, <2>5
<1>8. CASE WorkerSteps
  <2>1. CASE Persist \/ NotifyRejected \/ \E k \in Tokens : NextReport(k)
    BY <1>1, <2>1 DEF Persist, NotifyRejected, NextReport, client, jobs, taken,
       args,
       world, fired, supplied
  <2>2. CASE Flush
    BY <1>1, <1>2, <2>2 DEF Flush, client, jobs, taken, world, fired, supplied
  <2> QED
    BY <1>2, <1>4, <1>5, <1>6, <1>8, <2>1, <2>2 DEF WorkerSteps
<1>9. CASE ServerSteps
  <2>1. CASE Store \/ ClearToken \/ RemoveId
    BY <1>1, <2>1 DEF Store, ClearToken, RemoveId, jobs, taken, args, world,
       fired,
       supplied
  <2> QED
    BY <1>2, <1>9, <2>1 DEF ServerSteps, InstallFlush
<1>10. CASE Environment
  <2>1. ASSUME NEW t \in Callers, Call(t) PROVE SignInsCounted'
    BY <1>1, <2>1 DEF Call, client, jobs, taken, args, world, fired, supplied
  <2>2. ASSUME NEW id \in AppIds, Install(id) PROVE SignInsCounted'
    BY <1>1, <2>2 DEF Install, jobs, taken, fired, supplied
  <2>3. CASE Uninstall \/ Destroy \/ \E k \in Tokens : Expire(k)
    BY <1>1, <2>3 DEF Uninstall, Destroy, Expire, client, jobs, taken, args,
       world,
       fired, supplied
  <2> QED
    BY <1>2, <1>7, <1>10, <2>1, <2>2, <2>3 DEF Environment, CallSubscribe
<1>11. CASE Destruction \/ UNCHANGED vars
  BY <1>1, <1>11 DEF Destruction, StopServer, JoinWorker, vars, client, jobs,
     taken,
     args, world, fired, supplied
<1>12. ASSUME NEW t \in Callers, CallerSteps(t) PROVE SignInsCounted'
  <2>1. CASE AdoptId(t)
    BY <1>1, <2>1 DEF AdoptId, jobs, taken, args, world, fired, supplied
  <2> QED
    BY <1>2, <1>3, <1>12, <2>1 DEF CallerSteps
<1> QED
  BY <1>8, <1>9, <1>10, <1>11, <1>12 DEF Next

\* A step outside the path of the reports.
LEMMA ReportsElsewhere ==
  ASSUME Typed, Typed', ReportsCounted,
         UNCHANGED <<reports, rejectedJob, toReport, supplies>>,
         \/ UNCHANGED tokens
         \/ token' = NoToken /\ UNCHANGED rejectedToken,
         \/ UNCHANGED <<pc, arg>>
         \/ \E t \in Threads :
              \/ Return(t)
              \/ /\ \E label \in Labels \ {"notify", "queueReport"} : Goto(t, label)
                 /\ \/ UNCHANGED arg
                    \/ \E k \in Tokens \cup {NoToken} : arg' = [arg EXCEPT ![t] = k]
  PROVE  ReportsCounted'
<1>1. ASSUME NEW k \in Tokens
      PROVE  (token = k /\ rejectedToken # k)' => token = k /\ rejectedToken # k
  BY <1>1 DEF tokens
<1>2. ASSUME NEW k \in Tokens
      PROVE  /\ Queueing(k)' \subseteq Queueing(k)
             /\ (At(Worker, "notify") /\ arg[Worker] = k)'
                  => At(Worker, "notify") /\ arg[Worker] = k
  <2>1. CASE UNCHANGED <<pc, arg>>
    BY <2>1 DEF Queueing, At
  <2>2. CASE \E t \in Threads : Return(t)
    BY <1>2, <2>2, QuietReturn
  <2>3. ASSUME NEW t \in Threads, NEW label \in Labels \ {"notify", "queueReport"},
               Goto(t, label),
               \/ UNCHANGED arg
               \/ \E j \in Tokens \cup {NoToken} : arg' = [arg EXCEPT ![t] = j]
        PROVE  /\ Queueing(k)' \subseteq Queueing(k)
               /\ (At(Worker, "notify") /\ arg[Worker] = k)'
                    => At(Worker, "notify") /\ arg[Worker] = k
    BY <2>3 DEF Typed, TypeThreads, Goto, At, Queueing
  <2> QED
    BY <2>1, <2>2, <2>3
<1> QED
  BY <1>1, <1>2, ReportsKept DEF QuietReports

\* Every report on its way goes back to a supply of its own.
LEMMA ReportsStep ==
  Typed /\ Typed' /\ WorkerLocals /\ ReportsCounted /\ [Next]_vars
    => ReportsCounted'
<1> SUFFICES ASSUME Typed, Typed', WorkerLocals, ReportsCounted, [Next]_vars
             PROVE  ReportsCounted'
  OBVIOUS
<1> USE DEF client, tokens, ids, jobs, taken, args, world, fired, supplied
<1>0. pc \in [Threads -> Labels] /\ arg \in [Threads -> Tokens \cup {NoToken}]
  BY DEF Typed, TypeThreads
<1>1. ASSUME NEW t \in Threads, Report(t) PROVE ReportsCounted'
  <2>1. CASE Return(t) /\ rejectedToken' = rejectedToken
    BY <1>1, <2>1, ReportsElsewhere DEF Report
  <2>2. CASE /\ token = arg[t] /\ rejectedToken # arg[t] /\ rejectedToken' = arg[t]
             /\ Goto(t, "queueReport") /\ UNCHANGED args
    <3> SUFFICES ASSUME NEW k \in Tokens PROVE (AllReports(k) <= supplies[k])'
      BY DEF ReportsCounted
    <3>1. UNCHANGED <<reports, rejectedJob, toReport, supplies>>
      BY <1>1 DEF Report
    <3>2. At(t, "report") /\ token' = token
      BY <1>1 DEF Report
    <3>3. One(At(Worker, "notify") /\ arg[Worker] = k)'
            <= One(At(Worker, "notify") /\ arg[Worker] = k)
      BY <1>0, <2>2, <3>2 DEF One, At, Goto
    <3>4. CASE arg[t] = k
      <4>1. Queueing(k)' = Queueing(k) \cup {t} /\ t \notin Queueing(k)
        BY <1>0, <2>2, <3>2, <3>4 DEF Queueing, Goto, At
      <4>2. Cardinality(Queueing(k)') = Cardinality(Queueing(k)) + 1
        BY <4>1, OneMoreThread DEF Queueing
      <4>3. /\ One(token = k /\ rejectedToken # k) = 1
            /\ One(token = k /\ rejectedToken # k)' = 0
        BY <2>2, <3>4 DEF One
      <4> QED
        BY <3>1, <3>3, <4>2, <4>3, NatTerms DEF ReportsCounted, AllReports, One
    <3>5. CASE arg[t] # k
      <4>1. Queueing(k)' = Queueing(k)
        BY <1>0, <2>2, <3>2, <3>5 DEF Queueing, Goto, At
      <4>2. One(token = k /\ rejectedToken # k)' = 0
        BY <2>2, <3>2, <3>5 DEF One
      <4> QED
        BY <3>1, <3>3, <4>1, <4>2, NatTerms DEF ReportsCounted, AllReports, One
    <3> QED
      BY <3>4, <3>5
  <2> QED
    BY <1>1, <2>1, <2>2 DEF Report
<1>2. ASSUME NEW t \in Threads, QueueReport(t) PROVE ReportsCounted'
  <2> SUFFICES ASSUME NEW k \in Tokens PROVE (AllReports(k) <= supplies[k])'
    BY DEF ReportsCounted
  <2>1. /\ UNCHANGED <<reports, toReport, supplies, tokens>>
        /\ rejectedJob' = [rejectedJob EXCEPT ![arg[t]] = @ + 1]
        /\ Return(t) /\ At(t, "queueReport")
    BY <1>2 DEF QueueReport
  <2>2. One(At(Worker, "notify") /\ arg[Worker] = k)'
          <= One(At(Worker, "notify") /\ arg[Worker] = k)
    BY <2>1, QuietReturn DEF One
  <2>3. One(token = k /\ rejectedToken # k)' = One(token = k /\ rejectedToken # k)
    BY <2>1 DEF One
  <2>4. Queueing(k)' = Queueing(k) \ {t}
    BY <2>1, QuietReturn
  <2>5. CASE arg[t] = k
    <3>1. t \in Queueing(k)
      BY <2>1, <2>5 DEF Queueing
    <3>2. Cardinality(Queueing(k)') = Cardinality(Queueing(k)) - 1
      BY <2>4, <3>1, OneThreadLess DEF Queueing
    <3>3. rejectedJob'[k] = rejectedJob[k] + 1
      BY <2>1, <2>5 DEF Typed, NatCounts
    <3> QED
      BY <2>1, <2>2, <2>3, <3>2, <3>3, NatTerms DEF ReportsCounted, AllReports,
         One
  <2>6. CASE arg[t] # k
    <3>1. Queueing(k)' = Queueing(k)
      BY <2>4, <2>6 DEF Queueing
    <3>2. rejectedJob'[k] = rejectedJob[k]
      BY <2>1, <2>6 DEF Typed, NatCounts
    <3> QED
      BY <2>1, <2>2, <2>3, <3>1, <3>2, NatTerms DEF ReportsCounted, AllReports,
         One
  <2> QED
    BY <2>5, <2>6
<1>3. ASSUME NEW t \in Threads, Requests(t) PROVE ReportsCounted'
  <2>1. CASE Snapshot(t)
    BY <2>1, ReportsElsewhere DEF Snapshot, Labels, Typed
  <2>2. CASE Answer(t)
    <3>1. CASE Return(t)
      BY <2>2, <3>1, ReportsElsewhere DEF Answer
    <3>2. CASE Goto(t, "lastRequest") /\ arg' = [arg EXCEPT ![t] = token]
      BY <2>2, <3>2, ReportsElsewhere DEF Answer, Labels, Typed
    <3>3. CASE Goto(t, "report") /\ UNCHANGED args
      BY <2>2, <3>3, ReportsElsewhere DEF Answer, Labels
    <3> QED
      BY <2>2, <3>1, <3>2, <3>3 DEF Answer
  <2>3. CASE LastAnswer(t)
    <3>1. CASE Return(t)
      BY <2>3, <3>1, ReportsElsewhere DEF LastAnswer
    <3>2. CASE Goto(t, "report") /\ UNCHANGED args
      BY <2>3, <3>2, ReportsElsewhere DEF LastAnswer, Labels
    <3> QED
      BY <2>3, <3>1, <3>2 DEF LastAnswer
  <2> QED
    BY <1>1, <1>2, <1>3, <2>1, <2>2, <2>3 DEF Requests
<1>4. ASSUME NEW t \in Threads, Subscribe(t) PROVE ReportsCounted'
  <2>1. CASE Return(t)
    BY <1>4, <2>1, ReportsElsewhere DEF Subscribe
  <2>2. CASE Goto(t, "lastRequest") /\ arg' = [arg EXCEPT ![t] = token]
    BY <1>4, <2>2, ReportsElsewhere DEF Subscribe, Labels, Typed
  <2> QED
    BY <1>4, <2>1, <2>2 DEF Subscribe
<1>5. ASSUME NEW t \in Callers, CallerSteps(t) PROVE ReportsCounted'
  <2>1. CASE AdoptId(t)
    BY <2>1, ReportsElsewhere DEF AdoptId, Labels
  <2>2. CASE Enqueue(t)
    BY <2>2, ReportsElsewhere DEF Enqueue
  <2> QED
    BY <1>3, <1>5, <2>1, <2>2 DEF CallerSteps
<1>6. CASE Take
  <2> SUFFICES ASSUME NEW k \in Tokens PROVE (AllReports(k) <= supplies[k])'
    BY DEF ReportsCounted
  <2>1. toReport[k] = 0 /\ toReport'[k] = rejectedJob[k] /\ rejectedJob'[k] = 0
    BY <1>6 DEF Take, WorkerLocals, At, None
  <2>2. UNCHANGED <<reports, supplies, tokens, arg>>
    BY <1>6 DEF Take
  <2>3. Queueing(k)' = Queueing(k)
    BY <1>0, <1>6 DEF Take, Queueing, At, Goto
  <2>4. /\ One(At(Worker, "notify") /\ arg[Worker] = k)' = 0
        /\ One(token = k /\ rejectedToken # k)' = One(token = k /\ rejectedToken # k)
    BY <1>0, <1>6, <2>2 DEF Take, One, At, Goto
  <2> QED
    BY <2>1, <2>2, <2>3, <2>4, NatTerms DEF ReportsCounted, AllReports, One
<1>7. ASSUME NEW j \in Tokens, NextReport(j) PROVE ReportsCounted'
  <2> SUFFICES ASSUME NEW k \in Tokens PROVE (AllReports(k) <= supplies[k])'
    BY DEF ReportsCounted
  <2>1. /\ UNCHANGED <<reports, rejectedJob, supplies, tokens>>
        /\ At(Worker, "reports") /\ toReport[j] > 0
        /\ toReport' = [toReport EXCEPT ![j] = @ - 1]
    BY <1>7 DEF NextReport
  <2>2. /\ One(At(Worker, "notify") /\ arg[Worker] = k) = 0
        /\ One(At(Worker, "notify") /\ arg[Worker] = k)' = IF j = k /\ k = token THEN 1 ELSE 0
    BY <1>0, <1>7, <2>1 DEF NextReport, One, At, Goto
  <2>3. One(token = k /\ rejectedToken # k)' = One(token = k /\ rejectedToken # k)
    BY <2>1 DEF One
  <2>4. Queueing(k)' = Queueing(k)
    BY <1>0, <1>7, <2>1 DEF NextReport, Queueing, At, Goto
  <2>5. toReport'[k] = IF j = k THEN toReport[k] - 1 ELSE toReport[k]
    BY <2>1 DEF Typed, NatCounts
  <2> QED
    BY <2>1, <2>2, <2>3, <2>4, <2>5, NatTerms DEF ReportsCounted, AllReports,
       One
<1>8. CASE NotifyRejected
  <2> SUFFICES ASSUME NEW k \in Tokens PROVE (AllReports(k) <= supplies[k])'
    BY DEF ReportsCounted
  <2>1. /\ UNCHANGED <<rejectedJob, toReport, supplies, tokens>>
        /\ At(Worker, "notify")
        /\ reports' = [reports EXCEPT ![arg[Worker]] = @ + 1]
    BY <1>8 DEF NotifyRejected
  <2>2. /\ One(At(Worker, "notify") /\ arg[Worker] = k)
             = IF arg[Worker] = k THEN 1 ELSE 0
        /\ One(At(Worker, "notify") /\ arg[Worker] = k)' = 0
    BY <1>0, <1>8, <2>1 DEF NotifyRejected, One, At, Goto
  <2>3. One(token = k /\ rejectedToken # k)' = One(token = k /\ rejectedToken # k)
    BY <2>1 DEF One
  <2>4. Queueing(k)' = Queueing(k)
    BY <1>0, <1>8, <2>1 DEF NotifyRejected, Queueing, At, Goto
  <2>5. reports'[k] = IF arg[Worker] = k THEN reports[k] + 1 ELSE reports[k]
    BY <2>1 DEF Typed, NatCounts
  <2> QED
    BY <2>1, <2>2, <2>3, <2>4, <2>5, NatTerms DEF ReportsCounted, AllReports,
       One
<1>9. CASE WorkerSteps
  <2>1. CASE Persist
    BY <1>0, <2>1, ReportsElsewhere DEF Persist, Labels
  <2>2. CASE Flush
    BY <1>4, <2>2, ReportsElsewhere DEF Flush
  <2>3. CASE Announce \/ Complete
    BY <2>3, ReportsElsewhere DEF Announce, Complete, NextRound, Labels
  <2> QED
    BY <1>3, <1>6, <1>7, <1>8, <1>9, <2>1, <2>2, <2>3 DEF WorkerSteps
<1>10. CASE ServerSteps
  <2>1. CASE Store \/ ClearToken
    BY <2>1, ReportsElsewhere DEF Store, ClearToken, Labels
  <2>2. CASE RemoveId
    BY <2>2, ReportsElsewhere DEF RemoveId
  <2> QED
    BY <1>3, <1>4, <1>10, <2>1, <2>2 DEF ServerSteps, InstallFlush
<1>11. ASSUME NEW t \in Suppliers, NEW j \in Tokens \cup {NoToken},
              NEW id \in AppIds \cup {NoId}, Supply(t, j, id)
       PROVE  ReportsCounted'
  <2> SUFFICES ASSUME NEW k \in Tokens PROVE (AllReports(k) <= supplies[k])'
    BY DEF ReportsCounted
  <2>1. /\ UNCHANGED <<reports, rejectedJob, toReport>>
        /\ token' = j /\ rejectedToken' = NoToken /\ At(t, "idle")
    BY <1>11 DEF Supply
  <2>2. supplies'[k] = IF j = k THEN supplies[k] + 1 ELSE supplies[k]
    BY <1>11, NatTerms DEF Supply
  <2>3. One(token = k /\ rejectedToken # k)' = IF j = k THEN 1 ELSE 0
    BY <2>1 DEF One
  <2>4. Queueing(k)' = Queueing(k)
    BY <1>0, <1>11, <2>1 DEF Supply, Queueing, At, Goto
  <2>5. One(At(Worker, "notify") /\ arg[Worker] = k)'
          = One(At(Worker, "notify") /\ arg[Worker] = k)
    BY <1>0, <1>11, <2>1 DEF Supply, One, At, Goto
  <2> QED
    BY <2>1, <2>2, <2>3, <2>4, <2>5, NatTerms DEF ReportsCounted, AllReports,
       One
<1>12. CASE Environment
  <2>1. ASSUME NEW t \in Callers, Call(t) PROVE ReportsCounted'
    BY <2>1, ReportsElsewhere DEF Call, Labels
  <2>2. CASE (\E id \in AppIds : Install(id)) \/ Uninstall
    BY <2>2, ReportsElsewhere DEF Install, Uninstall, Labels
  <2>3. CASE Destroy \/ \E k \in Tokens : Expire(k)
    BY <2>3, ReportsElsewhere DEF Destroy, Expire
  <2> QED
    BY <1>4, <1>11, <1>12, <2>1, <2>2, <2>3 DEF Environment, CallSubscribe
<1>13. CASE Destruction \/ UNCHANGED vars
  BY <1>13, ReportsElsewhere DEF Destruction, StopServer, JoinWorker, vars
<1> QED
  BY <1>5, <1>9, <1>10, <1>12, <1>13 DEF Next

-----------------------------------------------------------------------------
(* The theorems                                                             *)

\* The counts, and what they rest on, hold in every reachable state.
LEMMA InductiveInvariant == Spec => []IInv
<1>1. Init => IInv
  <2> SUFFICES ASSUME Init PROVE IInv
    OBVIOUS
  <2>1. Typed
    BY TypedInit
  <2>2. WorkerLocals /\ RejectedIsCurrent
    BY DEF Init, WorkerLocals, RejectedIsCurrent, At
  <2>3. Signing = {} /\ \A k \in Tokens : Queueing(k) = {}
    BY DEF Init, Signing, Queueing, At
  <2>4. Cardinality({}) = 0
    BY FS_EmptySet
  <2>5. SignInsCounted
    BY <2>3, <2>4 DEF Init, SignInsCounted, One
  <2>6. ASSUME NEW k \in Tokens PROVE AllReports(k) <= supplies[k]
    <3>1. /\ One(At(Worker, "notify") /\ arg[Worker] = k) = 0
          /\ One(token = k /\ rejectedToken # k) = 0
      BY DEF Init, One, At
    <3>2. reports[k] = 0 /\ rejectedJob[k] = 0 /\ toReport[k] = 0 /\ supplies[k] = 0
      BY DEF Init, None
    <3> QED
      BY <2>3, <2>4, <3>1, <3>2 DEF AllReports
  <2> QED
    BY <2>1, <2>2, <2>5, <2>6 DEF IInv, ReportsCounted
<1>2. IInv /\ [Next]_vars => IInv'
  BY TypedStep, WorkerLocalsStep, RejectedStep, ReportsStep, SignInsStep DEF
     IInv
<1> QED
  BY <1>1, <1>2, PTL DEF Spec

\* What IInv says of one token.
LEMMA ReportsBounded ==
  ASSUME IInv, NEW k \in Tokens
  PROVE  /\ reports[k] + toReport[k] <= supplies[k]
         /\ rejectedJob[k] <= supplies[k]
         /\ reports[k] <= supplies[k] /\ toReport[k] <= supplies[k]
<1>1. AllReports(k) <= supplies[k] /\ Typed
  BY DEF IInv, ReportsCounted
<1> QED
  BY <1>1, NatTerms DEF AllReports, One

\* accessTokenRejected fires at most once each time a token is supplied, for
\* any number of requests that fail at once.
THEOREM ReportsAreBounded == Spec => []ReportedOncePerSupply
<1>1. IInv => ReportedOncePerSupply
  BY ReportsBounded DEF ReportedOncePerSupply
<1> QED
  BY <1>1, InductiveInvariant, PTL

\* authenticationCompleted fires at most once per sign-in.
THEOREM AnnouncementsAreBounded == Spec => []AnnouncedOncePerSignIn
<1>1. IInv => AnnouncedOncePerSignIn
  BY NatTerms DEF IInv, SignInsCounted, AnnouncedOncePerSignIn, One
<1> QED
  BY <1>1, InductiveInvariant, PTL

\* The mark that silences further 401s is never on another token than the
\* current one.
THEOREM MarkIsCurrent == Spec => []RejectedIsCurrent
<1>1. IInv => RejectedIsCurrent
  BY DEF IInv
<1> QED
  BY <1>1, InductiveInvariant, PTL

\* The types, with the bounds on the queued reports.
THEOREM TypeCorrect == Spec => []TypeOK
<1>1. ASSUME IInv PROVE TypeOK
  <2>1. Typed /\ calls \in Nat /\ calls <= MaxSupplies
    BY <1>1 DEF IInv, Typed
  <2>2. ASSUME NEW k \in Tokens
        PROVE  /\ rejectedJob[k] \in 0 .. MaxSupplies /\ toReport[k] \in 0 .. MaxSupplies
               /\ reports[k] \in 0 .. MaxSupplies /\ supplies[k] \in 0 .. MaxSupplies
    <3>1. supplies[k] \in 0 .. calls
      BY <2>1 DEF Typed
    <3> QED
      BY <1>1, <2>1, <3>1, ReportsBounded, NatTerms
  <2>3. /\ rejectedJob \in Counts /\ toReport \in Counts /\ reports \in Counts
        /\ supplies \in Counts
    BY <2>1, <2>2 DEF Typed, NatCounts, Counts
  <2>4. announcements <= signIns /\ signIns \in 0 .. calls
    BY <1>1, <2>1, NatTerms DEF IInv, SignInsCounted, One, Typed
  <2>5. announcements \in 0 .. MaxSupplies
    BY <2>1, <2>4 DEF Typed
  <2> QED
    BY <2>1, <2>3, <2>4, <2>5 DEF Typed, TypeOK, TypeClient, TypeWorld
<1>2. IInv => TypeOK
  BY <1>1
<1> QED
  BY <1>2, InductiveInvariant, PTL

-----------------------------------------------------------------------------
(* The refinement                                                           *)

\* A step that no event and no supply is part of is a stutter of the contract.
LEMMA StutterStep ==
  ASSUME Typed, UNCHANGED <<token, supplies, signIns, reports, announcements>>,
         \/ UNCHANGED <<pc, arg>>
         \/ \E t \in Threads :
              \/ Return(t) /\ pc[t] \notin {"notify", "complete"}
              \/ /\ \E label \in Labels \ {"notify", "complete"} : Goto(t, label)
                 /\ pc[t] \notin {"notify", "complete"}
                 /\ \/ UNCHANGED arg
                    \/ \E k \in Tokens \cup {NoToken} : arg' = [arg EXCEPT ![t] = k]
  PROVE  UNCHANGED Contract!vars
<1>1. /\ At(Worker, "notify")' = At(Worker, "notify")
      /\ At(Worker, "complete")' = At(Worker, "complete")
      /\ At(Worker, "notify") => arg'[Worker] = arg[Worker]
  BY DEF Typed, TypeThreads, Return, Resume, Goto, At
<1> QED
  BY <1>1 DEF Contract!vars, Contract!supplied

\* Every step of the Client is one of the contract, or a stutter of it.
LEMMA ContractStep ==
  IInv /\ IInv' /\ [Next]_vars => [Contract!Next]_(Contract!vars)
<1> SUFFICES ASSUME IInv, IInv', [Next]_vars
             PROVE  [Contract!Next]_(Contract!vars)
  OBVIOUS
<1> USE DEF client, tokens, ids, jobs, taken, args, world, fired, supplied
<1>0. /\ Typed /\ WorkerLocals
      /\ pc \in [Threads -> Labels] /\ arg \in [Threads -> Tokens \cup {NoToken}]
  BY DEF IInv, Typed, TypeThreads
<1>1. ASSUME NEW t \in Threads, Requests(t) PROVE UNCHANGED Contract!vars
  <2>1. UNCHANGED <<token, supplies, signIns, reports, announcements>>
    BY <1>1 DEF Requests, Snapshot, Answer, LastAnswer, Report, QueueReport
  <2>2. /\ pc[t] \notin {"notify", "complete"}
        /\ \/ Return(t)
           \/ /\ \E label \in Labels \ {"notify", "complete"} : Goto(t, label)
              /\ \/ UNCHANGED arg
                 \/ \E k \in Tokens \cup {NoToken} : arg' = [arg EXCEPT ![t] = k]
    BY <1>0, <1>1 DEF Requests, Snapshot, Answer, LastAnswer, Report,
       QueueReport,
       Labels, At, Typed
  <2> QED
    BY <1>0, <2>1, <2>2, StutterStep
<1>2. ASSUME NEW t \in Threads, Subscribe(t), pc[t] \notin {"notify", "complete"}
      PROVE  UNCHANGED Contract!vars
  BY <1>0, <1>2, StutterStep DEF Subscribe, Labels, Typed
<1>3. ASSUME NEW t \in Callers, CallerSteps(t) PROVE UNCHANGED Contract!vars
  BY <1>0, <1>1, <1>3, StutterStep DEF CallerSteps, AdoptId, Enqueue, At,
     Labels
<1>4. ASSUME NEW t \in Suppliers, NEW k \in Tokens \cup {NoToken},
             NEW id \in AppIds \cup {NoId}, Supply(t, k, id)
      PROVE  Contract!Next
  <2>1. /\ At(Worker, "notify")' = At(Worker, "notify")
        /\ At(Worker, "complete")' = At(Worker, "complete")
        /\ arg'[Worker] = arg[Worker]
    BY <1>0, <1>4 DEF Supply, Goto, At
  <2>2. /\ token' = k /\ reports' = reports /\ announcements' = announcements
        /\ supplies' = [j \in Tokens |-> supplies[j] + (IF j = k THEN 1 ELSE 0)]
        /\ signIns' = IF token = NoToken /\ k # NoToken THEN signIns + 1 ELSE signIns
    BY <1>4 DEF Supply
  <2>3. supplies \in [Tokens -> Nat]
    BY <1>0, NatTerms DEF Typed
  <2>4. CASE k = NoToken
    <3>1. supplies' = supplies
      BY <2>2, <2>3, <2>4
    <3> QED
      BY <2>1, <2>2, <2>4, <3>1 DEF Contract!Next, Contract!SignOut
  <2>5. CASE k \in Tokens
    <3>1. supplies' = [supplies EXCEPT ![k] = @ + 1]
      <4>1. [supplies EXCEPT ![k] = @ + 1]
              = [j \in Tokens |-> IF j = k THEN supplies[k] + 1 ELSE supplies[j]]
        BY <2>3, <2>5
      <4>2. ASSUME NEW j \in Tokens
            PROVE  supplies[j] + (IF j = k THEN 1 ELSE 0)
                     = IF j = k THEN supplies[k] + 1 ELSE supplies[j]
        BY <2>3
      <4> QED
        BY <2>2, <4>1, <4>2
    <3>2. Contract!Supply(k)
      BY <2>1, <2>2, <2>5, <3>1 DEF Contract!Supply
    <3> QED
      BY <2>5, <3>2 DEF Contract!Next
  <2> QED
    BY <2>4, <2>5
<1>5. ASSUME NEW k \in Tokens, NextReport(k)
      PROVE  Contract!Decide(k) \/ UNCHANGED Contract!vars
  <2>1. CASE k # token
    BY <1>0, <1>5, <2>1, StutterStep DEF NextReport
  <2>2. CASE k = token
    <3>1. /\ ~At(Worker, "notify") /\ At(Worker, "notify")' /\ arg'[Worker] = k
          /\ ~At(Worker, "complete") /\ ~At(Worker, "complete")'
          /\ UNCHANGED <<token, supplies, signIns, reports, announcements>>
      BY <1>0, <1>5, <2>2 DEF NextReport, Goto, At
    <3>2. reports[k] < supplies[k]
      BY <1>0, <1>5, ReportsBounded, NatTerms DEF NextReport
    <3> QED
      BY <2>2, <3>1, <3>2 DEF Contract!Decide, Contract!supplied, At
  <2> QED
    BY <2>1, <2>2
<1>6. CASE NotifyRejected
  <2>1. /\ At(Worker, "notify") /\ ~At(Worker, "notify")'
        /\ ~At(Worker, "complete") /\ ~At(Worker, "complete")'
        /\ UNCHANGED <<token, supplies, signIns, announcements>>
        /\ reports' = [reports EXCEPT ![arg[Worker]] = @ + 1]
    BY <1>0, <1>6 DEF NotifyRejected, Goto, At
  <2>2. arg[Worker] \in Tokens
    BY <1>0, <2>1 DEF Typed, HasToken, At
  <2>3. Contract!Report
    BY <2>1, <2>2 DEF Contract!Report, Contract!supplied, At
  <2> QED
    BY <2>3 DEF Contract!Next
<1>7. CASE Announce
  <2>1. CASE announce /\ token # NoToken
    <3>1. /\ ~At(Worker, "notify") /\ ~At(Worker, "notify")'
          /\ ~At(Worker, "complete") /\ At(Worker, "complete")'
          /\ UNCHANGED <<token, supplies, signIns, reports, announcements>>
      BY <1>0, <1>7, <2>1 DEF Announce, Goto, At
    <3>2. announcements < signIns
      BY <1>0, <2>1, NatTerms DEF IInv, SignInsCounted, One
    <3>3. Contract!DecideAnnounce
      BY <2>1, <3>1, <3>2 DEF Contract!DecideAnnounce, Contract!supplied
    <3> QED
      BY <3>3 DEF Contract!Next
  <2>2. CASE ~(announce /\ token # NoToken)
    BY <1>0, <1>7, <2>2, StutterStep DEF Announce, NextRound, At, Labels
  <2> QED
    BY <2>1, <2>2
<1>8. CASE Complete
  <2>1. /\ ~At(Worker, "notify") /\ ~At(Worker, "notify")'
        /\ At(Worker, "complete") /\ ~At(Worker, "complete")'
        /\ UNCHANGED <<token, supplies, signIns, reports>>
        /\ announcements' = announcements + 1
    BY <1>0, <1>8 DEF Complete, NextRound, Goto, At
  <2>2. Contract!Announce
    BY <2>1 DEF Contract!Announce, Contract!supplied
  <2> QED
    BY <2>2 DEF Contract!Next
<1>9. CASE WorkerSteps
  <2>1. CASE Take \/ Persist
    BY <1>0, <2>1, StutterStep DEF Take, Persist, At, Labels
  <2>2. CASE Flush
    BY <1>0, <1>2, <2>2, StutterStep DEF Flush, At
  <2> QED
    BY <1>1, <1>5, <1>6, <1>7, <1>8, <1>9, <2>1, <2>2 DEF WorkerSteps,
       Contract!Next
<1>10. CASE ClearToken
  <2>1. /\ At(Worker, "notify")' = At(Worker, "notify")
        /\ At(Worker, "complete")' = At(Worker, "complete")
        /\ UNCHANGED <<arg, supplies, signIns, reports, announcements>>
        /\ token' = NoToken
    BY <1>0, <1>10 DEF ClearToken, Goto, At
  <2>2. Contract!SignOut
    BY <2>1 DEF Contract!SignOut
  <2> QED
    BY <2>2 DEF Contract!Next
<1>11. CASE ServerSteps
  <2>1. CASE Store \/ RemoveId
    BY <1>0, <2>1, StutterStep DEF Store, RemoveId, At, Labels
  <2>2. CASE InstallFlush
    BY <1>0, <1>2, <2>2 DEF InstallFlush, At
  <2> QED
    BY <1>1, <1>10, <1>11, <2>1, <2>2 DEF ServerSteps
<1>12. CASE Environment
  <2>1. ASSUME NEW t \in Callers, Call(t) PROVE UNCHANGED Contract!vars
    BY <1>0, <2>1, StutterStep DEF Call, At, Labels
  <2>2. ASSUME NEW t \in Callers, CallSubscribe(t) PROVE UNCHANGED Contract!vars
    BY <1>0, <1>2, <2>2 DEF CallSubscribe, At
  <2>3. CASE (\E id \in AppIds : Install(id)) \/ Uninstall
    BY <1>0, <2>3, StutterStep DEF Install, Uninstall, At, Labels
  <2>4. CASE Destroy \/ \E k \in Tokens : Expire(k)
    BY <1>0, <2>4, StutterStep DEF Destroy, Expire
  <2> QED
    BY <1>4, <1>12, <2>1, <2>2, <2>3, <2>4 DEF Environment
<1>13. CASE Destruction \/ UNCHANGED vars
  BY <1>0, <1>13, StutterStep DEF Destruction, StopServer, JoinWorker, vars
<1> QED
  BY <1>3, <1>9, <1>11, <1>12, <1>13 DEF Next

\* The worker, its queue and the three critical sections of setAccessToken()
\* implement what the application is promised.
THEOREM Implements == Spec => ImplementsContract
<1>1. Init => Contract!Init
  BY DEF Init, None, At, Contract!Init
<1> QED
  BY <1>1, InductiveInvariant, ContractStep, PTL
  DEF Spec, ImplementsContract, Contract!Spec

-----------------------------------------------------------------------------
(* No supplied id is lost                                                   *)

\* Only one thread calls setAccessToken().
OneSupplier == \A t, u \in Suppliers : t = u

\* Once ~Client() runs no caller is inside, and a worker that is told to stop
\* has taken the last jobs.
Leaving ==
  /\ phase # "running" => \A t \in Callers : At(t, "idle")
  /\ stopping => phase \in {"stopWorker", "gone"} /\ persistJob = NoId
  /\ persist # NoId => At(Worker, "persist")
  /\ At(Worker, "done") => stopping
  /\ phase = "gone" => At(Worker, "done")

\* The id that a supplier has put in memory and not yet queued, and the one
\* the storage will end with: queued, taken, or stored already.
InHand == \E t \in Callers : At(t, "enqueue") /\ argId[t] # NoId
LastId ==
  IF persistJob # NoId THEN persistJob ELSE IF persist # NoId THEN persist
                                            ELSE stored

\* Only a supplier carries an id, and from _installMutex to _workerMutex it is
\* the id in memory.
Supplying ==
  \A t \in Threads :
    /\ pc[t] \in {"adoptId", "enqueue"} => t \in Suppliers
    /\ At(t, "adoptId") => argId[t] # NoId
    /\ argId[t] # NoId => pc[t] \in {"adoptId", "enqueue"}
    /\ At(t, "enqueue") /\ argId[t] # NoId => argId[t] = installedAppId

\* As long as no webhook has come, the id in memory is on its way.
IdKept ==
  webhooks = 0 =>
    At(Server, "idle") /\ Supplying /\ (InHand \/ LastId = installedAppId)

\* ~Client() waits for the callers, and the worker's last round takes all jobs.
LEMMA LeavingStep == Typed /\ Leaving /\ [Next]_vars => Leaving'
<1> SUFFICES ASSUME Typed, Leaving, [Next]_vars PROVE Leaving'
  OBVIOUS
<1> USE ThreadsAssumption, TokensAssumption
    DEF Leaving, Threads, At, Goto, vars, client, ids, jobs, taken, args, world
<1>0. pc \in [Threads -> Labels]
  BY DEF Typed, TypeThreads
<1>1. ASSUME NEW t \in Threads, Requests(t) PROVE Leaving'
  BY <1>0, <1>1 DEF Requests, Snapshot, Answer, LastAnswer, Report,
     QueueReport, Return, Resume
<1>2. ASSUME NEW t \in Callers, CallerSteps(t) PROVE Leaving'
  BY <1>0, <1>1, <1>2 DEF CallerSteps, AdoptId, Enqueue, Return, Resume
<1>3. CASE WorkerSteps
  <2>1. CASE Take
    <3>1. stopping' => phase \in {"stopWorker", "gone"}
      BY <2>1 DEF Take, Typed
    <3> QED
      BY <1>0, <2>1, <3>1 DEF Take
  <2>2. CASE Persist
    BY <1>0, <2>2 DEF Persist
  <2>3. CASE NotifyRejected \/ \E k \in Tokens : NextReport(k)
    BY <1>0, <2>3 DEF NotifyRejected, NextReport
  <2>4. CASE Flush
    BY <1>0, <2>4 DEF Flush, Subscribe, Return, Resume
  <2>5. CASE Announce \/ Complete
    BY <1>0, <2>5 DEF Announce, Complete, NextRound
  <2> QED
    BY <1>1, <1>3, <2>1, <2>2, <2>3, <2>4, <2>5 DEF WorkerSteps
<1>4. CASE ServerSteps
  BY <1>0, <1>1, <1>4 DEF ServerSteps, Store, InstallFlush, Subscribe, Return,
     Resume, ClearToken, RemoveId
<1>5. CASE Environment
  BY <1>0, <1>5 DEF Environment, Call, CallSubscribe, Subscribe, Return,
     Resume, Supply, Install, Uninstall, Destroy, Expire
<1>6. CASE Destruction \/ UNCHANGED vars
  BY <1>6 DEF Destruction, StopServer, JoinWorker
<1> QED
  BY <1>2, <1>3, <1>4, <1>5, <1>6 DEF Next

\* A step that moves no id.
LEMMA IdFrame ==
  ASSUME IdKept, webhooks' = webhooks,
         UNCHANGED <<installedAppId, stored, persistJob, persist>>,
         UNCHANGED argId,
         webhooks = 0 => pc'[Server] = pc[Server],
         \A t \in Threads :
           pc[t] \in {"adoptId", "enqueue"} \/ pc'[t] \in {"adoptId", "enqueue"}
             => pc'[t] = pc[t]
  PROVE  IdKept'
BY ThreadsAssumption DEF IdKept, Supplying, InHand, LastId, At, Threads

\* The id is handed on from one place to the next, and none overtakes it.
LEMMA IdStep ==
  ASSUME OneSupplier
  PROVE  Typed /\ Leaving /\ IdKept /\ [Next]_vars => IdKept'
<1> SUFFICES ASSUME Typed, Leaving, IdKept, [Next]_vars PROVE IdKept'
  OBVIOUS
<1> USE ThreadsAssumption, TokensAssumption
    DEF Threads, At, Goto, vars, client, ids, jobs, taken, args, world
<1>0. /\ pc \in [Threads -> Labels] /\ argId \in [Threads -> AppIds \cup {NoId}]
      /\ webhooks \in Nat
  BY BoundsAssumption DEF Typed, TypeThreads
<1>1. ASSUME NEW t \in Threads, Return(t),
             UNCHANGED <<ids, persistJob, persist>>,
             UNCHANGED webhooks, pc[t] \notin {"adoptId", "enqueue"},
             webhooks = 0 => t # Server
      PROVE  IdKept'
  BY <1>0, <1>1 DEF Return, Resume, IdKept, Supplying, InHand, LastId
<1>2. ASSUME NEW t \in Threads, Requests(t) PROVE IdKept'
  <2>1. UNCHANGED <<ids, persistJob, persist, webhooks>>
    BY <1>2 DEF Requests, Snapshot, Answer, LastAnswer, Report, QueueReport
  <2>2. pc[t] \in {"snapshot", "request", "lastRequest", "report",
                   "queueReport"}
    BY <1>2 DEF Requests, Snapshot, Answer, LastAnswer, Report, QueueReport
  <2>3. webhooks = 0 => t # Server
    BY <2>2 DEF IdKept
  <2>4. \/ Return(t)
        \/ /\ UNCHANGED argId
           /\ \E l \in {"request", "lastRequest", "report", "queueReport"} :
                pc' = [pc EXCEPT ![t] = l]
    BY <1>2 DEF Requests, Snapshot, Answer, LastAnswer, Report, QueueReport
  <2> QED
    BY <1>0, <1>1, <2>1, <2>2, <2>3, <2>4, IdFrame
<1>3. ASSUME NEW t \in Callers \cup {Worker}, Subscribe(t),
             pc[t] \notin {"adoptId", "enqueue"}
      PROVE  IdKept'
  BY <1>0, <1>1, <1>3, IdFrame DEF Subscribe
<1>4. ASSUME NEW t \in Callers, CallerSteps(t) PROVE IdKept'
  <2>1. CASE AdoptId(t)
    BY <1>0, <2>1 DEF AdoptId, OneSupplier, IdKept, Supplying, InHand
  <2>2. CASE Enqueue(t)
    BY <1>0, <2>2 DEF Enqueue, Return, Resume, OneSupplier, IdKept, Supplying,
       InHand, LastId
  <2> QED
    BY <1>2, <1>4, <2>1, <2>2 DEF CallerSteps
<1>5. CASE WorkerSteps
  <2>1. CASE Take
    BY <1>0, <2>1 DEF Take, Leaving, IdKept, Supplying, InHand, LastId
  <2>2. CASE Persist
    BY <1>0, <2>2 DEF Persist, IdKept, Supplying, InHand, LastId
  <2>3. CASE NotifyRejected \/ \E k \in Tokens : NextReport(k)
    BY <1>0, <2>3, IdFrame DEF NotifyRejected, NextReport
  <2>4. CASE Flush
    BY <1>0, <1>1, <1>3, <2>4 DEF Flush
  <2>5. CASE Announce \/ Complete
    BY <1>0, <2>5, IdFrame DEF Announce, Complete, NextRound
  <2> QED
    BY <1>2, <1>5, <2>1, <2>2, <2>3, <2>4, <2>5 DEF WorkerSteps
<1>6. CASE ServerSteps
  BY <1>2, <1>6 DEF ServerSteps, Store, InstallFlush, Subscribe, Return,
     ClearToken, RemoveId, IdKept
<1>7. CASE Environment
  <2>1. ASSUME NEW t \in Callers, Call(t) \/ CallSubscribe(t) PROVE IdKept'
    BY <1>0, <1>3, <2>1, IdFrame DEF Call, CallSubscribe, Subscribe
  <2>2. ASSUME NEW t \in Suppliers, NEW k \in Tokens \cup {NoToken},
               NEW id \in AppIds \cup {NoId}, Supply(t, k, id)
        PROVE  IdKept'
    BY <1>0, <2>2 DEF Supply, IdKept, Supplying, InHand, LastId
  <2>3. CASE Uninstall \/ \E id \in AppIds : Install(id)
    BY <1>0, <2>3 DEF Uninstall, Install, IdKept
  <2>4. CASE Destroy \/ \E k \in Tokens : Expire(k)
    BY <2>4, IdFrame DEF Destroy, Expire
  <2> QED
    BY <1>7, <2>1, <2>2, <2>3, <2>4 DEF Environment
<1>8. CASE Destruction \/ UNCHANGED vars
  BY <1>8, IdFrame DEF Destruction, StopServer, JoinWorker
<1> QED
  BY <1>4, <1>5, <1>6, <1>7, <1>8 DEF Next

\* With one supplier and no webhook, the storage ends with the id the Client
\* had, however late the worker was: a stopping workerLoop() takes and persists
\* what is queued before it ends.
THEOREM SuppliedIdIsStored ==
  ASSUME OneSupplier
  PROVE  Spec => [](webhooks = 0 => NoIdLost)
<1>1. Init => Leaving /\ IdKept
  BY ThreadsAssumption
  DEF Init, Leaving, IdKept, Supplying, InHand, LastId, At, Threads
<1>2. Typed /\ Leaving /\ IdKept /\ [Next]_vars => IdKept'
  BY IdStep
<1>3. Leaving /\ IdKept => (webhooks = 0 => NoIdLost)
  BY DEF Leaving, IdKept, InHand, LastId, NoIdLost, At
<1>4. IInv => Typed
  BY DEF IInv
<1> QED
  BY <1>1, <1>2, <1>3, <1>4, LeavingStep, InductiveInvariant, PTL DEF Spec

-----------------------------------------------------------------------------
(* Nothing that is owed to the application is dropped                       *)

\* A mark without a notification is one on its way: being queued, queued,
\* taken or about to fire.  Safety half of RejectionTold.
MarkIsOnItsWay ==
  \A k \in Tokens : token = k /\ rejectedToken = k /\ k \notin told =>
    \/ rejectedJob[k] > 0 \/ toReport[k] > 0
    \/ \E t \in Threads : pc[t] \in {"queueReport", "notify"} /\ arg[t] = k

\* A step outside the path of the reports.
LEMMA MarkFrame ==
  ASSUME MarkIsOnItsWay,
         UNCHANGED <<rejectedToken, told, rejectedJob, toReport>>,
         token' \in {token, NoToken},
         \A t \in Threads : pc[t] \in {"queueReport", "notify"} =>
                              pc'[t] = pc[t] /\ arg'[t] = arg[t]
  PROVE  MarkIsOnItsWay'
BY TokensAssumption DEF MarkIsOnItsWay

\* Only the section that marks a token starts a report of it, and only the
\* notification, or another token, ends it.
LEMMA MarkStep ==
  Typed /\ WorkerLocals /\ MarkIsOnItsWay /\ [Next]_vars => MarkIsOnItsWay'
<1> SUFFICES ASSUME Typed, WorkerLocals, MarkIsOnItsWay, [Next]_vars
             PROVE  MarkIsOnItsWay'
  OBVIOUS
<1> USE ThreadsAssumption, TokensAssumption
    DEF Threads, At, Goto, vars, client, tokens, ids, jobs, taken, args, world,
        fired, supplied
<1>0. /\ pc \in [Threads -> Labels]
      /\ arg \in [Threads -> Tokens \cup {NoToken}]
      /\ rejectedJob \in [Tokens -> Nat] /\ toReport \in [Tokens -> Nat]
  BY DEF Typed, TypeThreads, NatCounts
<1>1. ASSUME NEW t \in Threads, Requests(t) PROVE MarkIsOnItsWay'
  <2>1. CASE Snapshot(t) \/ Answer(t) \/ LastAnswer(t)
    BY <1>0, <2>1, MarkFrame DEF Snapshot, Answer, LastAnswer, Return
  <2>2. CASE Report(t)
    BY <1>0, <2>2 DEF Report, Return, MarkIsOnItsWay
  <2>3. CASE QueueReport(t)
    <3>1. /\ rejectedJob' = [rejectedJob EXCEPT ![arg[t]] = @ + 1]
          /\ arg[t] \in Tokens
      BY <2>3 DEF QueueReport, Typed, HasToken
    <3> QED
      BY <1>0, <2>3, <3>1 DEF QueueReport, Return, MarkIsOnItsWay
  <2> QED
    BY <1>1, <2>1, <2>2, <2>3 DEF Requests
<1>2. ASSUME NEW t \in Callers, CallerSteps(t) PROVE MarkIsOnItsWay'
  BY <1>0, <1>1, <1>2, MarkFrame DEF CallerSteps, AdoptId, Enqueue, Return
<1>3. CASE WorkerSteps
  <2>1. CASE Take
    BY <1>0, <2>1 DEF Take, WorkerLocals, None, MarkIsOnItsWay
  <2>2. CASE Persist \/ Flush \/ Announce \/ Complete
    BY <1>0, <2>2, MarkFrame DEF Persist, Flush, Subscribe, Return, Announce,
       Complete, NextRound
  <2>3. ASSUME NEW k \in Tokens, NextReport(k) PROVE MarkIsOnItsWay'
    BY <1>0, <2>3 DEF NextReport, MarkIsOnItsWay
  <2>4. CASE NotifyRejected
    BY <1>0, <2>4 DEF NotifyRejected, MarkIsOnItsWay
  <2> QED
    BY <1>1, <1>3, <2>1, <2>2, <2>3, <2>4 DEF WorkerSteps
<1>4. CASE ServerSteps
  BY <1>0, <1>1, <1>4, MarkFrame DEF ServerSteps, Store, InstallFlush,
     Subscribe, Return, ClearToken, RemoveId
<1>5. CASE Environment
  <2>1. CASE \E t \in Suppliers, k \in Tokens \cup {NoToken} :
               \E id \in AppIds \cup {NoId} : Supply(t, k, id)
    BY <2>1 DEF Supply, MarkIsOnItsWay
  <2>2. CASE \E t \in Callers : Call(t) \/ CallSubscribe(t)
    BY <1>0, <2>2, MarkFrame DEF Call, CallSubscribe, Subscribe, Return
  <2>3. CASE (\E id \in AppIds : Install(id)) \/ Uninstall \/ Destroy
             \/ \E k \in Tokens : Expire(k)
    BY <1>0, <2>3, MarkFrame DEF Install, Uninstall, Destroy, Expire
  <2> QED
    BY <1>5, <2>1, <2>2, <2>3 DEF Environment
<1>6. CASE Destruction \/ UNCHANGED vars
  BY <1>6, MarkFrame DEF Destruction, StopServer, JoinWorker
<1> QED
  BY <1>2, <1>3, <1>4, <1>5, <1>6 DEF Next

\* A 401 is silenced only by a notification that has fired or will: whoever
\* marks the token, and however many requests fail at once, its report is on
\* its way to the worker or with it.
THEOREM SilencedMeansOnItsWay == Spec => []MarkIsOnItsWay
<1>1. Init => MarkIsOnItsWay
  BY TokensAssumption DEF Init, MarkIsOnItsWay
<1>2. IInv => Typed /\ WorkerLocals
  BY DEF IInv
<1> QED
  BY <1>1, <1>2, MarkStep, InductiveInvariant, PTL DEF Spec

\* A signed-in Client whose sign-in is not announced has the announcement on
\* its way.  Safety half of SignInAnnounced.
SignInIsOnItsWay ==
  unannounced /\ token # NoToken =>
    announceJob \/ announce \/ \E t \in Threads : signsIn[t]

\* Only a supplier signs in, with a token; one that signs out is obeyed.
SupplierSigns ==
  \A t \in Threads :
    /\ signsIn[t] => pc[t] \in {"adoptId", "enqueue"} /\ arg[t] # NoToken
    /\ pc[t] \in {"adoptId", "enqueue"} =>
         t \in Suppliers /\ (arg[t] = NoToken => token = NoToken)

SigningIn == SupplierSigns /\ SignInIsOnItsWay

\* A step outside the path of the announcements.
LEMMA SigningFrame ==
  ASSUME SigningIn, UNCHANGED unannounced,
         UNCHANGED <<announceJob, announce>>,
         token' \in {token, NoToken},
         \A t \in Threads :
           /\ signsIn'[t] = signsIn[t]
           /\ \/ pc'[t] = pc[t] /\ arg'[t] = arg[t]
              \/ {pc[t], pc'[t]} \cap {"adoptId", "enqueue"} = {}
  PROVE  SigningIn'
BY DEF SigningIn, SupplierSigns, SignInIsOnItsWay

\* The single supplier's calls come one after the other, so that a sign-out
\* cancels no later sign-in.
LEMMA SigningStep ==
  ASSUME OneSupplier
  PROVE  Typed /\ WorkerLocals /\ SigningIn /\ [Next]_vars => SigningIn'
<1> SUFFICES ASSUME Typed, WorkerLocals, SigningIn, [Next]_vars PROVE SigningIn'
  OBVIOUS
<1> USE ThreadsAssumption, TokensAssumption
    DEF Threads, At, Goto, vars, client, tokens, ids, jobs, taken, args, world,
        fired, supplied
<1>0. /\ pc \in [Threads -> Labels]
      /\ arg \in [Threads -> Tokens \cup {NoToken}]
      /\ signsIn \in [Threads -> BOOLEAN]
  BY DEF Typed, TypeThreads
<1>1. ASSUME NEW t \in Threads, Return(t), pc[t] \notin {"adoptId", "enqueue"},
             UNCHANGED <<unannounced, announceJob, announce>>,
             token' \in {token, NoToken}
      PROVE  SigningIn'
  <2>1. ~signsIn[t] /\ signsIn[t] = FALSE
    BY <1>0, <1>1 DEF SigningIn, SupplierSigns
  <2>2. signsIn' = signsIn
    BY <1>0, <1>1, <2>1 DEF Return
  <2> QED
    BY <1>0, <1>1, <2>2, SigningFrame DEF Return, Resume
<1>2. ASSUME NEW t \in Threads, Requests(t) PROVE SigningIn'
  <2>1. UNCHANGED <<token, announceJob, announce, unannounced>>
    BY <1>2 DEF Requests, Snapshot, Answer, LastAnswer, Report, QueueReport
  <2>2. pc[t] \in {"snapshot", "request", "lastRequest", "report",
                   "queueReport"}
    BY <1>2 DEF Requests, Snapshot, Answer, LastAnswer, Report, QueueReport
  <2>3. \/ Return(t)
        \/ /\ UNCHANGED signsIn
           /\ \A u \in Threads \ {t} : arg'[u] = arg[u]
           /\ \E l \in {"request", "lastRequest", "report", "queueReport"} :
                pc' = [pc EXCEPT ![t] = l]
    BY <1>0, <1>2 DEF Requests, Snapshot, Answer, LastAnswer, Report,
       QueueReport
  <2>4. CASE Return(t)
    BY <1>1, <2>1, <2>2, <2>4
  <2>5. CASE ~Return(t)
    BY <1>0, <2>1, <2>2, <2>3, <2>5, SigningFrame
  <2> QED
    BY <2>4, <2>5
<1>3. ASSUME NEW t \in Threads, Subscribe(t),
             pc[t] \notin {"adoptId", "enqueue"}
      PROVE  SigningIn'
  BY <1>0, <1>1, <1>3, SigningFrame DEF Subscribe
<1>4. ASSUME NEW t \in Callers, CallerSteps(t) PROVE SigningIn'
  <2>1. CASE AdoptId(t)
    BY <1>0, <2>1 DEF AdoptId, SigningIn, SupplierSigns, SignInIsOnItsWay
  <2>2. CASE Enqueue(t)
    <3>1. SupplierSigns'
      BY <1>0, <2>2 DEF Enqueue, Return, Resume, SigningIn, SupplierSigns
    <3>2. SignInIsOnItsWay'
      BY <1>0, <2>2 DEF Enqueue, Return, SigningIn, SupplierSigns,
         SignInIsOnItsWay
    <3> QED
      BY <3>1, <3>2 DEF SigningIn
  <2> QED
    BY <1>2, <1>4, <2>1, <2>2 DEF CallerSteps
<1>5. CASE WorkerSteps
  <2>1. CASE Take
    BY <1>0, <2>1 DEF Take, WorkerLocals, SigningIn, SupplierSigns,
       SignInIsOnItsWay
  <2>2. CASE Persist \/ NotifyRejected \/ \E k \in Tokens : NextReport(k)
    BY <1>0, <2>2, SigningFrame DEF Persist, NotifyRejected, NextReport
  <2>3. CASE Flush
    BY <1>0, <1>1, <1>3, <2>3 DEF Flush
  <2>4. CASE Announce \/ Complete
    BY <1>0, <2>4 DEF Announce, Complete, NextRound, SigningIn, SupplierSigns,
       SignInIsOnItsWay
  <2> QED
    BY <1>2, <1>5, <2>1, <2>2, <2>3, <2>4 DEF WorkerSteps
<1>6. CASE ServerSteps
  <2>1. CASE Store \/ ClearToken
    BY <1>0, <2>1, SigningFrame DEF Store, ClearToken
  <2>2. CASE RemoveId
    BY <1>0, <1>1, <2>2 DEF RemoveId
  <2> QED
    BY <1>2, <1>3, <1>6, <2>1, <2>2 DEF ServerSteps, InstallFlush
<1>7. CASE Environment
  <2>1. ASSUME NEW t \in Callers, Call(t) \/ CallSubscribe(t) PROVE SigningIn'
    BY <1>0, <1>3, <2>1, SigningFrame DEF Call, CallSubscribe
  <2>2. ASSUME NEW t \in Suppliers, NEW k \in Tokens \cup {NoToken},
               NEW id \in AppIds \cup {NoId}, Supply(t, k, id)
        PROVE  SigningIn'
    <3>1. SupplierSigns'
      BY <1>0, <2>2 DEF Supply, OneSupplier, SigningIn, SupplierSigns
    <3>2. SignInIsOnItsWay'
      BY <1>0, <2>2 DEF Supply, OneSupplier, SigningIn, SupplierSigns,
         SignInIsOnItsWay
    <3> QED
      BY <3>1, <3>2 DEF SigningIn
  <2>3. CASE (\E id \in AppIds : Install(id)) \/ Uninstall \/ Destroy
             \/ \E k \in Tokens : Expire(k)
    BY <1>0, <2>3, SigningFrame DEF Install, Uninstall, Destroy, Expire
  <2> QED
    BY <1>7, <2>1, <2>2, <2>3 DEF Environment
<1>8. CASE Destruction \/ UNCHANGED vars
  BY <1>8, SigningFrame DEF Destruction, StopServer, JoinWorker
<1> QED
  BY <1>4, <1>5, <1>6, <1>7, <1>8 DEF Next

\* With one supplier, no refresh, sign-out or webhook drops the announcement
\* of the sign-in that stands.
THEOREM SignInKeepsItsAnnouncement ==
  ASSUME OneSupplier
  PROVE  Spec => []SignInIsOnItsWay
<1>1. Init => SigningIn
  BY DEF Init, SigningIn, SupplierSigns, SignInIsOnItsWay
<1>2. Typed /\ WorkerLocals /\ SigningIn /\ [Next]_vars => SigningIn'
  BY SigningStep
<1>3. IInv => Typed /\ WorkerLocals
  BY DEF IInv
<1>4. SigningIn => SignInIsOnItsWay
  BY DEF SigningIn
<1> QED
  BY <1>1, <1>2, <1>3, <1>4, InductiveInvariant, PTL DEF Spec

=============================================================================
