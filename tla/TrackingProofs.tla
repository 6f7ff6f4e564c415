---------------------------- MODULE TrackingProofs ----------------------------
(***************************************************************************)
(* More theorems about Subscriptions: a released Device's clean-up and     *)
(* ~Client() exclude each other, a parked device has no subscription, no   *)
(* step loses track of a device unnoticed, no subscription leaks or is     *)
(* made twice, ~Client() leaves nothing behind, and the two mutexes are    *)
(* taken in one order.                                                     *)
(***************************************************************************)
EXTENDS SubscriptionsProofs

\* A thread that cleans up after a Device holds the hub's mutex.
HubHeld == \A t \in Threads : pc[t] \in {"erase", "delete"} => hubLock = t

Hub == Typed /\ HubHeld /\ ReleaseBeforeTeardown

\* Who cleans up holds the hub, which is disarmed under it.
LEMMA HubStep == Typed' /\ Hub /\ [Next]_vars => Hub'
<1> SUFFICES ASSUME Typed', Hub, [Next]_vars PROVE Hub'
  OBVIOUS
<1> USE ThreadsAssumption
    DEF Threads, Flushers, Goto, At, vars, client, account, creds, life,
        tables, locks, locals, world, cloud, history, counters
<1>1. ASSUME NEW t \in Threads, Internal(t) PROVE Hub'
  <2>1. CASE Register(t)
    BY <2>1 DEF Register, Hub, HubHeld, ReleaseBeforeTeardown
  <2>2. CASE Check(t)
    BY <2>2 DEF Check, Return, Hub, HubHeld, ReleaseBeforeTeardown, Typed,
       TypeOK, TypeThreads
  <2>3. CASE CheckApp(t)
    BY <2>3 DEF CheckApp, Return, Hub, HubHeld, ReleaseBeforeTeardown, Typed,
       TypeOK, TypeThreads
  <2>4. CASE Load(t)
    BY <2>4 DEF Load, Hub, HubHeld, ReleaseBeforeTeardown
  <2>5. CASE List(t)
    BY <2>5 DEF List, Hub, HubHeld, ReleaseBeforeTeardown, Typed, TypeOK,
       TypeThreads
  <2>6. CASE ListFailed(t)
    BY <2>6 DEF ListFailed, Hub, HubHeld, ReleaseBeforeTeardown
  <2>7. CASE Fill(t)
    BY <2>7 DEF Fill, Hub, HubHeld, ReleaseBeforeTeardown, Typed, TypeOK,
       TypeThreads
  <2>8. CASE Weed(t)
    BY <2>8 DEF Weed, Hub, HubHeld, ReleaseBeforeTeardown, Typed, TypeOK,
       TypeThreads
  <2>9. CASE Adopt(t)
    BY <2>9 DEF Adopt, Hub, HubHeld, ReleaseBeforeTeardown
  <2>10. CASE Create(t)
    BY <2>10 DEF Create, Hub, HubHeld, ReleaseBeforeTeardown
  <2>11. CASE Record(t)
    BY <2>11 DEF Record, Return, Hub, HubHeld, ReleaseBeforeTeardown
  <2>12. CASE Prune(t)
    BY <2>12 DEF Prune, Return, Hub, HubHeld, ReleaseBeforeTeardown, HubFree,
       Armed, Typed, TypeOK, TypeThreads
  <2>13. CASE Erase(t)
    BY <2>13 DEF Erase, Return, HubAfter, Hub, HubHeld, ReleaseBeforeTeardown,
       Typed, TypeOK, TypeThreads
  <2>14. CASE DeleteReleased(t)
    BY <2>14 DEF DeleteReleased, Return, Hub, HubHeld, ReleaseBeforeTeardown,
       Typed, TypeOK, TypeThreads
  <2>15. CASE SetApp(t)
    BY <2>15 DEF SetApp, Hub, HubHeld, ReleaseBeforeTeardown
  <2>16. CASE QueueFlush(t)
    BY <2>16 DEF QueueFlush, Hub, HubHeld, ReleaseBeforeTeardown
  <2>17. CASE Drain(t)
    BY <2>17 DEF Drain, Hub, HubHeld, ReleaseBeforeTeardown
  <2>18. CASE FlushNext(t)
    BY <2>18 DEF FlushNext, Hub, HubHeld, ReleaseBeforeTeardown
  <2>19. CASE FlushEnd(t)
    BY <2>19 DEF FlushEnd, Hub, HubHeld, ReleaseBeforeTeardown
  <2> QED
    BY <1>1, <2>1, <2>2, <2>3, <2>4, <2>5, <2>6, <2>7, <2>8, <2>9, <2>10,
       <2>11, <2>12, <2>13, <2>14, <2>15, <2>16, <2>17, <2>18, <2>19 DEF
       Internal
<1>2. ASSUME NEW t \in Callers, Calls(t) PROVE Hub'
  <2>1. ASSUME NEW d \in Devices, GetDevice(t, d) PROVE Hub'
    BY <2>1 DEF GetDevice, Hub, HubHeld, ReleaseBeforeTeardown
  <2>2. ASSUME NEW d \in Devices, Drop(t, d) PROVE Hub'
    BY <2>2 DEF Drop, Hub, HubHeld, ReleaseBeforeTeardown
  <2>3. CASE SetToken(t)
    BY <2>3 DEF SetToken, Hub, HubHeld, ReleaseBeforeTeardown
  <2>4. CASE SignOut(t)
    BY <2>4 DEF SignOut, Hub, HubHeld, ReleaseBeforeTeardown
  <2> QED
    BY <1>2, <2>1, <2>2, <2>3, <2>4 DEF Calls
<1>3. CASE WorkerTake
  BY <1>3 DEF WorkerTake, Hub, HubHeld, ReleaseBeforeTeardown
<1>4. CASE Install
  BY <1>4 DEF Install, Hub, HubHeld, ReleaseBeforeTeardown
<1>5. CASE Uninstall
  BY <1>5 DEF Uninstall, Hub, HubHeld, ReleaseBeforeTeardown
<1>6. CASE ClearToken
  BY <1>6 DEF ClearToken, Hub, HubHeld, ReleaseBeforeTeardown
<1>7. CASE ClearTables
  BY <1>7 DEF ClearTables, Hub, HubHeld, ReleaseBeforeTeardown
<1>8. CASE Destroy
  BY <1>8 DEF Destroy, Hub, HubHeld, ReleaseBeforeTeardown
<1>9. CASE StopServer
  BY <1>9 DEF StopServer, Hub, HubHeld, ReleaseBeforeTeardown
<1>10. CASE Disarm
  BY <1>10 DEF Disarm, Hub, HubHeld, ReleaseBeforeTeardown, HubFree
<1>11. CASE DeleteRemaining
  BY <1>11 DEF DeleteRemaining, Hub, HubHeld, ReleaseBeforeTeardown
<1>12. CASE Gone
  BY <1>12 DEF Gone, Hub, HubHeld, ReleaseBeforeTeardown
<1>13. CASE CloudInstall
  BY <1>13 DEF CloudInstall, Hub, HubHeld, ReleaseBeforeTeardown
<1>14. CASE CloudUninstall
  BY <1>14 DEF CloudUninstall, Hub, HubHeld, ReleaseBeforeTeardown
<1>15. CASE UNCHANGED vars
  BY <1>15 DEF Hub, HubHeld, ReleaseBeforeTeardown
<1> QED
  BY <1>1, <1>2, <1>3, <1>4, <1>5, <1>6, <1>7, <1>8, <1>9, <1>10, <1>11,
     <1>12, <1>13, <1>14, <1>15 DEF Next, ServerSteps, Destruction,
     Environment

\* A release that is past the hub's check is never overtaken by ~Client()'s
\* teardown, for any number of threads that drop Devices.
THEOREM ReleasesEndFirst == Spec => []ReleaseBeforeTeardown
<1>1. Init => Hub
  BY TypedInit, ThreadsAssumption
  DEF Init, Hub, HubHeld, ReleaseBeforeTeardown, Threads
<1>2. Hub => Typed /\ ReleaseBeforeTeardown
  BY DEF Hub
<1>3. Hub /\ [Next]_vars => Hub'
  BY <1>2, HubStep, TypedStep
<1> QED
  BY <1>1, <1>2, <1>3, PTL DEF Spec

-----------------------------------------------------------------------------
\* A device is parked by a thread that has found it without a subscription, or
\* whose creation of one has kept all others from it.
LEMMA ParkedStep ==
  IInv /\ ParkedNotSubscribed /\ [Next]_vars => ParkedNotSubscribed'
<1> SUFFICES ASSUME IInv, ParkedNotSubscribed, [Next]_vars
             PROVE  ParkedNotSubscribed'
  OBVIOUS
<1> USE ThreadsAssumption
    DEF Threads, Flushers, Goto, At, vars, client, account, creds, life,
        tables, locks, locals, world, cloud, history, counters
<1>1. ASSUME NEW t \in Threads, Internal(t) PROVE ParkedNotSubscribed'
  <2>1. CASE Register(t)
    BY <2>1 DEF Register, ParkedNotSubscribed, Stopping
  <2>2. CASE Check(t)
    BY <2>2 DEF Check, Busy, ParkedNotSubscribed, Stopping
  <2>3. CASE CheckApp(t)
    BY <2>3 DEF CheckApp, IInv, ParkedNotSubscribed, Stopping, CheckedFree
  <2>4. CASE Load(t)
    BY <2>4 DEF Load, ParkedNotSubscribed, Stopping
  <2>5. CASE List(t)
    BY <2>5 DEF List, ParkedNotSubscribed, Stopping
  <2>6. CASE ListFailed(t)
    BY <2>6 DEF ListFailed, ParkedNotSubscribed, Stopping
  <2>7. CASE Fill(t)
    BY <2>7 DEF Fill, ParkedNotSubscribed, Stopping
  <2>8. CASE Weed(t)
    BY <2>8 DEF Weed, ParkedNotSubscribed, Stopping
  <2>9. CASE Adopt(t)
    BY <2>9 DEF Adopt, ParkedNotSubscribed, Stopping
  <2>10. CASE Create(t)
    BY <2>10 DEF Create, ParkedNotSubscribed, Stopping
  <2>11. CASE Record(t)
    BY <2>11 DEF Record, PendingAfter, IInv, ParkedNotSubscribed, Stopping,
       NeverOverwrites, Exclusive, Creating
  <2>12. CASE Prune(t)
    BY <2>12 DEF Prune, ParkedNotSubscribed, Stopping
  <2>13. CASE Erase(t)
    BY <2>13 DEF Erase, ParkedNotSubscribed, Stopping
  <2>14. CASE DeleteReleased(t)
    BY <2>14 DEF DeleteReleased, ParkedNotSubscribed, Stopping
  <2>15. CASE SetApp(t)
    BY <2>15 DEF SetApp, ParkedNotSubscribed, Stopping
  <2>16. CASE QueueFlush(t)
    BY <2>16 DEF QueueFlush, ParkedNotSubscribed, Stopping
  <2>17. CASE Drain(t)
    BY <2>17 DEF Drain, ParkedNotSubscribed
  <2>18. CASE FlushNext(t)
    BY <2>18 DEF FlushNext, ParkedNotSubscribed
  <2>19. CASE FlushEnd(t)
    BY <2>19 DEF FlushEnd, ParkedNotSubscribed, Stopping
  <2> QED
    BY <1>1, <2>1, <2>2, <2>3, <2>4, <2>5, <2>6, <2>7, <2>8, <2>9, <2>10,
       <2>11, <2>12, <2>13, <2>14, <2>15, <2>16, <2>17, <2>18, <2>19 DEF
       Internal
<1>2. ASSUME NEW t \in Callers, Calls(t) PROVE ParkedNotSubscribed'
  <2>1. ASSUME NEW d \in Devices, GetDevice(t, d) PROVE ParkedNotSubscribed'
    BY <2>1 DEF GetDevice, ParkedNotSubscribed, Stopping
  <2>2. ASSUME NEW d \in Devices, Drop(t, d) PROVE ParkedNotSubscribed'
    BY <2>2 DEF Drop, ParkedNotSubscribed, Stopping
  <2>3. CASE SetToken(t)
    BY <2>3 DEF SetToken, ParkedNotSubscribed, Stopping
  <2>4. CASE SignOut(t)
    BY <2>4 DEF SignOut, ParkedNotSubscribed, Stopping
  <2> QED
    BY <1>2, <2>1, <2>2, <2>3, <2>4 DEF Calls
<1>3. CASE WorkerTake
  BY <1>3 DEF WorkerTake, ParkedNotSubscribed
<1>4. CASE Install
  BY <1>4 DEF Install, ParkedNotSubscribed, Stopping
<1>5. CASE Uninstall
  BY <1>5 DEF Uninstall, ParkedNotSubscribed, Stopping
<1>6. CASE ClearToken
  BY <1>6 DEF ClearToken, ParkedNotSubscribed, Stopping
<1>7. CASE ClearTables
  BY <1>7 DEF ClearTables, ParkedNotSubscribed
<1>8. CASE Destroy
  BY <1>8 DEF Destroy, ParkedNotSubscribed, Stopping
<1>9. CASE StopServer
  BY <1>9 DEF StopServer, ParkedNotSubscribed, Stopping
<1>10. CASE Disarm
  BY <1>10 DEF Disarm, ParkedNotSubscribed, Stopping
<1>11. CASE DeleteRemaining
  BY <1>11 DEF DeleteRemaining, ParkedNotSubscribed, Stopping
<1>12. CASE Gone
  BY <1>12 DEF Gone, ParkedNotSubscribed, Stopping
<1>13. CASE CloudInstall
  BY <1>13 DEF CloudInstall, ParkedNotSubscribed, Stopping
<1>14. CASE CloudUninstall
  BY <1>14 DEF CloudUninstall, ParkedNotSubscribed, Stopping
<1>15. CASE UNCHANGED vars
  BY <1>15 DEF ParkedNotSubscribed, Stopping
<1> QED
  BY <1>1, <1>2, <1>3, <1>4, <1>5, <1>6, <1>7, <1>8, <1>9, <1>10, <1>11,
     <1>12, <1>13, <1>14, <1>15 DEF Next, ServerSteps, Destruction,
     Environment

\* A parked device has no subscription, whatever registrations, flushes,
\* releases and webhooks interleave, until ~Client() cuts a flush short.
THEOREM ParkedIsFree == Spec => []ParkedNotSubscribed
<1>1. Init => ParkedNotSubscribed
  BY DEF Init, ParkedNotSubscribed
<1>2. QED
  BY <1>1, ParkedStep, InductiveInvariant, PTL DEF Spec

-----------------------------------------------------------------------------
\* Where a thread has no flush under way.
Resting ==
  {"idle", "drain", "setApp", "queueFlush", "clearToken", "clearTables"}

\* A flush keeps its queue to itself, and drains only when it has none left.
QueueKept ==
  \A t \in Threads :
    /\ t \in Callers => queue[t] = {} /\ pc[t] # "drain"
    /\ pc[t] \in Resting => queue[t] = {}

LEMMA QueueStep == Typed /\ QueueKept /\ [Next]_vars => QueueKept'
<1> SUFFICES ASSUME Typed, QueueKept, [Next]_vars PROVE QueueKept'
  OBVIOUS
<1> USE ThreadsAssumption
    DEF Threads, Flushers, Goto, At, vars, client, account, creds, life,
        tables, locks, locals, world, cloud, history, counters
<1>1. ASSUME NEW t \in Threads, Internal(t) PROVE QueueKept'
  <2>1. CASE Register(t)
    BY <2>1 DEF Register, QueueKept, Resting
  <2>2. CASE Check(t)
    BY <2>2 DEF Check, Return, QueueKept, Resting, Typed, TypeOK, TypeThreads
  <2>3. CASE CheckApp(t)
    BY <2>3 DEF CheckApp, Return, QueueKept, Resting, Typed, TypeOK,
       TypeThreads
  <2>4. CASE Load(t)
    BY <2>4 DEF Load, QueueKept, Resting
  <2>5. CASE List(t)
    BY <2>5 DEF List, QueueKept, Resting, Typed, TypeOK, TypeThreads
  <2>6. CASE ListFailed(t)
    BY <2>6 DEF ListFailed, QueueKept, Resting
  <2>7. CASE Fill(t)
    BY <2>7 DEF Fill, QueueKept, Resting, Typed, TypeOK, TypeThreads
  <2>8. CASE Weed(t)
    BY <2>8 DEF Weed, QueueKept, Resting, Typed, TypeOK, TypeThreads
  <2>9. CASE Adopt(t)
    BY <2>9 DEF Adopt, QueueKept, Resting
  <2>10. CASE Create(t)
    BY <2>10 DEF Create, QueueKept, Resting
  <2>11. CASE Record(t)
    BY <2>11 DEF Record, Return, QueueKept, Resting
  <2>12. CASE Prune(t)
    BY <2>12 DEF Prune, Return, QueueKept, Resting, Typed, TypeOK, TypeThreads
  <2>13. CASE Erase(t)
    BY <2>13 DEF Erase, Return, QueueKept, Resting, Typed, TypeOK, TypeThreads
  <2>14. CASE DeleteReleased(t)
    BY <2>14 DEF DeleteReleased, Return, QueueKept, Resting
  <2>15. CASE SetApp(t)
    BY <2>15 DEF SetApp, QueueKept, Resting
  <2>16. CASE QueueFlush(t)
    BY <2>16 DEF QueueFlush, QueueKept, Resting
  <2>17. CASE Drain(t)
    BY <2>17 DEF Drain, QueueKept, Resting, Typed, TypeOK, TypeThreads
  <2>18. CASE FlushNext(t)
    BY <2>18 DEF FlushNext, QueueKept, Resting
  <2>19. CASE FlushEnd(t)
    BY <2>19 DEF FlushEnd, QueueKept, Typed, TypeOK, TypeThreads
  <2> QED
    BY <1>1, <2>1, <2>2, <2>3, <2>4, <2>5, <2>6, <2>7, <2>8, <2>9, <2>10,
       <2>11, <2>12, <2>13, <2>14, <2>15, <2>16, <2>17, <2>18, <2>19 DEF
       Internal
<1>2. ASSUME NEW t \in Callers, Calls(t) PROVE QueueKept'
  <2>1. ASSUME NEW d \in Devices, GetDevice(t, d) PROVE QueueKept'
    BY <2>1 DEF GetDevice, QueueKept
  <2>2. ASSUME NEW d \in Devices, Drop(t, d) PROVE QueueKept'
    BY <2>2 DEF Drop, QueueKept
  <2>3. CASE SetToken(t)
    BY <2>3 DEF SetToken, QueueKept
  <2>4. CASE SignOut(t)
    BY <2>4 DEF SignOut, QueueKept
  <2> QED
    BY <1>2, <2>1, <2>2, <2>3, <2>4 DEF Calls
<1>3. CASE WorkerTake
  BY <1>3 DEF WorkerTake, QueueKept, Resting
<1>4. CASE Install
  BY <1>4 DEF Install, Deliver, QueueKept, Resting
<1>5. CASE Uninstall
  BY <1>5 DEF Uninstall, Deliver, QueueKept, Resting
<1>6. CASE ClearToken
  BY <1>6 DEF ClearToken, QueueKept, Resting
<1>7. CASE ClearTables
  BY <1>7 DEF ClearTables, QueueKept, Resting
<1>8. CASE Destroy
  BY <1>8 DEF Destroy, QueueKept
<1>9. CASE StopServer
  BY <1>9 DEF StopServer, QueueKept
<1>10. CASE Disarm
  BY <1>10 DEF Disarm, QueueKept
<1>11. CASE DeleteRemaining
  BY <1>11 DEF DeleteRemaining, QueueKept
<1>12. CASE Gone
  BY <1>12 DEF Gone, QueueKept
<1>13. CASE CloudInstall
  BY <1>13 DEF CloudInstall, QueueKept
<1>14. CASE CloudUninstall
  BY <1>14 DEF CloudUninstall, QueueKept
<1>15. CASE UNCHANGED vars
  BY <1>15 DEF QueueKept
<1> QED
  BY <1>1, <1>2, <1>3, <1>4, <1>5, <1>6, <1>7, <1>8, <1>9, <1>10, <1>11,
     <1>12, <1>13, <1>14, <1>15 DEF Next, ServerSteps, Destruction,
     Environment

\* What a step may do that loses track of d.
Loses(d) == ClearTables \/ Disarm \/ \E t \in Threads : dev[t] = d /\ Erase(t)

LEMMA TrackedStep ==
  ASSUME IInv, QueueKept, [Next]_vars, NEW d \in Devices, Tracked(d)
  PROVE  Tracked(d)' \/ Loses(d)
<1> USE ThreadsAssumption
    DEF Threads, Flushers, Goto, At, vars, client, account, creds, life,
        tables, locks, locals, world, cloud, history, counters
<1>1. ASSUME NEW t \in Threads, Internal(t) PROVE Tracked(d)' \/ Loses(d)
  <2>1. CASE Register(t)
    BY <2>1 DEF Register, Tracked
  <2>2. CASE Check(t)
    BY <2>2 DEF Check, Return, Busy, IInv, Tracked, Typed, TypeOK, TypeThreads
  <2>3. CASE CheckApp(t)
    BY <2>3 DEF CheckApp, Return, IInv, Tracked, Typed, TypeOK, TypeThreads
  <2>4. CASE Load(t)
    BY <2>4 DEF Load, Tracked
  <2>5. CASE List(t)
    BY <2>5 DEF List, IInv, Tracked, Typed, TypeOK, TypeThreads
  <2>6. CASE ListFailed(t)
    BY <2>6 DEF ListFailed, Tracked
  <2>7. CASE Fill(t)
    BY <2>7 DEF Fill, IInv, Tracked, Typed, TypeOK, TypeThreads
  <2>8. CASE Weed(t)
    BY <2>8 DEF Weed, IInv, Tracked, Typed, TypeOK, TypeThreads
  <2>9. CASE Adopt(t)
    BY <2>9 DEF Adopt, Tracked
  <2>10. CASE Create(t)
    BY <2>10 DEF Create, Tracked
  <2>11. CASE Record(t)
    BY <2>11 DEF Record, Return, PendingAfter, IInv, Tracked, TypeClient,
       Typed, TypeOK
  <2>12. CASE Prune(t)
    BY <2>12 DEF Prune, Return, IInv, Tracked, Typed, TypeOK, TypeThreads
  <2>13. CASE Erase(t)
    BY <2>13 DEF Erase, Return, IInv, Tracked, TypeClient, Typed, TypeOK,
       TypeThreads, Loses
  <2>14. CASE DeleteReleased(t)
    BY <2>14 DEF DeleteReleased, Return, Tracked
  <2>15. CASE SetApp(t)
    BY <2>15 DEF SetApp, Tracked
  <2>16. CASE QueueFlush(t)
    BY <2>16 DEF QueueFlush, Tracked
  <2>17. CASE Drain(t)
    BY <2>17 DEF Drain, IInv, Tracked, Typed, TypeOK, TypeThreads, QueueKept,
       Resting
  <2>18. CASE FlushNext(t)
    BY <2>18 DEF FlushNext, IInv, Tracked, Typed, TypeOK, TypeThreads
  <2>19. CASE FlushEnd(t)
    BY <2>19 DEF FlushEnd, Tracked
  <2> QED
    BY <1>1, <2>1, <2>2, <2>3, <2>4, <2>5, <2>6, <2>7, <2>8, <2>9, <2>10,
       <2>11, <2>12, <2>13, <2>14, <2>15, <2>16, <2>17, <2>18, <2>19 DEF
       Internal
<1>2. ASSUME NEW t \in Callers, Calls(t) PROVE Tracked(d)' \/ Loses(d)
  <2>1. ASSUME NEW e \in Devices, GetDevice(t, e) PROVE Tracked(d)' \/ Loses(d)
    BY <2>1 DEF GetDevice, Tracked
  <2>2. ASSUME NEW e \in Devices, Drop(t, e) PROVE Tracked(d)' \/ Loses(d)
    BY <2>2 DEF Drop, Tracked
  <2>3. CASE SetToken(t)
    BY <2>3 DEF SetToken, Tracked
  <2>4. CASE SignOut(t)
    BY <2>4 DEF SignOut, Tracked
  <2> QED
    BY <1>2, <2>1, <2>2, <2>3, <2>4 DEF Calls
<1>3. CASE WorkerTake
  BY <1>3 DEF WorkerTake, Tracked
<1>4. CASE Install
  BY <1>4 DEF Install, Deliver, Tracked
<1>5. CASE Uninstall
  BY <1>5 DEF Uninstall, Deliver, Tracked
<1>6. CASE ClearToken
  BY <1>6 DEF ClearToken, Tracked
<1>7. CASE ClearTables
  BY <1>7 DEF Loses
<1>8. CASE Destroy
  BY <1>8 DEF Destroy, Tracked
<1>9. CASE StopServer
  BY <1>9 DEF StopServer, Tracked
<1>10. CASE Disarm
  BY <1>10 DEF Loses
<1>11. CASE DeleteRemaining
  BY <1>11 DEF DeleteRemaining, Tracked
<1>12. CASE Gone
  BY <1>12 DEF Gone, Tracked
<1>13. CASE CloudInstall
  BY <1>13 DEF CloudInstall, Tracked
<1>14. CASE CloudUninstall
  BY <1>14 DEF CloudUninstall, Tracked
<1>15. CASE UNCHANGED vars
  BY <1>15 DEF Tracked
<1> QED
  BY <1>1, <1>2, <1>3, <1>4, <1>5, <1>6, <1>7, <1>8, <1>9, <1>10, <1>11,
     <1>12, <1>13, <1>14, <1>15 DEF Next, ServerSteps, Destruction,
     Environment

\* For any number of devices and threads, only the release of its last Device,
\* UNINSTALL and ~Client() make the Client lose track of a device.
THEOREM DevicesStayTracked == Spec => NeverForgets
<1>1. Init => QueueKept
  BY ThreadsAssumption DEF Init, QueueKept
<1>2. IInv => Typed
  BY DEF IInv
<1>3. IInv /\ QueueKept /\ [Next]_vars =>
        [\A d \in Devices : Tracked(d) /\ ~Tracked(d)' =>
           ClearTables \/ Disarm
             \/ \E t \in Threads : dev[t] = d /\ Erase(t)]_vars
  BY TrackedStep DEF Loses
<1> QED
  BY <1>1, <1>2, <1>3, QueueStep, InductiveInvariant, PTL DEF Spec, NeverForgets

-----------------------------------------------------------------------------
\* Who can still be where while ~Client() goes on, and what it has to delete.
Ending ==
  /\ \A t \in Flushers :
       pc[t] \notin {"register", "released", "erase", "delete"}
  /\ phase # "running" =>
       \A t \in Callers : pc[t] \in {"idle", "released", "erase", "delete"}
  /\ phase \in {"stopWorker", "teardown", "gone"} => pc[Server] = "idle"
  /\ phase \in {"teardown", "gone"} =>
       pc[Worker] = "idle" /\ subscribed = NoSubs
  /\ phase # "teardown" => remaining = {}

\* ~Client() waits for the callers, the server and the worker in this order.
LEMMA EndingStep == Typed /\ Ending /\ [Next]_vars => Ending'
<1> SUFFICES ASSUME Typed, Ending, [Next]_vars PROVE Ending'
  OBVIOUS
<1> USE ThreadsAssumption
    DEF Threads, Flushers, Goto, At, vars, client, account, creds, life,
        tables, locks, locals, world, cloud, history, counters
<1>1. ASSUME NEW t \in Threads, Internal(t) PROVE Ending'
  <2>1. CASE Register(t)
    BY <2>1 DEF Register, Ending
  <2>2. CASE Check(t)
    BY <2>2 DEF Check, Return, Busy, Ending, Typed, TypeOK, TypeThreads
  <2>3. CASE CheckApp(t)
    BY <2>3 DEF CheckApp, Return, Ending, Typed, TypeOK, TypeThreads
  <2>4. CASE Load(t)
    BY <2>4 DEF Load, Ending
  <2>5. CASE List(t)
    BY <2>5 DEF List, Ending, Typed, TypeOK, TypeThreads
  <2>6. CASE ListFailed(t)
    BY <2>6 DEF ListFailed, Ending
  <2>7. CASE Fill(t)
    BY <2>7 DEF Fill, Ending, Typed, TypeOK, TypeThreads
  <2>8. CASE Weed(t)
    BY <2>8 DEF Weed, Ending, Typed, TypeOK, TypeThreads
  <2>9. CASE Adopt(t)
    BY <2>9 DEF Adopt, Ending
  <2>10. CASE Create(t)
    BY <2>10 DEF Create, Ending
  <2>11. CASE Record(t)
    BY <2>11 DEF Record, Return, PendingAfter, Ending, NoSubs
  <2>12. CASE Prune(t)
    BY <2>12 DEF Prune, Return, HubFree, Armed, Ending, Typed, TypeOK,
       TypeThreads
  <2>13. CASE Erase(t)
    BY <2>13 DEF Erase, Return, HubAfter, Ending, Typed, TypeOK, TypeThreads,
       NoSubs
  <2>14. CASE DeleteReleased(t)
    BY <2>14 DEF DeleteReleased, Return, Ending
  <2>15. CASE SetApp(t)
    BY <2>15 DEF SetApp, Ending
  <2>16. CASE QueueFlush(t)
    BY <2>16 DEF QueueFlush, Ending
  <2>17. CASE Drain(t)
    BY <2>17 DEF Drain, Ending
  <2>18. CASE FlushNext(t)
    BY <2>18 DEF FlushNext, Ending
  <2>19. CASE FlushEnd(t)
    BY <2>19 DEF FlushEnd, Ending
  <2> QED
    BY <1>1, <2>1, <2>2, <2>3, <2>4, <2>5, <2>6, <2>7, <2>8, <2>9, <2>10,
       <2>11, <2>12, <2>13, <2>14, <2>15, <2>16, <2>17, <2>18, <2>19 DEF
       Internal
<1>2. ASSUME NEW t \in Callers, Calls(t) PROVE Ending'
  <2>1. ASSUME NEW e \in Devices, GetDevice(t, e) PROVE Ending'
    BY <2>1 DEF GetDevice, Ending
  <2>2. ASSUME NEW e \in Devices, Drop(t, e) PROVE Ending'
    BY <2>2 DEF Drop, Ending
  <2>3. CASE SetToken(t)
    BY <2>3 DEF SetToken, Ending
  <2>4. CASE SignOut(t)
    BY <2>4 DEF SignOut, Ending
  <2> QED
    BY <1>2, <2>1, <2>2, <2>3, <2>4 DEF Calls
<1>3. CASE WorkerTake
  BY <1>3 DEF WorkerTake, Ending, Stopping
<1>4. CASE Install
  BY <1>4 DEF Install, Deliver, Ending
<1>5. CASE Uninstall
  BY <1>5 DEF Uninstall, Deliver, Ending
<1>6. CASE ClearToken
  BY <1>6 DEF ClearToken, Ending
<1>7. CASE ClearTables
  BY <1>7 DEF ClearTables, Ending, NoSubs
<1>8. CASE Destroy
  BY <1>8 DEF Destroy, Ending
<1>9. CASE StopServer
  BY <1>9 DEF StopServer, Ending
<1>10. CASE Disarm
  BY <1>10 DEF Disarm, TearDown, HubFree, Ending, NoSubs
<1>11. CASE DeleteRemaining
  BY <1>11 DEF DeleteRemaining, Ending
<1>12. CASE Gone
  BY <1>12 DEF Gone, Ending
<1>13. CASE CloudInstall
  BY <1>13 DEF CloudInstall, Ending
<1>14. CASE CloudUninstall
  BY <1>14 DEF CloudUninstall, Ending
<1>15. CASE UNCHANGED vars
  BY <1>15 DEF Ending
<1> QED
  BY <1>1, <1>2, <1>3, <1>4, <1>5, <1>6, <1>7, <1>8, <1>9, <1>10, <1>11,
     <1>12, <1>13, <1>14, <1>15 DEF Next, ServerSteps, Destruction,
     Environment

\* A thread has a subscription id in hand only where it records or deletes it.
SubHeld == \A t \in Threads : sub[t] # NoSub => pc[t] \in {"record", "delete"}

\* An id is in a thread's hands from the request or the table it comes from to
\* the table or the request it goes to.
LEMMA SubHeldStep == Typed /\ SubHeld /\ [Next]_vars => SubHeld'
<1> SUFFICES ASSUME Typed, SubHeld, [Next]_vars PROVE SubHeld'
  OBVIOUS
<1> USE ThreadsAssumption
    DEF Threads, Flushers, Goto, At, vars, client, account, creds, life,
        tables, locks, locals, world, cloud, history, counters
<1>1. ASSUME NEW t \in Threads, Internal(t) PROVE SubHeld'
  <2>1. CASE Register(t)
    BY <2>1 DEF Register, SubHeld
  <2>2. CASE Check(t)
    BY <2>2 DEF Check, Return, Busy, SubHeld, Typed, TypeOK, TypeThreads
  <2>3. CASE CheckApp(t)
    BY <2>3 DEF CheckApp, Return, SubHeld, Typed, TypeOK, TypeThreads
  <2>4. CASE Load(t)
    BY <2>4 DEF Load, SubHeld
  <2>5. CASE List(t)
    BY <2>5 DEF List, SubHeld, Typed, TypeOK, TypeThreads
  <2>6. CASE ListFailed(t)
    BY <2>6 DEF ListFailed, SubHeld
  <2>7. CASE Fill(t)
    BY <2>7 DEF Fill, SubHeld, Typed, TypeOK, TypeThreads
  <2>8. CASE Weed(t)
    BY <2>8 DEF Weed, SubHeld, Typed, TypeOK, TypeThreads
  <2>9. CASE Adopt(t)
    BY <2>9 DEF Adopt, SubHeld, Typed, TypeOK, TypeThreads
  <2>10. CASE Create(t)
    BY <2>10 DEF Create, SubHeld, Typed, TypeOK, TypeThreads
  <2>11. CASE Record(t)
    BY <2>11 DEF Record, Return, PendingAfter, SubHeld, Typed, TypeOK,
       TypeThreads
  <2>12. CASE Prune(t)
    BY <2>12 DEF Prune, Return, HubFree, Armed, SubHeld, Typed, TypeOK,
       TypeThreads
  <2>13. CASE Erase(t)
    BY <2>13 DEF Erase, Return, HubAfter, SubHeld, Typed, TypeOK, TypeThreads
  <2>14. CASE DeleteReleased(t)
    BY <2>14 DEF DeleteReleased, Return, SubHeld, Typed, TypeOK, TypeThreads
  <2>15. CASE SetApp(t)
    BY <2>15 DEF SetApp, SubHeld
  <2>16. CASE QueueFlush(t)
    BY <2>16 DEF QueueFlush, SubHeld
  <2>17. CASE Drain(t)
    BY <2>17 DEF Drain, SubHeld
  <2>18. CASE FlushNext(t)
    BY <2>18 DEF FlushNext, SubHeld
  <2>19. CASE FlushEnd(t)
    BY <2>19 DEF FlushEnd, SubHeld
  <2> QED
    BY <1>1, <2>1, <2>2, <2>3, <2>4, <2>5, <2>6, <2>7, <2>8, <2>9, <2>10,
       <2>11, <2>12, <2>13, <2>14, <2>15, <2>16, <2>17, <2>18, <2>19 DEF
       Internal
<1>2. ASSUME NEW t \in Callers, Calls(t) PROVE SubHeld'
  <2>1. ASSUME NEW e \in Devices, GetDevice(t, e) PROVE SubHeld'
    BY <2>1 DEF GetDevice, SubHeld
  <2>2. ASSUME NEW e \in Devices, Drop(t, e) PROVE SubHeld'
    BY <2>2 DEF Drop, SubHeld
  <2>3. CASE SetToken(t)
    BY <2>3 DEF SetToken, SubHeld
  <2>4. CASE SignOut(t)
    BY <2>4 DEF SignOut, SubHeld
  <2> QED
    BY <1>2, <2>1, <2>2, <2>3, <2>4 DEF Calls
<1>3. CASE WorkerTake
  BY <1>3 DEF WorkerTake, SubHeld
<1>4. CASE Install
  BY <1>4 DEF Install, Deliver, SubHeld
<1>5. CASE Uninstall
  BY <1>5 DEF Uninstall, Deliver, SubHeld
<1>6. CASE ClearToken
  BY <1>6 DEF ClearToken, SubHeld
<1>7. CASE ClearTables
  BY <1>7 DEF ClearTables, SubHeld
<1>8. CASE Destroy
  BY <1>8 DEF Destroy, SubHeld
<1>9. CASE StopServer
  BY <1>9 DEF StopServer, SubHeld
<1>10. CASE Disarm
  BY <1>10 DEF Disarm, TearDown, HubFree, SubHeld
<1>11. CASE DeleteRemaining
  BY <1>11 DEF DeleteRemaining, SubHeld
<1>12. CASE Gone
  BY <1>12 DEF Gone, SubHeld
<1>13. CASE CloudInstall
  BY <1>13 DEF CloudInstall, SubHeld
<1>14. CASE CloudUninstall
  BY <1>14 DEF CloudUninstall, SubHeld
<1>15. CASE UNCHANGED vars
  BY <1>15 DEF SubHeld
<1> QED
  BY <1>1, <1>2, <1>3, <1>4, <1>5, <1>6, <1>7, <1>8, <1>9, <1>10, <1>11,
     <1>12, <1>13, <1>14, <1>15 DEF Next, ServerSteps, Destruction,
     Environment

\* A subscription that is deleted is gone or given up, and no other is.
LEMMA DeletedOrGivenUp ==
  ASSUME NEW s, DeleteSubscription(s)
  PROVE  /\ cloudSubs' \subseteq cloudSubs
         /\ abandoned \cap cloudSubs' \subseteq abandoned'
         /\ s \in cloudSubs' => s \in abandoned'
BY DEF DeleteSubscription

\* A step after which what was accounted for still is.
LEMMA LeakFrame ==
  ASSUME Typed, NoSilentLeak, cloudSubs' \subseteq cloudSubs,
         UNCHANGED <<subscribed, remaining>>,
         abandoned \cap cloudSubs' \subseteq abandoned',
         \A t \in Threads :
           /\ sub[t] # NoSub /\ sub'[t] # sub[t]
           /\ sub[t] \in cloudSubs'
           => sub[t] \in abandoned'
  PROVE  NoSilentLeak'
BY LeftoversAssumption DEF NoSilentLeak, Typed, TypeOK, TypeWorld

\* One case per step: only those that create, record, erase, delete or forget
\* a subscription touch what the invariant speaks of.
LEMMA LeakStep ==
  IInv /\ SubHeld /\ Ending /\ NoSilentLeak /\ [Next]_vars => NoSilentLeak'
<1> SUFFICES ASSUME IInv, SubHeld, Ending, NoSilentLeak, [Next]_vars
             PROVE  NoSilentLeak'
  OBVIOUS
<1>0. Typed
  BY DEF IInv
<1> USE <1>0, LeftoversAssumption, ThreadsAssumption
    DEF Threads, Flushers, Goto, At, vars, client, account, creds, life,
        tables, locks, locals, world, cloud, history, counters
<1>1. ASSUME NEW t \in Threads, Internal(t) PROVE NoSilentLeak'
  <2>1. CASE Register(t)
    BY <2>1, LeakFrame DEF Register
  <2>2. CASE Check(t)
    BY <2>2, LeakFrame DEF Check, Return, Busy, SubHeld, Typed, TypeOK,
       TypeThreads
  <2>3. CASE CheckApp(t)
    BY <2>3, LeakFrame DEF CheckApp, Return, SubHeld, Typed, TypeOK,
       TypeThreads
  <2>4. CASE Load(t)
    BY <2>4, LeakFrame DEF Load
  <2>5. CASE List(t)
    BY <2>5, LeakFrame DEF List
  <2>6. CASE ListFailed(t)
    BY <2>6, LeakFrame DEF ListFailed
  <2>7. CASE Fill(t)
    BY <2>7, LeakFrame DEF Fill
  <2>8. CASE Weed(t)
    BY <2>8, DeletedOrGivenUp, LeakFrame DEF Weed
  <2>9. CASE Adopt(t)
    BY <2>9, LeakFrame DEF Adopt, SubHeld
  <2>10. CASE Create(t)
    <3>1. \A u \in Threads : sub[u] # NoSub => u # t
      BY <2>10 DEF Create, SubHeld
    <3>2. CASE UNCHANGED <<sub, cloudSubs, abandoned>>
      BY <2>10, <3>2, LeakFrame DEF Create
    <3>3. ASSUME NEW new, cloudSubs' = cloudSubs \cup {new},
                 \/ sub' = [sub EXCEPT ![t] = new] /\ UNCHANGED abandoned
                 \/ UNCHANGED sub /\ abandoned' = abandoned \cup {new}
          PROVE  NoSilentLeak'
      <4>1. UNCHANGED <<subscribed, remaining>>
        BY <2>10 DEF Create
      <4>2. new \in abandoned' \cup {sub'[u] : u \in Threads}
        BY <3>3 DEF Typed, TypeOK, TypeThreads
      <4>3. \A u \in Threads : sub[u] # NoSub => sub'[u] = sub[u]
        BY <3>1, <3>3 DEF Typed, TypeOK, TypeThreads
      <4> QED
        BY <3>3, <4>1, <4>2, <4>3 DEF NoSilentLeak, Typed, TypeOK, TypeWorld
    <3> QED
      BY <2>10, <3>2, <3>3 DEF Create
  <2>11. CASE Record(t)
    <3>1. dev[t] \in Devices /\ subscribed[dev[t]] = NoSub
      BY <2>11 DEF Record, IInv, HasDevice, Working, Creating, Exclusive,
         NeverOverwrites, Typed
    <3>2. CASE sub[t] = NoSub
      BY <2>11, <3>2, LeakFrame DEF Record, Return
    <3>3. CASE sub[t] # NoSub
      <4>1. /\ subscribed' = [subscribed EXCEPT ![dev[t]] = sub[t]]
            /\ \A u \in Threads \ {t} : sub'[u] = sub[u]
            /\ UNCHANGED <<cloudSubs, remaining, abandoned>>
        BY <2>11, <3>3 DEF Record, Return
      <4>2. IdsIn(subscribed') = IdsIn(subscribed) \cup {sub[t]}
        BY <3>1, <3>3, <4>1 DEF IdsIn, Typed, TypeOK, TypeClient
      <4> SUFFICES ASSUME NEW s \in cloudSubs, s.n > 0
                   PROVE  s \in IdsIn(subscribed') \cup remaining \cup abandoned
                                  \cup {sub'[u] : u \in Threads}
        BY <4>1 DEF NoSilentLeak, IdsIn
      <4>3. s \in IdsIn(subscribed) \cup remaining \cup abandoned
                    \cup {sub[u] : u \in Threads}
        BY DEF NoSilentLeak
      <4>4. ASSUME NEW u \in Threads, s = sub[u]
            PROVE  s \in IdsIn(subscribed') \cup {sub'[v] : v \in Threads}
        <5>1. CASE u = t
          BY <4>2, <4>4, <5>1
        <5>2. CASE u # t
          BY <4>1, <4>4, <5>2
        <5> QED
          BY <5>1, <5>2
      <4> QED
        BY <4>2, <4>3, <4>4
    <3> QED
      BY <3>2, <3>3
  <2>12. CASE Prune(t)
    BY <2>12, LeakFrame DEF Prune, Return, HubFree, Armed, SubHeld, Typed,
       TypeOK, TypeThreads
  <2>13. CASE Erase(t)
    <3>1. dev[t] \in Devices /\ sub[t] = NoSub
      BY <2>13 DEF Erase, HasDevice, Working, Typed, SubHeld
    <3>2. /\ subscribed' = [subscribed EXCEPT ![dev[t]] = NoSub]
          /\ sub' = [sub EXCEPT ![t] = subscribed[dev[t]]]
          /\ UNCHANGED <<cloudSubs, remaining, abandoned>>
      BY <2>13 DEF Erase, Return
    <3>3. IdsIn(subscribed) \subseteq IdsIn(subscribed') \cup {sub'[t]}
      BY <3>1, <3>2 DEF IdsIn, Typed, TypeOK, TypeClient, TypeThreads
    <3>4. \A u \in Threads : sub[u] # NoSub => sub'[u] = sub[u]
      BY <3>1, <3>2
    <3> SUFFICES ASSUME NEW s \in cloudSubs, s.n > 0
                 PROVE  s \in IdsIn(subscribed') \cup remaining \cup abandoned
                                \cup {sub'[u] : u \in Threads}
      BY <3>2 DEF NoSilentLeak, IdsIn
    <3>5. s # NoSub
      BY DEF Typed, TypeOK, TypeWorld
    <3>6. s \in IdsIn(subscribed) \cup remaining \cup abandoned
                  \cup {sub[u] : u \in Threads}
      BY DEF NoSilentLeak
    <3> QED
      BY <3>3, <3>4, <3>5, <3>6
  <2>14. CASE DeleteReleased(t)
    BY <2>14, DeletedOrGivenUp, LeakFrame DEF DeleteReleased, Return
  <2>15. CASE SetApp(t)
    BY <2>15, LeakFrame DEF SetApp
  <2>16. CASE QueueFlush(t)
    BY <2>16, LeakFrame DEF QueueFlush
  <2>17. CASE Drain(t)
    BY <2>17, LeakFrame DEF Drain
  <2>18. CASE FlushNext(t)
    BY <2>18, LeakFrame DEF FlushNext
  <2>19. CASE FlushEnd(t)
    BY <2>19, LeakFrame DEF FlushEnd
  <2> QED
    BY <1>1, <2>1, <2>2, <2>3, <2>4, <2>5, <2>6, <2>7, <2>8, <2>9, <2>10,
       <2>11, <2>12, <2>13, <2>14, <2>15, <2>16, <2>17, <2>18, <2>19 DEF
       Internal
<1>2. ASSUME NEW t \in Callers, Calls(t) PROVE NoSilentLeak'
  <2>1. ASSUME NEW e \in Devices, GetDevice(t, e) PROVE NoSilentLeak'
    BY <2>1, LeakFrame DEF GetDevice
  <2>2. ASSUME NEW e \in Devices, Drop(t, e) PROVE NoSilentLeak'
    BY <2>2, LeakFrame DEF Drop
  <2>3. CASE SetToken(t)
    BY <2>3, LeakFrame DEF SetToken
  <2>4. CASE SignOut(t)
    BY <2>4, LeakFrame DEF SignOut
  <2> QED
    BY <1>2, <2>1, <2>2, <2>3, <2>4 DEF Calls
<1>3. CASE WorkerTake
  BY <1>3, LeakFrame DEF WorkerTake
<1>4. CASE Install
  BY <1>4, LeakFrame DEF Install, Deliver
<1>5. CASE Uninstall
  BY <1>5, LeakFrame DEF Uninstall, Deliver
<1>6. CASE ClearToken
  BY <1>6, LeakFrame DEF ClearToken
<1>7. CASE ClearTables
  <2>1. /\ abandoned' = (abandoned \cup IdsIn(subscribed) \cup IdsIn(unclaimed))
                          \cap cloudSubs
        /\ UNCHANGED <<cloudSubs, remaining, sub>>
    BY <1>7 DEF ClearTables
  <2> QED
    BY <2>1 DEF NoSilentLeak
<1>8. CASE Destroy
  BY <1>8, LeakFrame DEF Destroy
<1>9. CASE StopServer
  BY <1>9, LeakFrame DEF StopServer
<1>10. CASE Disarm
  <2>1. /\ remaining = {} /\ remaining' = IdsIn(subscribed)
        /\ UNCHANGED <<cloudSubs, abandoned, sub>>
    BY <1>10 DEF Disarm, TearDown, Ending
  <2> QED
    BY <2>1 DEF NoSilentLeak
<1>11. CASE DeleteRemaining
  <2>1. PICK s \in remaining :
          DeleteSubscription(s) /\ remaining' = remaining \ {s}
    BY <1>11 DEF DeleteRemaining
  <2>2. UNCHANGED <<subscribed, sub>>
    BY <1>11 DEF DeleteRemaining
  <2> QED
    BY <2>1, <2>2, DeletedOrGivenUp DEF NoSilentLeak
<1>12. CASE Gone
  BY <1>12, LeakFrame DEF Gone
<1>13. CASE CloudInstall
  BY <1>13, LeakFrame DEF CloudInstall
<1>14. CASE CloudUninstall
  BY <1>14 DEF CloudUninstall, NoSilentLeak
<1>15. CASE UNCHANGED vars
  BY <1>15 DEF NoSilentLeak
<1> QED
  BY <1>1, <1>2, <1>3, <1>4, <1>5, <1>6, <1>7, <1>8, <1>9, <1>10, <1>11,
     <1>12, <1>13, <1>14, <1>15 DEF Next, ServerSteps, Destruction,
     Environment

\* The three invariants hold from the constructor on.
LEMMA LeakInvariant == Spec => [](Typed /\ SubHeld /\ Ending /\ NoSilentLeak)
<1>1. Init => SubHeld /\ Ending /\ NoSilentLeak
  BY ThreadsAssumption, LeftoversAssumption
  DEF Init, SubHeld, NoSilentLeak, Ending, Threads, Flushers
<1>2. IInv => Typed
  BY DEF IInv
<1> QED
  BY <1>1, <1>2, InductiveInvariant, SubHeldStep, EndingStep, LeakStep, PTL
     DEF Spec

\* Whatever happens, a subscription this run has created is recorded, in
\* somebody's hands or given up on one of the paths that give up.
THEOREM NothingLeaks == Spec => []NoSilentLeak
BY LeakInvariant, PTL

\* ~Client() leaves no thread inside and nothing of this run in the cloud
\* unless it was given up, for any number of devices and threads.
THEOREM DestructionIsClean == Spec => []CleanDestruction
<1>1. Typed /\ SubHeld /\ Ending /\ NoSilentLeak /\ ReleaseBeforeTeardown
        => CleanDestruction
  <2> SUFFICES ASSUME Typed, SubHeld, Ending, NoSilentLeak,
                      ReleaseBeforeTeardown, phase = "gone"
               PROVE  /\ \A t \in Threads : pc[t] \in {"idle", "released"}
                      /\ \A s \in cloudSubs : s.n > 0 => s \in abandoned
    BY DEF CleanDestruction
  <2>1. \A t \in Threads : pc[t] \in {"idle", "released"}
    BY DEF Ending, ReleaseBeforeTeardown, Threads, Flushers
  <2>2. IdsIn(subscribed) \cup remaining = {}
    BY DEF Ending, IdsIn, NoSubs
  <2>3. \A t \in Threads : sub[t] \notin cloudSubs
    BY <2>1, LeftoversAssumption DEF SubHeld, Typed, TypeOK, TypeWorld
  <2> QED
    BY <2>1, <2>2, <2>3 DEF NoSilentLeak
<1> QED
  BY <1>1, LeakInvariant, ReleasesEndFirst, PTL

-----------------------------------------------------------------------------
\* While the first installation stands no UNINSTALL is on its way or being
\* handled.
NoUninstall ==
  cloudApp = 1 =>
    /\ \A i \in 1..Len(webhooks) : webhooks[i].type # "UNINSTALL"
    /\ pc[Server] \notin {"clearToken", "clearTables"}

\* Whoever cleans up after a Device cleans up after the last one of its id.
LastOne == \A t \in Threads : pc[t] = "erase" => registry[dev[t]] = 0

FirstRun == installs >= 1 /\ NoUninstall /\ LastOne

\* One application thread only.
OneCaller == \A t, u \in Callers : t = u

\* With one application thread no Device of the id is registered between the
\* registry's half of onDeviceReleased() and the tables' half.
LEMMA FirstRunStep ==
  ASSUME OneCaller
  PROVE  Typed /\ Ending /\ FirstRun /\ [Next]_vars => FirstRun'
<1> SUFFICES ASSUME Typed, Ending, FirstRun, [Next]_vars PROVE FirstRun'
  OBVIOUS
<1> USE ThreadsAssumption
    DEF Threads, Flushers, Goto, At, vars, client, account, creds, life,
        tables, locks, locals, world, cloud, history, counters
<1>1. ASSUME NEW t \in Threads, Internal(t) PROVE FirstRun'
  <2>1. CASE Register(t)
    <3>1. t \in Callers
      BY <2>1 DEF Register, Ending
    <3>2. \A u \in Threads : pc[u] # "erase"
      BY <2>1, <3>1 DEF OneCaller, Register, Ending
    <3> QED
      BY <2>1, <3>2 DEF Register, FirstRun, NoUninstall, LastOne
  <2>2. CASE Check(t)
    BY <2>2 DEF Check, Return, Busy, FirstRun, NoUninstall, LastOne, Typed,
       TypeOK, TypeThreads
  <2>3. CASE CheckApp(t)
    BY <2>3 DEF CheckApp, Return, FirstRun, NoUninstall, LastOne, Typed,
       TypeOK, TypeThreads
  <2>4. CASE Load(t)
    BY <2>4 DEF Load, FirstRun, NoUninstall, LastOne
  <2>5. CASE List(t)
    BY <2>5 DEF List, FirstRun, NoUninstall, LastOne, Typed, TypeOK,
       TypeThreads
  <2>6. CASE ListFailed(t)
    BY <2>6 DEF ListFailed, FirstRun, NoUninstall, LastOne
  <2>7. CASE Fill(t)
    BY <2>7 DEF Fill, FirstRun, NoUninstall, LastOne, Typed, TypeOK,
       TypeThreads
  <2>8. CASE Weed(t)
    BY <2>8 DEF Weed, DeleteSubscription, FirstRun, NoUninstall, LastOne,
       Typed, TypeOK, TypeThreads
  <2>9. CASE Adopt(t)
    BY <2>9 DEF Adopt, FirstRun, NoUninstall, LastOne
  <2>10. CASE Create(t)
    BY <2>10 DEF Create, FirstRun, NoUninstall, LastOne
  <2>11. CASE Record(t)
    BY <2>11 DEF Record, Return, PendingAfter, FirstRun, NoUninstall, LastOne
  <2>12. CASE Prune(t)
    BY <2>12 DEF Prune, Return, HubFree, Armed, FirstRun, NoUninstall,
       LastOne, Typed, TypeOK, TypeThreads
  <2>13. CASE Erase(t)
    BY <2>13 DEF Erase, Return, HubAfter, FirstRun, NoUninstall, LastOne,
       Typed, TypeOK, TypeThreads
  <2>14. CASE DeleteReleased(t)
    BY <2>14 DEF DeleteReleased, Return, DeleteSubscription, FirstRun,
       NoUninstall, LastOne
  <2>15. CASE SetApp(t)
    BY <2>15 DEF SetApp, FirstRun, NoUninstall, LastOne
  <2>16. CASE QueueFlush(t)
    BY <2>16 DEF QueueFlush, FirstRun, NoUninstall, LastOne
  <2>17. CASE Drain(t)
    BY <2>17 DEF Drain, FirstRun, NoUninstall, LastOne
  <2>18. CASE FlushNext(t)
    BY <2>18 DEF FlushNext, FirstRun, NoUninstall, LastOne
  <2>19. CASE FlushEnd(t)
    BY <2>19 DEF FlushEnd, FirstRun, NoUninstall, LastOne
  <2> QED
    BY <1>1, <2>1, <2>2, <2>3, <2>4, <2>5, <2>6, <2>7, <2>8, <2>9, <2>10,
       <2>11, <2>12, <2>13, <2>14, <2>15, <2>16, <2>17, <2>18, <2>19 DEF
       Internal
<1>2. ASSUME NEW t \in Callers, Calls(t) PROVE FirstRun'
  <2>1. ASSUME NEW e \in Devices, GetDevice(t, e) PROVE FirstRun'
    BY <2>1 DEF GetDevice, FirstRun, NoUninstall, LastOne
  <2>2. ASSUME NEW e \in Devices, Drop(t, e) PROVE FirstRun'
    <3>1. \A u \in Threads : pc[u] # "erase"
      BY <2>2 DEF OneCaller, Drop, Ending
    <3> QED
      BY <2>2, <3>1 DEF Drop, FirstRun, NoUninstall, LastOne
  <2>3. CASE SetToken(t)
    BY <2>3 DEF SetToken, FirstRun, NoUninstall, LastOne
  <2>4. CASE SignOut(t)
    BY <2>4 DEF SignOut, FirstRun, NoUninstall, LastOne
  <2> QED
    BY <1>2, <2>1, <2>2, <2>3, <2>4 DEF Calls
<1>3. CASE WorkerTake
  BY <1>3 DEF WorkerTake, FirstRun, NoUninstall, LastOne
<1>4. CASE Install
  BY <1>4 DEF Install, Deliver, FirstRun, NoUninstall, LastOne, TypeWorld
<1>5. CASE Uninstall
  BY <1>5 DEF Uninstall, Deliver, FirstRun, NoUninstall, LastOne, TypeWorld
<1>6. CASE ClearToken
  BY <1>6 DEF ClearToken, FirstRun, NoUninstall, LastOne
<1>7. CASE ClearTables
  BY <1>7 DEF ClearTables, FirstRun, NoUninstall, LastOne
<1>8. CASE Destroy
  BY <1>8 DEF Destroy, FirstRun, NoUninstall, LastOne
<1>9. CASE StopServer
  BY <1>9 DEF StopServer, FirstRun, NoUninstall, LastOne
<1>10. CASE Disarm
  BY <1>10 DEF Disarm, TearDown, HubFree, FirstRun, NoUninstall, LastOne
<1>11. CASE DeleteRemaining
  BY <1>11 DEF DeleteRemaining, DeleteSubscription, FirstRun, NoUninstall,
     LastOne
<1>12. CASE Gone
  BY <1>12 DEF Gone, FirstRun, NoUninstall, LastOne
<1>13. CASE CloudInstall
  BY <1>13, BoundsAssumption DEF CloudInstall, FirstRun, NoUninstall, LastOne,
     Typed, TypeOK, TypeWorld, Apps, NoApp
<1>14. CASE CloudUninstall
  BY <1>14 DEF CloudUninstall, FirstRun, NoUninstall, LastOne, TypeWorld,
     NoApp
<1>15. CASE UNCHANGED vars
  BY <1>15 DEF FirstRun, NoUninstall, LastOne
<1> QED
  BY <1>1, <1>2, <1>3, <1>4, <1>5, <1>6, <1>7, <1>8, <1>9, <1>10, <1>11,
     <1>12, <1>13, <1>14, <1>15 DEF Next, ServerSteps, Destruction,
     Environment

\* The registry of live Devices changes where a Device is handed out or
\* dropped, nowhere else.
LEMMA RegistryStep ==
  ASSUME Typed, [Next]_vars
  PROVE  \/ UNCHANGED registry
         \/ \E t \in Threads : Register(t)
         \/ \E t \in Callers, d \in Devices : Drop(t, d)
<1> USE ThreadsAssumption DEF vars, client, locals
<1>1. ASSUME NEW t \in Threads, Internal(t)
      PROVE  UNCHANGED registry \/ Register(t)
  BY <1>1 DEF Internal, Check, CheckApp, Load, List, ListFailed, Fill, Weed,
     Adopt, Create, Record, Prune, Erase, DeleteReleased, SetApp, QueueFlush,
     Drain, FlushNext, FlushEnd
<1>2. ASSUME NEW t \in Callers, Calls(t)
      PROVE  UNCHANGED registry \/ \E d \in Devices : Drop(t, d)
  BY <1>2 DEF Calls, GetDevice, SetToken, SignOut
<1>3. ASSUME \/ WorkerTake \/ ServerSteps \/ Destroy
             \/ Destruction \/ Environment \/ UNCHANGED vars
      PROVE  UNCHANGED registry
  BY <1>3 DEF WorkerTake, ServerSteps, Install, Uninstall, ClearToken,
     ClearTables, Destroy, Destruction, StopServer, Disarm, DeleteRemaining,
     Gone, Environment, CloudInstall, CloudUninstall
<1> QED
  BY <1>1, <1>2, <1>3 DEF Next

\* While the first installation stands, every live Device is tracked, in the
\* middle of a call as well as between two calls.
Kept ==
  cloudApp = 1 /\ phase \notin {"teardown", "gone"} =>
    \A d \in Devices : registry[d] > 0 => Tracked(d)

\* Neither the installation nor the Client comes back.
LEMMA NoWayBack ==
  ASSUME Typed, FirstRun, [Next]_vars
  PROVE  /\ cloudApp' = 1 => cloudApp = 1
         /\ phase' \notin {"teardown", "gone"}
              => phase \notin {"teardown", "gone"}
<1> USE ThreadsAssumption, BoundsAssumption
    DEF vars, client, account, creds, life, world, cloud, history, counters
<1>1. ASSUME NEW t \in Threads, Internal(t) PROVE UNCHANGED <<cloudApp, phase>>
  BY <1>1 DEF Internal, Register, Check, CheckApp, Load, List, ListFailed,
     Fill, Weed, DeleteSubscription, Adopt, Create, Record, Prune, Erase,
     DeleteReleased, SetApp, QueueFlush, Drain, FlushNext, FlushEnd
<1>2. ASSUME NEW t \in Callers, Calls(t) PROVE UNCHANGED <<cloudApp, phase>>
  BY <1>2 DEF Calls, GetDevice, Drop, SetToken, SignOut
<1>3. CASE WorkerTake \/ ServerSteps \/ UNCHANGED vars
  BY <1>3 DEF WorkerTake, ServerSteps, Install, Uninstall, Deliver,
     ClearToken, ClearTables
<1>4. CASE Destroy \/ Destruction
  BY <1>4 DEF Destroy, Destruction, StopServer, Disarm, DeleteRemaining,
     DeleteSubscription, Gone
<1>5. CASE Environment
  BY <1>5 DEF Environment, CloudInstall, CloudUninstall, FirstRun, Typed,
     TypeOK, TypeWorld, Apps, NoApp
<1> QED
  BY <1>1, <1>2, <1>3, <1>4, <1>5 DEF Next

\* A live Device is tracked from its registration on: of the steps that lose
\* track of a device, none meets a live one.
LEMMA KeptStep ==
  IInv /\ QueueKept /\ FirstRun /\ Kept /\ [Next]_vars => Kept'
<1> SUFFICES ASSUME IInv, QueueKept, FirstRun, Kept, [Next]_vars,
                    cloudApp' = 1, phase' \notin {"teardown", "gone"},
                    NEW d \in Devices, registry'[d] > 0
             PROVE  Tracked(d)'
  BY DEF Kept, Tracked
<1>0. Typed
  BY DEF IInv
<1>1. cloudApp = 1 /\ phase \notin {"teardown", "gone"}
  BY <1>0, NoWayBack
<1>2. CASE \E t \in Threads : Register(t) /\ dev[t] = d
  BY <1>0, <1>2 DEF Register, Goto, Tracked, Typed, TypeOK, TypeThreads,
     locals
<1>3. CASE ~\E t \in Threads : Register(t) /\ dev[t] = d
  <2>1. registry[d] > 0
    <3>1. CASE UNCHANGED registry
      BY <3>1
    <3>2. ASSUME NEW t \in Threads, Register(t) PROVE registry[d] > 0
      BY <1>0, <1>3, <3>2 DEF Register, Typed, TypeOK, TypeClient
    <3>3. ASSUME NEW t \in Callers, NEW e \in Devices, Drop(t, e)
          PROVE  registry[d] > 0
      BY <1>0, <3>3 DEF Drop, Typed, TypeOK, TypeClient
    <3> QED
      BY <1>0, <3>1, <3>2, <3>3, RegistryStep
  <2>2. Tracked(d)
    BY <1>1, <2>1 DEF Kept
  <2>3. ~ClearTables /\ ~Disarm
    BY <1>1 DEF FirstRun, NoUninstall, ClearTables, Disarm, At
  <2>4. ~\E t \in Threads : dev[t] = d /\ Erase(t)
    BY <2>1 DEF FirstRun, LastOne, Erase, At
  <2> QED
    BY <2>2, <2>3, <2>4, TrackedStep DEF Loses
<1> QED
  BY <1>2, <1>3

\* With one application thread, and as long as the first installation is not
\* removed, every live Device is subscribed or parked between two calls, as
\* client.h:87-89 promises: a release on one thread that meets a registration
\* on another one, and an UNINSTALL, are what it takes to lose one.
THEOREM LiveDevicesStayTracked ==
  ASSUME OneCaller
  PROVE  Spec => [](cloudApp = 1 => LiveDevicesTracked)
<1>1. Init => QueueKept /\ Ending /\ FirstRun /\ Kept
  BY ThreadsAssumption
  DEF Init, QueueKept, Ending, FirstRun, NoUninstall, LastOne, Kept, Threads,
      Flushers
<1>2. IInv => Typed
  BY DEF IInv
<1>3. Typed /\ Ending /\ FirstRun /\ [Next]_vars => FirstRun'
  BY FirstRunStep
<1>4. Kept => (cloudApp = 1 => LiveDevicesTracked)
  BY DEF Kept, LiveDevicesTracked
<1> QED
  BY <1>1, <1>2, <1>3, <1>4, QueueStep, EndingStep, KeptStep,
     InductiveInvariant, PTL DEF Spec

-----------------------------------------------------------------------------
\* _subscriptionMutex is held between two steps only by a thread that goes on
\* without waiting, and the hub's mutex by one that waits for
\* _subscriptionMutex at most.
LocksInOrder ==
  /\ subLock # NoThread =>
       \/ pc[subLock] = "checkApp"
       \/ pc[subLock] = "weed" /\ items[subLock] # {}
  /\ hubLock # NoThread => pc[hubLock] \in {"erase", "delete"}

\* Who takes a mutex goes to where its holder is, and leaves without it.
LEMMA LocksStep ==
  IInv /\ HubHeld /\ LocksInOrder /\ [Next]_vars => LocksInOrder'
<1> SUFFICES ASSUME IInv, HubHeld, LocksInOrder, [Next]_vars PROVE LocksInOrder'
  OBVIOUS
<1>0. Typed /\ LockHeld /\ HubHeld
  BY DEF IInv
<1> USE <1>0, ThreadsAssumption
    DEF LockHeld, HubHeld, Threads, Flushers, Goto, At, vars, client, account,
        creds, life, tables, locks, locals, world, cloud, history, counters
<1>1. ASSUME NEW t \in Threads, Internal(t) PROVE LocksInOrder'
  <2>1. CASE Register(t)
    BY <2>1 DEF Register, LocksInOrder
  <2>2. CASE Check(t)
    BY <2>2 DEF Check, Return, LocksInOrder, TypeClient, Typed, TypeOK,
       TypeThreads
  <2>3. CASE CheckApp(t)
    BY <2>3 DEF CheckApp, Return, LocksInOrder, TypeClient, Typed, TypeOK,
       TypeThreads
  <2>4. CASE Load(t)
    BY <2>4 DEF Load, LocksInOrder
  <2>5. CASE List(t)
    BY <2>5 DEF List, LocksInOrder, TypeClient, Typed, TypeOK, TypeThreads
  <2>6. CASE ListFailed(t)
    BY <2>6 DEF ListFailed, LocksInOrder
  <2>7. CASE Fill(t)
    BY <2>7 DEF Fill, LocksInOrder, TypeClient, Typed, TypeOK, TypeThreads
  <2>8. CASE Weed(t)
    BY <2>8 DEF Weed, LocksInOrder, TypeClient, Typed, TypeOK, TypeThreads
  <2>9. CASE Adopt(t)
    BY <2>9 DEF Adopt, LocksInOrder
  <2>10. CASE Create(t)
    BY <2>10 DEF Create, LocksInOrder
  <2>11. CASE Record(t)
    BY <2>11 DEF Record, Return, LocksInOrder
  <2>12. CASE Prune(t)
    BY <2>12 DEF Prune, Return, HubFree, Armed, LocksInOrder, TypeClient,
       Typed, TypeOK, TypeThreads
  <2>13. CASE Erase(t)
    BY <2>13 DEF Erase, HubAfter, LocksInOrder, Typed, TypeOK, TypeThreads
  <2>14. CASE DeleteReleased(t)
    BY <2>14 DEF DeleteReleased, Return, LocksInOrder
  <2>15. CASE SetApp(t)
    BY <2>15 DEF SetApp, LocksInOrder
  <2>16. CASE QueueFlush(t)
    BY <2>16 DEF QueueFlush, LocksInOrder
  <2>17. CASE Drain(t)
    BY <2>17 DEF Drain, LocksInOrder
  <2>18. CASE FlushNext(t)
    BY <2>18 DEF FlushNext, LocksInOrder
  <2>19. CASE FlushEnd(t)
    BY <2>19 DEF FlushEnd, LocksInOrder
  <2> QED
    BY <1>1, <2>1, <2>2, <2>3, <2>4, <2>5, <2>6, <2>7, <2>8, <2>9, <2>10,
       <2>11, <2>12, <2>13, <2>14, <2>15, <2>16, <2>17, <2>18, <2>19 DEF
       Internal
<1>2. ASSUME NEW t \in Callers, Calls(t) PROVE LocksInOrder'
  <2>1. ASSUME NEW e \in Devices, GetDevice(t, e) PROVE LocksInOrder'
    BY <2>1 DEF GetDevice, LocksInOrder
  <2>2. ASSUME NEW e \in Devices, Drop(t, e) PROVE LocksInOrder'
    BY <2>2 DEF Drop, LocksInOrder
  <2>3. CASE SetToken(t)
    BY <2>3 DEF SetToken, LocksInOrder
  <2>4. CASE SignOut(t)
    BY <2>4 DEF SignOut, LocksInOrder
  <2> QED
    BY <1>2, <2>1, <2>2, <2>3, <2>4 DEF Calls
<1>3. CASE WorkerTake
  BY <1>3 DEF WorkerTake, LocksInOrder
<1>4. CASE Install
  BY <1>4 DEF Install, Deliver, LocksInOrder
<1>5. CASE Uninstall
  BY <1>5 DEF Uninstall, Deliver, LocksInOrder
<1>6. CASE ClearToken
  BY <1>6 DEF ClearToken, LocksInOrder
<1>7. CASE ClearTables
  BY <1>7 DEF ClearTables, LocksInOrder
<1>8. CASE Destroy
  BY <1>8 DEF Destroy, LocksInOrder
<1>9. CASE StopServer
  BY <1>9 DEF StopServer, LocksInOrder
<1>10. CASE Disarm
  BY <1>10 DEF Disarm, HubFree, LocksInOrder
<1>11. CASE DeleteRemaining
  BY <1>11 DEF DeleteRemaining, LocksInOrder
<1>12. CASE Gone
  BY <1>12 DEF Gone, LocksInOrder
<1>13. CASE CloudInstall
  BY <1>13 DEF CloudInstall, LocksInOrder
<1>14. CASE CloudUninstall
  BY <1>14 DEF CloudUninstall, LocksInOrder
<1>15. CASE UNCHANGED vars
  BY <1>15 DEF LocksInOrder
<1> QED
  BY <1>1, <1>2, <1>3, <1>4, <1>5, <1>6, <1>7, <1>8, <1>9, <1>10, <1>11,
     <1>12, <1>13, <1>14, <1>15 DEF Next, ServerSteps, Destruction,
     Environment

\* No deadlock: the two mutexes are taken in one order, and who holds the last
\* one has a step of its own to take.
THEOREM NoCircularWait == Spec => []LocksInOrder
<1>1. Init => LocksInOrder /\ Hub
  BY TypedInit, ThreadsAssumption DEF Init, LocksInOrder, Hub, HubHeld,
     ReleaseBeforeTeardown
<1>2. IInv /\ Hub => HubHeld
  BY DEF Hub
<1>3. IInv /\ IInv' => Typed /\ Typed'
  BY DEF IInv
<1> QED
  BY <1>1, <1>2, <1>3, LocksStep, HubStep, InductiveInvariant, PTL DEF Spec

-----------------------------------------------------------------------------
\* A subscription is recorded, held ready for adoption and brought back from
\* the cloud under the device it is for.
Own ==
  /\ \A d \in Devices : subscribed[d] # NoSub => subscribed[d].dev = d
  /\ \A d \in Devices : unclaimed[d] # NoSub => unclaimed[d].dev = d
  /\ \A t \in Threads :
       pc[t] = "record" /\ sub[t] # NoSub => sub[t].dev = dev[t]

\* Listed subscriptions are told apart by their device, and a created one is
\* for the device its thread works for until it is recorded.
LEMMA OwnStep == Typed /\ SubHeld /\ Own /\ [Next]_vars => Own'
<1> SUFFICES ASSUME Typed, SubHeld, Own, [Next]_vars PROVE Own'
  OBVIOUS
<1> USE ThreadsAssumption
    DEF Threads, Flushers, Goto, At, vars, client, account, creds, life,
        tables, locks, locals, world, cloud, history, counters
<1>1. ASSUME NEW t \in Threads, Internal(t) PROVE Own'
  <2>1. CASE Register(t)
    BY <2>1 DEF Register, Own
  <2>2. CASE Check(t)
    BY <2>2 DEF Check, Return, Own, Typed, TypeOK, TypeThreads
  <2>3. CASE CheckApp(t)
    BY <2>3 DEF CheckApp, Return, Own, Typed, TypeOK, TypeThreads
  <2>4. CASE Load(t)
    BY <2>4 DEF Load, Own
  <2>5. CASE List(t)
    BY <2>5 DEF List, Own, Typed, TypeOK, TypeThreads
  <2>6. CASE ListFailed(t)
    BY <2>6 DEF ListFailed, Own
  <2>7. CASE Fill(t)
    BY <2>7 DEF Fill, Own, Typed, TypeOK, TypeThreads
  <2>8. CASE Weed(t)
    BY <2>8 DEF Weed, Own, Typed, TypeOK, TypeThreads
  <2>9. CASE Adopt(t)
    BY <2>9 DEF Adopt, Own, HasDevice, Working, Typed, TypeOK, TypeThreads,
       Creating
  <2>10. CASE Create(t)
    <3>1. pc[t] = "create" /\ sub[t] = NoSub
      BY <2>10 DEF Create, SubHeld
    <3>2. /\ pc' = [pc EXCEPT ![t] = "record"]
          /\ subscribed' = subscribed /\ unclaimed' = unclaimed /\ dev' = dev
      BY <2>10 DEF Create
    <3>3. \/ sub' = sub
          \/ \E new : new.dev = dev[t] /\ sub' = [sub EXCEPT ![t] = new]
      BY <2>10 DEF Create
    <3>4. sub'[t] # NoSub => sub'[t].dev = dev[t]
      BY <3>1, <3>3 DEF Typed, TypeOK, TypeThreads
    <3>5. \A u \in Threads \ {t} : sub'[u] = sub[u] /\ pc'[u] = pc[u]
      BY <3>2, <3>3 DEF Typed, TypeOK, TypeThreads
    <3> QED
      BY <3>2, <3>4, <3>5 DEF Own
  <2>11. CASE Record(t)
    BY <2>11 DEF Record, Return, Own, Typed, TypeOK, TypeThreads
  <2>12. CASE Prune(t)
    BY <2>12 DEF Prune, Return, Own, Typed, TypeOK, TypeThreads
  <2>13. CASE Erase(t)
    BY <2>13 DEF Erase, Return, Own, Typed, TypeOK, TypeThreads
  <2>14. CASE DeleteReleased(t)
    BY <2>14 DEF DeleteReleased, Return, Own
  <2>15. CASE SetApp(t)
    BY <2>15 DEF SetApp, Own
  <2>16. CASE QueueFlush(t)
    BY <2>16 DEF QueueFlush, Own
  <2>17. CASE Drain(t)
    BY <2>17 DEF Drain, Own
  <2>18. CASE FlushNext(t)
    BY <2>18 DEF FlushNext, Own
  <2>19. CASE FlushEnd(t)
    BY <2>19 DEF FlushEnd, Own
  <2> QED
    BY <1>1, <2>1, <2>2, <2>3, <2>4, <2>5, <2>6, <2>7, <2>8, <2>9, <2>10,
       <2>11, <2>12, <2>13, <2>14, <2>15, <2>16, <2>17, <2>18, <2>19
       DEF Internal
<1>2. ASSUME NEW t \in Callers, Calls(t) PROVE Own'
  <2>1. ASSUME NEW e \in Devices, GetDevice(t, e) PROVE Own'
    BY <2>1 DEF GetDevice, Own
  <2>2. ASSUME NEW e \in Devices, Drop(t, e) PROVE Own'
    BY <2>2 DEF Drop, Own
  <2>3. CASE SetToken(t)
    BY <2>3 DEF SetToken, Own
  <2>4. CASE SignOut(t)
    BY <2>4 DEF SignOut, Own
  <2> QED
    BY <1>2, <2>1, <2>2, <2>3, <2>4 DEF Calls
<1>3. CASE WorkerTake
  BY <1>3 DEF WorkerTake, Own
<1>4. CASE Install
  BY <1>4 DEF Install, Own
<1>5. CASE Uninstall
  BY <1>5 DEF Uninstall, Own
<1>6. CASE ClearToken
  BY <1>6 DEF ClearToken, Own
<1>7. CASE ClearTables
  BY <1>7 DEF ClearTables, Own, NoSubs
<1>8. CASE Destroy
  BY <1>8 DEF Destroy, Own
<1>9. CASE StopServer
  BY <1>9 DEF StopServer, Own
<1>10. CASE Disarm
  BY <1>10 DEF Disarm, Own, NoSubs
<1>11. CASE DeleteRemaining
  BY <1>11 DEF DeleteRemaining, Own
<1>12. CASE Gone
  BY <1>12 DEF Gone, Own
<1>13. CASE CloudInstall
  BY <1>13 DEF CloudInstall, Own
<1>14. CASE CloudUninstall
  BY <1>14 DEF CloudUninstall, Own
<1>15. CASE UNCHANGED vars
  BY <1>15 DEF Own
<1> QED
  BY <1>1, <1>2, <1>3, <1>4, <1>5, <1>6, <1>7, <1>8, <1>9, <1>10, <1>11,
     <1>12, <1>13, <1>14, <1>15 DEF Next, ServerSteps, Destruction,
     Environment

\* Between two calls each device has at most the one subscription recorded for
\* it, for any number of devices, threads, installations and failing requests.
THEOREM NoSecondSubscription == Spec => []OneSubscriptionEach
<1>1. Init => Own
  BY ThreadsAssumption DEF Init, Own, NoSubs
<1>2. Typed /\ SubHeld /\ Ending /\ NoSilentLeak /\ Own => OneSubscriptionEach
  <2> SUFFICES ASSUME Typed, SubHeld, Ending, NoSilentLeak, Own, Settled,
                      phase = "running",
                      NEW s \in cloudSubs, s \notin abandoned, s.n > 0
               PROVE  s = subscribed[s.dev]
    BY DEF OneSubscriptionEach
  <2>1. s # NoSub /\ remaining = {}
    BY LeftoversAssumption DEF Typed, TypeOK, TypeWorld, Ending
  <2>2. \A t \in Threads : sub[t] = NoSub
    BY DEF Settled, SubHeld
  <2>3. s \in IdsIn(subscribed)
    BY <2>1, <2>2 DEF NoSilentLeak
  <2> QED
    BY <2>3 DEF IdsIn, Own
<1> QED
  BY <1>1, <1>2, OwnStep, LeakInvariant, PTL DEF Spec

=============================================================================
