------------------------- MODULE SubscriptionsProofs -------------------------
(***************************************************************************)
(* Theorems about Subscriptions, for every set of devices and application  *)
(* threads and every value of the bounds.                                  *)
(***************************************************************************)
EXTENDS Subscriptions, FiniteSetTheorems, TLAPS

\* A thread inside registerDevice(), maybeSubscribeDevice() or
\* onDeviceReleased() works for a device.
Working(t) ==
  pc[t] \in {"register", "check", "checkApp", "released", "erase", "delete"}
    \/ Creating(t)
HasDevice == \A t \in Threads : Working(t) => dev[t] \in Devices

Typed == TypeOK /\ HasDevice

USE ThreadsAssumption, BoundsAssumption DEF Threads, Flushers, Apps, NoApp

\* Droppable devices have a Device to drop.
LEMMA DroppableIsLive ==
  ASSUME NEW d \in Devices, TypeOK, Droppable(d)
  PROVE  registry[d] \in Nat /\ registry[d] > 0
<1>1. HeldByRegister(d) \subseteq Callers
  BY DEF HeldByRegister
<1>2. Cardinality(HeldByRegister(d)) \in Nat
  BY <1>1, FS_Subset, FS_CardinalityType
<1>3. QED
  BY <1>2 DEF Droppable, TypeOK, TypeClient

\* The constructor and its surroundings start with the types.
LEMMA TypedInit == Init => Typed
<1> SUFFICES ASSUME Init PROVE Typed
  OBVIOUS
<1>1. TypeClient
  <2>1. installedAppId \in Apps
    BY DEF Init
  <2>2. NoSubs \in [Devices -> Ids]
    BY DEF NoSubs, Ids
  <2>3. /\ token \in Apps /\ installedAppToken \in Apps
        /\ registry \in [Devices -> Nat]
        /\ subscribed \in [Devices -> Ids] /\ unclaimed \in [Devices -> Ids]
    BY <2>2 DEF Init
  <2>4. /\ pending \in SUBSET Devices /\ inFlight \in SUBSET Devices
        /\ unclaimedLoaded \in BOOLEAN /\ workerFlush \in BOOLEAN
        /\ remaining \in SUBSET SubIds
        /\ subLock = NoThread /\ hubLock = NoThread /\ phase = "running"
    BY DEF Init
  <2> QED
    BY <2>1, <2>3, <2>4 DEF TypeClient
<1>2. TypeThreads
  BY DEF Init, TypeThreads, Labels, Ids
<1>3. TypeWorld
  BY LeftoversAssumption DEF Init, TypeWorld
<1>4. HasDevice
  BY DEF Init, HasDevice, Working, Creating
<1> QED
  BY <1>1, <1>2, <1>3, <1>4 DEF Typed, TypeOK

\* Every step keeps the types, and the device a working thread is at.
LEMMA TypedStep == Typed /\ [Next]_vars => Typed'
<1> SUFFICES ASSUME Typed, [Next]_vars PROVE Typed'
  OBVIOUS
<1> USE DEF Typed, TypeOK, Goto, At, vars, client, account, creds, life,
   tables, locks, locals, world, cloud,
    history, counters
<1>1. ASSUME NEW t \in Threads, Internal(t) PROVE Typed'
  <2>1. CASE Register(t)
    BY <2>1 DEF Register, TypeClient, TypeThreads,
       TypeWorld, HasDevice, Working, Creating, Labels
  <2>2. CASE Check(t)
    <3>1. TypeClient'
      BY <2>2 DEF Check, Return, Busy, Ids, TypeClient, TypeThreads,
         HasDevice, Working, Creating, TypeWorld
    <3>2. TypeThreads'
      BY <2>2 DEF Check, Return, Busy, Ids, TypeThreads, HasDevice,
         Working, Creating, Labels
    <3>3. TypeWorld'
      BY <2>2 DEF Check, Return, Busy, TypeWorld, TypeThreads,
         HasDevice, Working, Creating, TypeClient
    <3>4. HasDevice'
      BY <2>2 DEF Check, Return, Busy, TypeThreads, HasDevice,
         Working, Creating
    <3> QED
      BY <3>1, <3>2, <3>3, <3>4
  <2>3. CASE CheckApp(t)
    <3>1. TypeClient'
      BY <2>3 DEF CheckApp, Return, TypeClient, TypeThreads,
         HasDevice, Working, Creating, TypeWorld
    <3>2. TypeThreads'
      BY <2>3 DEF CheckApp, Return, Ids, TypeThreads, HasDevice,
         Working, Creating, Labels
    <3>3. TypeWorld'
      BY <2>3 DEF CheckApp, Return, TypeWorld, TypeThreads,
         HasDevice, Working, Creating, TypeClient
    <3>4. HasDevice'
      BY <2>3 DEF CheckApp, Return, TypeThreads, HasDevice, Working, Creating
    <3> QED
      BY <3>1, <3>2, <3>3, <3>4
  <2>4. CASE Load(t)
    BY <2>4 DEF Load, TypeClient, TypeThreads,
       TypeWorld, HasDevice, Working, Creating, Labels
  <2>5. CASE List(t)
    <3>1. TypeClient'
      BY <2>5 DEF List, SpendFault, TypeClient, TypeThreads,
         HasDevice, Working, Creating, TypeWorld
    <3>2. TypeThreads'
      BY <2>5 DEF List, SpendFault, TypeThreads, HasDevice, Working,
         Creating, Labels, TypeWorld, TypeClient
    <3>3. TypeWorld'
      BY <2>5 DEF List, SpendFault, TypeWorld, TypeThreads,
         HasDevice, Working, Creating, TypeClient
    <3>4. HasDevice'
      BY <2>5 DEF List, SpendFault, TypeThreads, HasDevice, Working, Creating
    <3> QED
      BY <3>1, <3>2, <3>3, <3>4
  <2>6. CASE ListFailed(t)
    <3>1. TypeClient'
      BY <2>6 DEF ListFailed, TypeClient, TypeThreads, HasDevice,
         Working, Creating, TypeWorld
    <3>2. TypeThreads'
      BY <2>6 DEF ListFailed, TypeThreads, HasDevice, Working,
         Creating, Labels
    <3>3. TypeWorld'
      BY <2>6 DEF ListFailed, TypeWorld, TypeThreads, HasDevice,
         Working, Creating, TypeClient
    <3>4. HasDevice'
      BY <2>6 DEF ListFailed, TypeThreads, HasDevice, Working, Creating
    <3> QED
      BY <3>1, <3>2, <3>3, <3>4
  <2>7. CASE Fill(t)
    <3>1. TypeClient'
      <4>1. IdsIn(unclaimed) \subseteq SubIds
        BY DEF IdsIn, Ids, TypeClient
      <4>2. {s \in items[t] : subscribed[s.dev] = NoSub} \subseteq SubIds
        BY DEF TypeThreads
      <4>3. unclaimed' \in [Devices -> Ids]
        BY <2>7, <4>1, <4>2 DEF Fill, Ids
      <4>4. subLock' \in Threads \cup {NoThread}
        BY <2>7 DEF Fill, TypeClient
      <4> QED
        BY <2>7, <4>3, <4>4 DEF Fill, TypeClient
    <3>2. TypeThreads'
      BY <2>7 DEF Fill, IdsIn, TypeThreads, HasDevice, Working,
         Creating, Labels
    <3>3. TypeWorld'
      BY <2>7 DEF Fill, IdsIn, TypeWorld, TypeThreads, HasDevice,
         Working, Creating, TypeClient
    <3>4. HasDevice'
      BY <2>7 DEF Fill, IdsIn, TypeThreads, HasDevice, Working, Creating
    <3> QED
      BY <3>1, <3>2, <3>3, <3>4
  <2>8. CASE Weed(t)
    <3>1. TypeClient'
      BY <2>8 DEF Weed, DeleteSubscription, SpendFault, TypeClient,
         TypeThreads, HasDevice, Working, Creating, TypeWorld
    <3>2. TypeThreads'
      BY <2>8 DEF Weed, DeleteSubscription, SpendFault, TypeThreads,
         HasDevice, Working, Creating, Labels
    <3>3. TypeWorld'
      <4>1. PICK s \in items[t] : DeleteSubscription(s)
        BY <2>8 DEF Weed
      <4>2. items[t] \subseteq SubIds
        BY DEF TypeThreads
      <4>3. s \in SubIds
        BY <4>2
      <4>4. /\ cloudSubs' \in SUBSET SubIds /\ abandoned' \in SUBSET SubIds
            /\ faults' \in Nat
            /\ UNCHANGED <<cloudApp, webhooks, created>>
        BY <4>1, <4>3 DEF DeleteSubscription, SpendFault, TypeWorld
      <4>5. UNCHANGED <<installs, registers, signOuts>>
        BY <2>8 DEF Weed
      <4> QED
        BY <4>4, <4>5 DEF TypeWorld
    <3>4. HasDevice'
      BY <2>8 DEF Weed, DeleteSubscription, SpendFault, TypeThreads,
         HasDevice, Working, Creating
    <3> QED
      BY <3>1, <3>2, <3>3, <3>4
  <2>9. CASE Adopt(t)
    <3>1. TypeClient'
      BY <2>9 DEF Adopt, Ids, TypeClient, TypeThreads, HasDevice,
         Working, Creating, TypeWorld
    <3>2. TypeThreads'
      BY <2>9 DEF Adopt, Ids, TypeThreads, HasDevice, Working,
         Creating, Labels, TypeWorld, TypeClient
    <3>3. TypeWorld'
      BY <2>9 DEF Adopt, TypeWorld, TypeThreads, HasDevice, Working,
         Creating, TypeClient
    <3>4. HasDevice'
      BY <2>9 DEF Adopt, TypeThreads, HasDevice, Working, Creating
    <3> QED
      BY <3>1, <3>2, <3>3, <3>4
  <2>10. CASE Create(t)
    <3>1. TypeClient'
      BY <2>10 DEF Create, SpendFault, TypeClient, TypeThreads,
         HasDevice, Working, Creating, TypeWorld
    <3> DEFINE new == [dev |-> dev[t], app |-> installedAppId,
                       n |-> created + 1, whole |-> TRUE]
    <3>5. new \in SubIds
      BY <2>10 DEF Create, SubIds, TypeThreads, TypeClient, TypeWorld,
         HasDevice, Working, Creating
    <3>2. TypeThreads'
      <4>1. sub' = sub \/ sub' = [sub EXCEPT ![t] = new]
        BY <2>10 DEF Create
      <4>2. sub' \in [Threads -> Ids]
        BY <3>5, <4>1 DEF TypeThreads, Ids
      <4> QED
        BY <2>10, <4>2 DEF Create, TypeThreads, Labels
    <3>3. TypeWorld'
      <4> HIDE DEF new
      <4>1. cloudSubs' \in SUBSET SubIds /\ abandoned' \in SUBSET SubIds
        BY <2>10, <3>5 DEF Create, TypeWorld, new
      <4>2. created' \in Nat /\ faults' \in Nat
        BY <2>10 DEF Create, SpendFault, TypeWorld
      <4> QED
        BY <2>10, <4>1, <4>2 DEF Create, TypeWorld
    <3>4. HasDevice'
      BY <2>10 DEF Create, SpendFault, TypeThreads, HasDevice,
         Working, Creating
    <3> QED
      BY <3>1, <3>2, <3>3, <3>4
  <2>11. CASE Record(t)
    <3>1. TypeClient'
      BY <2>11 DEF Record, Return, PendingAfter, Ids, TypeClient,
         TypeThreads, HasDevice, Working, Creating, TypeWorld
    <3>2. TypeThreads'
      BY <2>11 DEF Record, Return, PendingAfter, Ids, TypeThreads,
         HasDevice, Working, Creating, Labels
    <3>3. TypeWorld'
      BY <2>11 DEF Record, Return, PendingAfter, TypeWorld,
         TypeThreads, HasDevice, Working, Creating, TypeClient
    <3>4. HasDevice'
      BY <2>11 DEF Record, Return, PendingAfter, TypeThreads,
         HasDevice, Working, Creating
    <3> QED
      BY <3>1, <3>2, <3>3, <3>4
  <2>12. CASE Prune(t)
    <3>1. TypeClient'
      BY <2>12 DEF Prune, Return, TypeClient, TypeThreads,
         HasDevice, Working, Creating, TypeWorld
    <3>2. TypeThreads'
      BY <2>12 DEF Prune, Return, Ids, TypeThreads, HasDevice,
         Working, Creating, Labels, TypeWorld, TypeClient
    <3>3. TypeWorld'
      BY <2>12 DEF Prune, Return, TypeWorld, TypeThreads, HasDevice,
         Working, Creating, TypeClient
    <3>4. HasDevice'
      BY <2>12 DEF Prune, Return, TypeThreads, HasDevice, Working, Creating
    <3> QED
      BY <3>1, <3>2, <3>3, <3>4
  <2>13. CASE Erase(t)
    <3>1. TypeClient'
      BY <2>13 DEF Erase, Return, HubAfter, Ids, TypeClient,
         TypeThreads, HasDevice, Working, Creating, TypeWorld
    <3>2. TypeThreads'
      <4>1. dev[t] \in Devices /\ subscribed[dev[t]] \in Ids
        BY <2>13 DEF Erase, HasDevice, Working, TypeClient
      <4>2. /\ pc' \in [Threads -> Labels]
            /\ dev' \in [Threads -> Devices \cup {NoDevice}]
        BY <2>13 DEF Erase, Return, TypeThreads, Labels
      <4>3. sub' \in [Threads -> Ids]
        BY <2>13, <4>1 DEF Erase, Return, TypeThreads, Ids
      <4>4. UNCHANGED <<arg, items, queue>>
        BY <2>13 DEF Erase, Return
      <4> QED
        BY <4>2, <4>3, <4>4 DEF TypeThreads
    <3>3. TypeWorld'
      <4>1. UNCHANGED world
        BY <2>13 DEF Erase
      <4> QED
        BY <4>1 DEF TypeWorld
    <3>4. HasDevice'
      BY <2>13 DEF Erase, Return, HubAfter, TypeThreads, HasDevice,
         Working, Creating
    <3> QED
      BY <3>1, <3>2, <3>3, <3>4
  <2>14. CASE DeleteReleased(t)
    <3>1. TypeClient'
      BY <2>14 DEF DeleteReleased, Return, DeleteSubscription,
         SpendFault, TypeClient, TypeThreads, HasDevice, Working,
         Creating, TypeWorld
    <3>2. TypeThreads'
      BY <2>14 DEF DeleteReleased, Return, DeleteSubscription,
         SpendFault, Ids, TypeThreads, HasDevice, Working, Creating,
         Labels
    <3>3. TypeWorld'
      BY <2>14 DEF DeleteReleased, Return, DeleteSubscription,
         SpendFault, TypeWorld, TypeThreads, HasDevice, Working,
         Creating, TypeClient
    <3>4. HasDevice'
      BY <2>14 DEF DeleteReleased, Return, DeleteSubscription,
         SpendFault, TypeThreads, HasDevice, Working, Creating
    <3> QED
      BY <3>1, <3>2, <3>3, <3>4
  <2>15. CASE SetApp(t)
    BY <2>15 DEF SetApp, TypeClient, TypeThreads,
       TypeWorld, HasDevice, Working, Creating, Labels
  <2>16. CASE QueueFlush(t)
    BY <2>16 DEF QueueFlush, TypeClient, TypeThreads,
       TypeWorld, HasDevice, Working, Creating, Labels
  <2>17. CASE Drain(t)
    BY <2>17 DEF Drain, TypeClient, TypeThreads,
       TypeWorld, HasDevice, Working, Creating, Labels
  <2>18. CASE FlushNext(t)
    BY <2>18 DEF FlushNext, TypeClient, TypeThreads,
       TypeWorld, HasDevice, Working, Creating, Labels
  <2>19. CASE FlushEnd(t)
    BY <2>19 DEF FlushEnd, TypeClient, TypeThreads,
       TypeWorld, HasDevice, Working, Creating, Labels
  <2> QED
    BY <1>1, <2>1, <2>2, <2>3, <2>4, <2>5, <2>6, <2>7, <2>8, <2>9,
       <2>10, <2>11, <2>12, <2>13, <2>14, <2>15, <2>16, <2>17, <2>18,
       <2>19
    DEF Internal
<1>2. ASSUME NEW t \in Callers, NEW d \in Devices, GetDevice(t, d)
      PROVE  Typed'
  BY <1>2 DEF GetDevice, TypeClient, TypeThreads,
     TypeWorld, HasDevice, Working, Creating, Labels
<1>3. ASSUME NEW t \in Callers, NEW d \in Devices, Drop(t, d)
      PROVE  Typed'
  <2>1. TypeClient'
    <3>1. registry[d] \in Nat /\ registry[d] > 0
      BY <1>3, DroppableIsLive DEF Drop
    <3>2. registry[d] - 1 \in Nat
      BY <3>1
    <3>3. registry' \in [Devices -> Nat]
      BY <1>3, <3>2 DEF Drop, TypeClient
    <3> QED
      BY <1>3, <3>3 DEF Drop, TypeClient
  <2>2. TypeThreads'
    BY <1>3, DroppableIsLive DEF Drop, TypeThreads, HasDevice,
       Working, Creating, Labels, TypeWorld, TypeClient
  <2>3. TypeWorld'
    BY <1>3, DroppableIsLive DEF Drop, TypeWorld, TypeThreads,
       HasDevice, Working, Creating, TypeClient
  <2>4. HasDevice'
    BY <1>3, DroppableIsLive DEF Drop, TypeThreads, HasDevice,
       Working, Creating
  <2> QED
    BY <2>1, <2>2, <2>3, <2>4
<1>4. ASSUME NEW t \in Callers, SetToken(t) PROVE Typed'
  BY <1>4 DEF SetToken, TypeClient, TypeThreads,
     TypeWorld, HasDevice, Working, Creating, Labels
<1>5. ASSUME NEW t \in Callers, SignOut(t) PROVE Typed'
  BY <1>5 DEF SignOut, TypeClient, TypeThreads,
     TypeWorld, HasDevice, Working, Creating, Labels
<1>6. CASE WorkerTake
  <2>1. TypeClient'
    BY <1>6 DEF WorkerTake, TypeClient, TypeWorld
  <2>2. TypeThreads'
    BY <1>6 DEF WorkerTake, TypeThreads, HasDevice, Working, Creating, Labels
  <2>3. TypeWorld'
    BY <1>6 DEF WorkerTake, TypeWorld, TypeClient
  <2>4. HasDevice'
    BY <1>6 DEF WorkerTake, TypeThreads, HasDevice, Working, Creating
  <2> QED
    BY <2>1, <2>2, <2>3, <2>4
<1>7. CASE Install
  <2>1. TypeClient'
    <3>1. Head(webhooks) \in Webhooks
      BY <1>7 DEF Install, Deliver, TypeWorld
    <3>2. Head(webhooks).app \in Apps
      BY <3>1 DEF Webhooks
    <3> QED
      BY <1>7, <3>2 DEF Install, Deliver, TypeClient
  <2>2. TypeThreads'
    BY <1>7 DEF Install, Deliver, TypeThreads, HasDevice, Working,
       Creating, Labels
  <2>3. TypeWorld'
    BY <1>7 DEF Install, Deliver, Webhooks, TypeWorld, TypeClient
  <2>4. HasDevice'
    BY <1>7 DEF Install, Deliver, TypeThreads, HasDevice, Working, Creating
  <2> QED
    BY <2>1, <2>2, <2>3, <2>4
<1>8. CASE Uninstall
  BY <1>8 DEF Uninstall, Deliver, TypeClient, TypeThreads,
     TypeWorld, HasDevice, Working, Creating, Labels
<1>9. CASE ClearToken
  BY <1>9 DEF ClearToken, TypeClient, TypeThreads,
     TypeWorld, HasDevice, Working, Creating, Labels
<1>10. CASE ClearTables
  <2>1. TypeClient'
    BY <1>10 DEF ClearTables, NoSubs, IdsIn, Ids, TypeClient, TypeWorld
  <2>2. TypeThreads'
    BY <1>10 DEF ClearTables, NoSubs, IdsIn, TypeThreads, HasDevice,
       Working, Creating, Labels
  <2>3. TypeWorld'
    BY <1>10 DEF ClearTables, NoSubs, IdsIn, TypeWorld, TypeClient
  <2>4. HasDevice'
    BY <1>10 DEF ClearTables, NoSubs, IdsIn, TypeThreads, HasDevice,
       Working, Creating
  <2> QED
    BY <2>1, <2>2, <2>3, <2>4
<1>11. CASE Destroy
  BY <1>11 DEF Destroy, TypeClient, TypeThreads,
     TypeWorld, HasDevice, Working, Creating, Labels
<1>12. CASE StopServer
  BY <1>12 DEF StopServer, TypeClient, TypeThreads,
     TypeWorld, HasDevice, Working, Creating, Labels
<1>13. CASE Disarm
  <2>1. TypeClient'
    BY <1>13 DEF Disarm, NoSubs, IdsIn, TearDown, Ids, TypeClient, TypeWorld
  <2>2. TypeThreads'
    BY <1>13 DEF Disarm, NoSubs, IdsIn, TearDown, TypeThreads,
       HasDevice, Working, Creating, Labels
  <2>3. TypeWorld'
    BY <1>13 DEF Disarm, NoSubs, IdsIn, TearDown, TypeWorld, TypeClient
  <2>4. HasDevice'
    BY <1>13 DEF Disarm, NoSubs, IdsIn, TearDown, TypeThreads,
       HasDevice, Working, Creating
  <2> QED
    BY <2>1, <2>2, <2>3, <2>4
<1>14. CASE DeleteRemaining
  <2>1. PICK s \in remaining :
          DeleteSubscription(s) /\ remaining' = remaining \ {s}
    BY <1>14 DEF DeleteRemaining
  <2>2. s \in SubIds
    BY DEF TypeClient
  <2>3. /\ cloudSubs' \in SUBSET SubIds /\ abandoned' \in SUBSET SubIds
        /\ faults' \in Nat
        /\ UNCHANGED <<cloudApp, webhooks, created>>
    BY <2>1, <2>2 DEF DeleteSubscription, SpendFault, TypeWorld
  <2>4. /\ UNCHANGED <<creds, workerFlush, phase, registry, tables, locks>>
        /\ UNCHANGED <<pc, locals, counters>>
    BY <1>14 DEF DeleteRemaining
  <2>5. TypeWorld'
    BY <2>3, <2>4 DEF TypeWorld
  <2>6. TypeClient'
    BY <2>1, <2>4 DEF TypeClient
  <2>7. TypeThreads' /\ HasDevice'
    BY <2>4 DEF TypeThreads, HasDevice, Working, Creating
  <2> QED
    BY <2>5, <2>6, <2>7
<1>15. CASE Gone
  BY <1>15 DEF Gone, TypeClient, TypeThreads,
     TypeWorld, HasDevice, Working, Creating, Labels
<1>16. CASE CloudInstall
  <2>1. TypeClient'
    BY <1>16 DEF CloudInstall, TypeClient, TypeWorld
  <2>2. TypeThreads'
    BY <1>16 DEF CloudInstall, TypeThreads, HasDevice, Working,
       Creating, Labels
  <2>3. TypeWorld'
    BY <1>16 DEF CloudInstall, Webhooks, TypeWorld, TypeClient
  <2>4. HasDevice'
    BY <1>16 DEF CloudInstall, TypeThreads, HasDevice, Working, Creating
  <2> QED
    BY <2>1, <2>2, <2>3, <2>4
<1>17. CASE CloudUninstall
  <2>1. TypeClient'
    BY <1>17 DEF CloudUninstall, TypeClient, TypeWorld
  <2>2. TypeThreads'
    BY <1>17 DEF CloudUninstall, TypeThreads, HasDevice, Working,
       Creating, Labels
  <2>3. TypeWorld'
    BY <1>17 DEF CloudUninstall, Webhooks, TypeWorld, TypeClient
  <2>4. HasDevice'
    BY <1>17 DEF CloudUninstall, TypeThreads, HasDevice, Working, Creating
  <2> QED
    BY <2>1, <2>2, <2>3, <2>4
<1>18. CASE UNCHANGED vars
  BY <1>18 DEF TypeClient, TypeThreads, TypeWorld, HasDevice, Working,
     Creating
<1> QED
  BY <1>1, <1>2, <1>3, <1>4, <1>5, <1>6, <1>7, <1>8, <1>9, <1>10, <1>11,
     <1>12, <1>13, <1>14, <1>15, <1>16, <1>17, <1>18
  DEF Next, Calls, ServerSteps, Destruction, Environment

\* Every variable keeps its type: the values the tables, the threads and the
\* cloud exchange are device ids and subscription ids throughout.
THEOREM TypeCorrect == Spec => []TypeOK
<1>1. Typed => TypeOK
  BY DEF Typed
<1>2. QED
  BY <1>1, TypedInit, TypedStep, PTL DEF Spec

-----------------------------------------------------------------------------
\* What a thread that holds _subscriptionMutex between two steps knows.
LockHeld == \A t \in Threads : pc[t] \in {"checkApp", "weed"} => subLock = t
CheckedFree ==
  \A t \in Threads : pc[t] = "checkApp" =>
    subscribed[dev[t]] = NoSub /\ dev[t] \notin inFlight

Exclusive ==
  /\ \A t \in Threads : Creating(t) => dev[t] \in inFlight
  /\ \A d \in inFlight : \E t \in Threads : Creating(t) /\ dev[t] = d
  /\ \A t, u \in Threads :
       Creating(t) /\ Creating(u) /\ dev[t] = dev[u] => t = u

IInv == Typed /\ LockHeld /\ CheckedFree /\ Exclusive /\ NeverOverwrites

\* A step that starts and ends no creation, no check under the lock and no
\* recorded subscription leaves the creations as they were.
SameCreations ==
  /\ UNCHANGED <<subscribed, inFlight>>
  /\ \A u \in Threads :
       /\ Creating(u)' <=> Creating(u)
       /\ pc'[u] = "checkApp" => pc[u] = "checkApp"
       /\ Creating(u) \/ pc'[u] = "checkApp" => dev'[u] = dev[u]

LEMMA CreationFrame ==
  ASSUME CheckedFree, Exclusive, NeverOverwrites, SameCreations
  PROVE  CheckedFree' /\ Exclusive' /\ NeverOverwrites'
<1>1. CheckedFree'
  BY DEF SameCreations, CheckedFree
<1>2. NeverOverwrites'
  BY DEF SameCreations, NeverOverwrites
<1>3. Exclusive'
  <2>1. \A t \in Threads : Creating(t)' => dev'[t] \in inFlight'
    BY DEF SameCreations, Exclusive
  <2>2. \A d \in inFlight' : \E t \in Threads : Creating(t)' /\ dev'[t] = d
    BY DEF SameCreations, Exclusive
  <2>3. \A t, u \in Threads :
          Creating(t)' /\ Creating(u)' /\ dev'[t] = dev'[u] => t = u
    BY DEF SameCreations, Exclusive
  <2> QED
    BY <2>1, <2>2, <2>3 DEF Exclusive
<1> QED
  BY <1>1, <1>2, <1>3

\* The lock, the check under it and the in-flight set make creations
\* exclusive; with that the invariant is inductive.
LEMMA InductiveInvariant == Spec => []IInv
<1>1. Init => IInv
  BY TypedInit DEF Init, IInv, LockHeld, CheckedFree, Exclusive, Creating,
     NeverOverwrites
<1>2. IInv /\ [Next]_vars => IInv'
  <2> SUFFICES ASSUME IInv, [Next]_vars PROVE IInv'
    OBVIOUS
  <2>0. Typed'
    BY TypedStep DEF IInv
  <2> USE <2>0 DEF IInv, Goto, At, vars, client, account, creds, life, tables,
      locks, locals, world,
      cloud, history, counters
  <2>1. ASSUME NEW t \in Threads, Internal(t) PROVE IInv'
    <3>1. CASE Register(t)
      <4>1. SameCreations
        BY <3>1 DEF Register, SameCreations, Creating, Typed, TypeOK,
           TypeThreads
      <4>2. LockHeld'
        BY <3>1 DEF Register, LockHeld, Typed, TypeOK, TypeThreads
      <4> QED
        BY <4>1, <4>2, CreationFrame
    <3>2. CASE Check(t)
      BY <3>2 DEF Check, Return, Busy, LockHeld, CheckedFree,
         Exclusive, NeverOverwrites, Creating, Typed, TypeOK, TypeClient,
         TypeThreads, HasDevice, Working
    <3>3. CASE CheckApp(t)
      BY <3>3 DEF CheckApp, Return, LockHeld, CheckedFree,
         Exclusive, NeverOverwrites, Creating, Typed, TypeOK, TypeClient,
         TypeThreads, HasDevice, Working
    <3>4. CASE Load(t)
      BY <3>4 DEF Load, LockHeld, CheckedFree,
         Exclusive, NeverOverwrites, Creating, Typed, TypeOK, TypeClient,
         TypeThreads, HasDevice, Working
    <3>5. CASE List(t)
      BY <3>5 DEF List, LockHeld, CheckedFree,
         Exclusive, NeverOverwrites, Creating, Typed, TypeOK, TypeClient,
         TypeThreads, HasDevice, Working
    <3>6. CASE ListFailed(t)
      BY <3>6 DEF ListFailed, LockHeld, CheckedFree,
         Exclusive, NeverOverwrites, Creating, Typed, TypeOK, TypeClient,
         TypeThreads, HasDevice, Working
    <3>7. CASE Fill(t)
      <4>1. SameCreations
        BY <3>7 DEF Fill, SameCreations, Creating, Typed, TypeOK,
           TypeThreads
      <4>2. LockHeld'
        BY <3>7 DEF Fill, LockHeld, Typed, TypeOK, TypeThreads
      <4> QED
        BY <4>1, <4>2, CreationFrame
    <3>8. CASE Weed(t)
      <4>1. SameCreations
        BY <3>8 DEF Weed, SameCreations, Creating, Typed, TypeOK,
           TypeThreads
      <4>2. LockHeld'
        BY <3>8 DEF Weed, LockHeld, Typed, TypeOK, TypeThreads
      <4> QED
        BY <4>1, <4>2, CreationFrame
    <3>9. CASE Adopt(t)
      <4>1. SameCreations
        BY <3>9 DEF Adopt, SameCreations, Creating, Typed, TypeOK,
           TypeThreads
      <4>2. LockHeld'
        BY <3>9 DEF Adopt, LockHeld, Typed, TypeOK, TypeThreads
      <4> QED
        BY <4>1, <4>2, CreationFrame
    <3>10. CASE Create(t)
      BY <3>10 DEF Create, LockHeld, CheckedFree,
         Exclusive, NeverOverwrites, Creating, Typed, TypeOK, TypeClient,
         TypeThreads, HasDevice, Working
    <3>11. CASE Record(t)
      <4>1. LockHeld'
        BY <3>11 DEF Record, Return, LockHeld, Typed, TypeOK, TypeThreads
      <4>2. CheckedFree'
        BY <3>11 DEF Record, Return, CheckedFree, LockHeld, Typed, TypeOK,
           TypeThreads, TypeClient, HasDevice, Working, Creating
      <4>3. NeverOverwrites'
        BY <3>11 DEF Record, Return, NeverOverwrites, Exclusive, Creating,
           Typed, TypeOK, TypeThreads, TypeClient, HasDevice, Working
      <4>4. Exclusive'
        BY <3>11 DEF Record, Return, Exclusive, Creating, Typed, TypeOK,
           TypeThreads, TypeClient
      <4> QED
        BY <4>1, <4>2, <4>3, <4>4
    <3>12. CASE Prune(t)
      BY <3>12 DEF Prune, Return, LockHeld, CheckedFree,
         Exclusive, NeverOverwrites, Creating, Typed, TypeOK, TypeClient,
         TypeThreads, HasDevice, Working
    <3>13. CASE Erase(t)
      <4>1. LockHeld'
        BY <3>13 DEF Erase, Return, LockHeld, Typed, TypeOK, TypeThreads
      <4>2. CheckedFree'
        BY <3>13 DEF Erase, Return, CheckedFree, LockHeld, Typed, TypeOK,
           TypeThreads, TypeClient, HasDevice, Working, Creating
      <4>3. NeverOverwrites'
        BY <3>13 DEF Erase, Return, NeverOverwrites, Exclusive, Creating,
           Typed, TypeOK, TypeThreads, TypeClient, HasDevice, Working
      <4>4. Exclusive'
        BY <3>13 DEF Erase, Return, Exclusive, Creating, Typed, TypeOK,
           TypeThreads, TypeClient
      <4> QED
        BY <4>1, <4>2, <4>3, <4>4
    <3>14. CASE DeleteReleased(t)
      BY <3>14 DEF DeleteReleased, Return, LockHeld, CheckedFree,
         Exclusive, NeverOverwrites, Creating, Typed, TypeOK, TypeClient,
         TypeThreads, HasDevice, Working
    <3>15. CASE SetApp(t)
      BY <3>15 DEF SetApp, LockHeld, CheckedFree,
         Exclusive, NeverOverwrites, Creating, Typed, TypeOK, TypeClient,
         TypeThreads, HasDevice, Working
    <3>16. CASE QueueFlush(t)
      <4>1. SameCreations
        BY <3>16 DEF QueueFlush, SameCreations, Creating, Typed, TypeOK,
           TypeThreads
      <4>2. LockHeld'
        BY <3>16 DEF QueueFlush, LockHeld, Typed, TypeOK, TypeThreads
      <4> QED
        BY <4>1, <4>2, CreationFrame
    <3>17. CASE Drain(t)
      BY <3>17 DEF Drain, LockHeld, CheckedFree,
         Exclusive, NeverOverwrites, Creating, Typed, TypeOK, TypeClient,
         TypeThreads, HasDevice, Working
    <3>18. CASE FlushNext(t)
      <4>1. SameCreations
        BY <3>18 DEF FlushNext, SameCreations, Creating, Typed, TypeOK,
           TypeThreads
      <4>2. LockHeld'
        BY <3>18 DEF FlushNext, LockHeld, Typed, TypeOK, TypeThreads
      <4> QED
        BY <4>1, <4>2, CreationFrame
    <3>19. CASE FlushEnd(t)
      <4>1. SameCreations
        BY <3>19 DEF FlushEnd, SameCreations, Creating, Typed, TypeOK,
           TypeThreads
      <4>2. LockHeld'
        BY <3>19 DEF FlushEnd, LockHeld, Typed, TypeOK, TypeThreads
      <4> QED
        BY <4>1, <4>2, CreationFrame
    <3> QED
      BY <2>1, <3>1, <3>2, <3>3, <3>4, <3>5, <3>6, <3>7, <3>8, <3>9, <3>10,
         <3>11,
         <3>12, <3>13, <3>14, <3>15, <3>16, <3>17, <3>18, <3>19 DEF Internal
  <2>2. ASSUME NEW t \in Callers, Calls(t) PROVE IInv'
    <3>1. ASSUME NEW d \in Devices, GetDevice(t, d) PROVE IInv'
      <4>1. SameCreations
        BY <3>1 DEF GetDevice, SameCreations, Creating, Typed, TypeOK,
           TypeThreads
      <4>2. LockHeld'
        BY <3>1 DEF GetDevice, LockHeld, Typed, TypeOK, TypeThreads
      <4> QED
        BY <4>1, <4>2, CreationFrame
    <3>2. ASSUME NEW d \in Devices, Drop(t, d) PROVE IInv'
      <4>1. SameCreations
        BY <3>2 DEF Drop, SameCreations, Creating, Typed, TypeOK,
           TypeThreads
      <4>2. LockHeld'
        BY <3>2 DEF Drop, LockHeld, Typed, TypeOK, TypeThreads
      <4> QED
        BY <4>1, <4>2, CreationFrame
    <3>3. CASE SetToken(t)
      <4>1. SameCreations
        BY <3>3 DEF SetToken, SameCreations, Creating, Typed, TypeOK,
           TypeThreads
      <4>2. LockHeld'
        BY <3>3 DEF SetToken, LockHeld, Typed, TypeOK, TypeThreads
      <4> QED
        BY <4>1, <4>2, CreationFrame
    <3>4. CASE SignOut(t)
      BY <3>4 DEF SignOut, LockHeld, CheckedFree,
         Exclusive, NeverOverwrites, Creating, Typed, TypeOK, TypeClient,
         TypeThreads, HasDevice, Working
    <3> QED
      BY <2>2, <3>1, <3>2, <3>3, <3>4 DEF Calls
  <2>3. CASE WorkerTake
    <3>1. /\ UNCHANGED <<dev, subLock, subscribed, inFlight, token>>
          /\ UNCHANGED <<installedAppId, pending>>
      BY <2>3 DEF WorkerTake
    <3>2. \A t \in Threads :
            pc'[t] = pc[t] \/ (pc[t] = "idle" /\ pc'[t] \in {"idle", "drain"})
      BY <2>3 DEF WorkerTake, Typed, TypeOK, TypeThreads
    <3>3. \A t \in Threads :
            /\ Creating(t)' = Creating(t)
            /\ (pc'[t] \in {"checkApp", "weed"}) = (pc[t] \in {"checkApp", "weed"})
            /\ (pc'[t] = "checkApp") = (pc[t] = "checkApp")
      BY <3>2 DEF Creating
    <3> QED
      BY <3>1, <3>3 DEF LockHeld, CheckedFree, Exclusive, NeverOverwrites
  <2>4. CASE Install
    <3>1. SameCreations
      BY <2>4 DEF Install, Deliver, SameCreations, Creating, Typed, TypeOK,
         TypeThreads
    <3>2. LockHeld'
      BY <2>4 DEF Install, Deliver, LockHeld, Typed, TypeOK, TypeThreads
    <3> QED
      BY <3>1, <3>2, CreationFrame
  <2>5. CASE Uninstall
    <3>1. SameCreations
      BY <2>5 DEF Uninstall, Deliver, SameCreations, Creating, Typed, TypeOK,
         TypeThreads
    <3>2. LockHeld'
      BY <2>5 DEF Uninstall, Deliver, LockHeld, Typed, TypeOK, TypeThreads
    <3> QED
      BY <3>1, <3>2, CreationFrame
  <2>6. CASE ClearToken
    BY <2>6 DEF ClearToken, LockHeld, CheckedFree,
       Exclusive, NeverOverwrites, Creating, Typed, TypeOK, TypeClient,
       TypeThreads, HasDevice, Working
  <2>7. CASE ClearTables
    BY <2>7 DEF ClearTables, NoSubs, LockHeld, CheckedFree,
       Exclusive, NeverOverwrites, Creating, Typed, TypeOK, TypeClient,
       TypeThreads, HasDevice, Working
  <2>8. CASE Destroy
    BY <2>8 DEF Destroy, LockHeld, CheckedFree,
       Exclusive, NeverOverwrites, Creating, Typed, TypeOK, TypeClient,
       TypeThreads, HasDevice, Working
  <2>9. CASE StopServer
    BY <2>9 DEF StopServer, LockHeld, CheckedFree,
       Exclusive, NeverOverwrites, Creating, Typed, TypeOK, TypeClient,
       TypeThreads, HasDevice, Working
  <2>10. CASE Disarm
    BY <2>10 DEF Disarm, NoSubs, LockHeld, CheckedFree,
       Exclusive, NeverOverwrites, Creating, Typed, TypeOK, TypeClient,
       TypeThreads, HasDevice, Working
  <2>11. CASE DeleteRemaining
    BY <2>11 DEF DeleteRemaining, LockHeld, CheckedFree,
       Exclusive, NeverOverwrites, Creating, Typed, TypeOK, TypeClient,
       TypeThreads, HasDevice, Working
  <2>12. CASE Gone
    BY <2>12 DEF Gone, LockHeld, CheckedFree,
       Exclusive, NeverOverwrites, Creating, Typed, TypeOK, TypeClient,
       TypeThreads, HasDevice, Working
  <2>13. CASE CloudInstall
    BY <2>13 DEF CloudInstall, LockHeld, CheckedFree,
       Exclusive, NeverOverwrites, Creating, Typed, TypeOK, TypeClient,
       TypeThreads, HasDevice, Working
  <2>14. CASE CloudUninstall
    BY <2>14 DEF CloudUninstall, LockHeld, CheckedFree,
       Exclusive, NeverOverwrites, Creating, Typed, TypeOK, TypeClient,
       TypeThreads, HasDevice, Working
  <2>15. CASE UNCHANGED vars
    BY <2>15 DEF LockHeld, CheckedFree,
       Exclusive, NeverOverwrites, Creating, Typed, TypeOK, TypeClient,
       TypeThreads, HasDevice, Working
  <2> QED
    BY <2>1, <2>2, <2>3, <2>4, <2>5, <2>6, <2>7, <2>8, <2>9, <2>10, <2>11,
       <2>12, <2>13, <2>14, <2>15
    DEF Next, ServerSteps, Destruction, Environment
<1>3. QED
  BY <1>1, <1>2, PTL DEF Spec

\* For any number of devices and threads: one thread at a time creates the
\* subscription of a device, and _subscriptionsInFlight says exactly which.
THEOREM CreationIsExclusive == Spec => []InFlightExact
<1>1. IInv => InFlightExact
  BY DEF IInv, Exclusive, InFlightExact, Creating
<1>2. QED
  BY <1>1, InductiveInvariant, PTL

\* The id a creation records never replaces another recorded id, so no
\* subscription of the cloud is lost that way.
THEOREM RecordingIsSafe == Spec => []NeverOverwrites
<1>1. IInv => NeverOverwrites
  BY DEF IInv
<1>2. QED
  BY <1>1, InductiveInvariant, PTL
=============================================================================
