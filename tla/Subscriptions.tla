---------------------------- MODULE Subscriptions ----------------------------
(***************************************************************************)
(* The automatic per-device event subscriptions of an OAuth-mode Client in *)
(* external-tokens mode (src/webhook.cpp, src/client.cpp).                 *)
(*                                                                         *)
(* Application threads obtain Devices (getDevice, registerDevice), drop    *)
(* them (the shared_ptr deleter, onDeviceReleased) and supply tokens       *)
(* (setAccessToken).  The server thread handles INSTALL and UNINSTALL.     *)
(* The worker thread flushes the parked subscriptions.  One step of this   *)
(* module is one critical section of the code or one request to the cloud. *)
(*                                                                         *)
(* An installation is a number; the installedAppId of an installation and  *)
(* every token granted for it are represented by that number, and NoApp is *)
(* the empty string.  A request succeeds when id and token belong to the   *)
(* installation that exists in the cloud, unless a fault is spent on it.   *)
(***************************************************************************)
EXTENDS Naturals, Sequences, FiniteSets

CONSTANTS
  Devices,       \* device ids
  Callers,       \* application threads
  Server,        \* the IHttpServer thread that delivers webhooks
  Worker,        \* the thread of workerLoop()
  NoThread,      \* "no thread holds this mutex"
  NoDevice,      \* "this thread works for no device"
  NoSub,         \* "no subscription id"
  Leftovers,     \* subscriptions a previous run may have left in the cloud
  MaxInstalls,   \* bound: installations ever made
  MaxRegisters,  \* bound: registerDevice() calls
  MaxSignOuts,   \* bound: setAccessToken("") calls
  MaxFaults      \* bound: requests that fail although they could succeed

Threads == Callers \cup {Server, Worker}
Flushers == {Server, Worker}
NoApp == 0
Apps == 0..MaxInstalls

\* What a subscription id stands for in the cloud.  "whole" is the automatic
\* kind: component, capability and attribute are all "*".
SubIds == [dev : Devices, app : Apps, n : Nat, whole : BOOLEAN]

ASSUME ThreadsAssumption ==
  /\ IsFiniteSet(Callers)
  /\ Server \notin Callers /\ Worker \notin Callers /\ Server # Worker
  /\ NoThread \notin Threads
ASSUME LeftoversAssumption ==
  /\ Leftovers \subseteq SubIds
  /\ \A s \in Leftovers : s.app = 1 /\ s.n = 0
  /\ NoSub \notin SubIds
ASSUME NoDeviceAssumption == NoDevice \notin Devices
ASSUME BoundsAssumption ==
  /\ MaxInstalls \in Nat \ {0}
  /\ {MaxRegisters, MaxSignOuts, MaxFaults} \subseteq Nat

VARIABLES
  \* --- the Client -------------------------------------------------------
  token,             \* _access_token
  installedAppId,    \* _installedAppId
  installedAppToken, \* _installedAppToken
  registry,          \* live Devices in _deviceRegistry, per device id
  subscribed,        \* _subscribedDevices
  pending,           \* _pendingSubscriptions
  inFlight,          \* _subscriptionsInFlight
  unclaimed,         \* _unclaimedSubscriptions
  unclaimedLoaded,   \* _unclaimedLoaded
  workerFlush,       \* _workerFlush
  subLock,           \* holder of _subscriptionMutex between two steps
  hubLock,           \* holder of DeviceLifetimeHub::mutex between two steps
  phase,             \* progress of ~Client()
  remaining,         \* subscriptions ~Client() still has to delete
  \* --- the threads ------------------------------------------------------
  pc,                \* where each thread is
  dev,               \* the device id a thread works for
  sub,               \* the subscription id it adopted, created or deletes
  arg,               \* the installed-app id it passed to setAccessToken()
  items,             \* the listSubscriptions() items it still has to treat
  queue,             \* the parked ids its flush still has to retry
  \* --- the cloud --------------------------------------------------------
  cloudApp,          \* the installation that exists, or NoApp
  cloudSubs,         \* the subscriptions that exist
  webhooks,          \* webhook requests on their way to the server
  \* --- history ----------------------------------------------------------
  installs,          \* installations made so far
  registers,         \* registerDevice() calls so far
  signOuts,          \* sign-outs so far
  created,           \* subscriptions created so far
  faults,            \* faults spent so far
  abandoned          \* subscriptions the Client forgot while they exist

creds == <<token, installedAppId, installedAppToken>>
tables == <<subscribed, pending, inFlight, unclaimed, unclaimedLoaded>>
locks == <<subLock, hubLock>>
life == <<phase, remaining>>
account == <<creds, workerFlush, life>>
client == <<account, registry, tables, locks>>
locals == <<dev, sub, arg, items, queue>>
history == <<created, faults, abandoned>>
cloud == <<cloudApp, cloudSubs, webhooks, history>>
counters == <<installs, registers, signOuts>>
world == <<cloud, counters>>
vars == <<client, pc, locals, world>>

NoSubs == [d \in Devices |-> NoSub]

\* The ids a deviceId -> subscriptionId map holds.
IdsIn(map) == {map[d] : d \in Devices} \ {NoSub}

\* Constructor: only the persisted installed-app id survives a run, and what
\* a crashed run had created is still in the cloud.
Init ==
  /\ token = NoApp /\ installedAppId \in {NoApp, 1} /\ installedAppToken = NoApp
  /\ registry = [d \in Devices |-> 0]
  /\ subscribed = NoSubs /\ pending = {} /\ inFlight = {}
  /\ unclaimed = NoSubs /\ unclaimedLoaded = FALSE
  /\ workerFlush = FALSE
  /\ subLock = NoThread /\ hubLock = NoThread
  /\ phase = "running" /\ remaining = {}
  /\ pc = [t \in Threads |-> "idle"]
  /\ dev = [t \in Threads |-> NoDevice] /\ sub = [t \in Threads |-> NoSub]
  /\ arg = [t \in Threads |-> NoApp]
  /\ items = [t \in Threads |-> {}] /\ queue = [t \in Threads |-> {}]
  /\ cloudApp = 1 /\ cloudSubs = Leftovers /\ webhooks = <<>>
  /\ installs = 1 /\ registers = 0 /\ signOuts = 0 /\ created = 0 /\ faults = 0
  /\ abandoned = {}

-----------------------------------------------------------------------------
\* Helpers of the actions.

At(t, label) == pc[t] = label
Goto(t, label) == pc' = [pc EXCEPT ![t] = label]

\* Between inserting the id into _subscriptionsInFlight and erasing it.
Creating(t) ==
  pc[t] \in {"load", "list", "listFailed", "fill", "weed", "adopt", "create",
             "record"}

\* maybeSubscribeDevice() or onDeviceReleased() returns: a flushing thread
\* goes on with its queue, an application thread is back in its own code.
Return(t) ==
  /\ Goto(t, IF t \in Flushers THEN "flush" ELSE "idle")
  /\ dev' = [dev EXCEPT ![t] = NoDevice]
  /\ sub' = [sub EXCEPT ![t] = NoSub]
  /\ UNCHANGED <<arg, items, queue>>

\* subscriptionToken(): the token INSTALL brought, else the access token.
SubscriptionToken ==
  IF installedAppToken # NoApp THEN installedAppToken ELSE token

\* Id and token of a subscription request name the existing installation.
RequestOk ==
  installedAppId # NoApp /\ installedAppId = cloudApp
                         /\ SubscriptionToken = cloudApp

SpendFault == faults < MaxFaults /\ faults' = faults + 1

\* deleteSubscription(s): 404 counts as gone, any other failure leaves s in
\* the cloud although the caller has already forgotten it.
DeleteSubscription(s) ==
  /\ \/ /\ RequestOk
        /\ cloudSubs' = cloudSubs \ {s}
        /\ UNCHANGED <<faults, abandoned>>
     \/ /\ ~RequestOk
        /\ abandoned' = (abandoned \cup {s}) \cap cloudSubs
        /\ UNCHANGED <<cloudSubs, faults>>
     \/ /\ RequestOk /\ SpendFault
        /\ abandoned' = (abandoned \cup {s}) \cap cloudSubs
        /\ UNCHANGED cloudSubs
  /\ UNCHANGED <<cloudApp, webhooks, created>>

-----------------------------------------------------------------------------
\* registerDevice() and maybeSubscribeDevice().

\* getDevice()/getDevices() answered: a tracked Device exists.
GetDevice(t, d) ==
  /\ phase = "running" /\ At(t, "idle") /\ t \in Callers
  /\ token # NoApp /\ registers < MaxRegisters
  /\ registers' = registers + 1
  /\ dev' = [dev EXCEPT ![t] = d]
  /\ Goto(t, "register")
  /\ UNCHANGED <<client, sub, arg, items, queue, cloud, installs, signOuts>>

\* registerDevice(): the Device enters the registry.
Register(t) ==
  /\ At(t, "register")
  /\ registry' = [registry EXCEPT ![dev[t]] = @ + 1]
  /\ Goto(t, "check")
  /\ UNCHANGED <<account, tables, locks, locals, world>>

\* The early return of maybeSubscribeDevice().  Variants: one of the two
\* tables is not looked at.
BusyOnlyRecorded(d) == subscribed[d] # NoSub
BusyOnlyInFlight(d) == d \in inFlight
Busy(d) == subscribed[d] # NoSub \/ d \in inFlight

\* First half of the first critical section of maybeSubscribeDevice(): the
\* tables and isAuthenticated().
Check(t) ==
  LET d == dev[t] IN
  /\ At(t, "check") /\ subLock = NoThread
  /\ \/ /\ Busy(d)
        /\ Return(t)
        /\ UNCHANGED <<pending, subLock>>
     \/ /\ ~Busy(d) /\ token = NoApp
        /\ pending' = pending \cup {d}
        /\ Return(t)
        /\ UNCHANGED subLock
     \/ /\ ~Busy(d) /\ token # NoApp
        /\ subLock' = t
        /\ Goto(t, "checkApp")
        /\ UNCHANGED <<pending, locals>>
  /\ UNCHANGED <<account, registry, subscribed, inFlight, unclaimed,
                 unclaimedLoaded, hubLock, world>>

\* Second half, still under _subscriptionMutex: installedAppId().
CheckApp(t) ==
  LET d == dev[t] IN
  /\ At(t, "checkApp")
  /\ subLock' = NoThread
  /\ \/ /\ installedAppId = NoApp
        /\ pending' = pending \cup {d}
        /\ Return(t)
        /\ UNCHANGED inFlight
     \/ /\ installedAppId # NoApp
        /\ inFlight' = inFlight \cup {d}
        /\ Goto(t, "load")
        /\ UNCHANGED <<pending, locals>>
  /\ UNCHANGED <<account, registry, subscribed, unclaimed, unclaimedLoaded,
                 hubLock, world>>

\* loadUnclaimedSubscriptionsOnce(): one thread claims the attempt.
Load(t) ==
  /\ At(t, "load") /\ subLock = NoThread
  /\ Goto(t, IF unclaimedLoaded THEN "adopt" ELSE "list")
  /\ unclaimedLoaded' = TRUE
  /\ UNCHANGED <<account, registry, subscribed, pending, inFlight, unclaimed,
                 locks, locals, world>>

\* listSubscriptions(), without any mutex.
List(t) ==
  /\ At(t, "list")
  /\ \/ /\ RequestOk
        /\ items' = [items EXCEPT ![t] = cloudSubs]
        /\ Goto(t, "fill")
        /\ UNCHANGED faults
     \/ /\ ~RequestOk
        /\ Goto(t, "listFailed")
        /\ UNCHANGED <<items, faults>>
     \/ /\ RequestOk /\ SpendFault
        /\ Goto(t, "listFailed")
        /\ UNCHANGED items
  /\ UNCHANGED <<client, dev, sub, arg, queue, cloudApp, cloudSubs, webhooks,
                 created, abandoned, counters>>

ListFailed(t) ==
  /\ At(t, "listFailed") /\ subLock = NoThread
  /\ unclaimedLoaded' = FALSE
  /\ Goto(t, "adopt")
  /\ UNCHANGED <<account, registry, subscribed, pending, inFlight, unclaimed,
                 locks, locals, world>>

\* The listed subscriptions of devices without a recorded one: whole-device
\* ones become unclaimed (the last one of a device wins), narrower ones are
\* deleted one request after the other, with _subscriptionMutex held.
Fill(t) ==
  LET fresh == {s \in items[t] : subscribed[s.dev] = NoSub}
      whole(d) == {s \in fresh : s.dev = d /\ s.whole}
      narrow == {s \in fresh : ~s.whole}
  IN
  /\ At(t, "fill") /\ subLock = NoThread
  /\ unclaimed' \in [Devices -> fresh \cup IdsIn(unclaimed) \cup {NoSub}]
  /\ \A d \in Devices :
       IF whole(d) = {} THEN unclaimed'[d] = unclaimed[d]
                        ELSE unclaimed'[d] \in whole(d)
  /\ items' = [items EXCEPT ![t] = narrow]
  /\ IF narrow = {}
     THEN Goto(t, "adopt") /\ UNCHANGED subLock
     ELSE Goto(t, "weed") /\ subLock' = t
  /\ UNCHANGED <<account, registry, subscribed, pending, inFlight,
                 unclaimedLoaded, hubLock, dev, sub, arg, queue, world>>

\* One deleteSubscription() of that loop.
Weed(t) ==
  /\ At(t, "weed")
  /\ \E s \in items[t] :
       /\ DeleteSubscription(s)
       /\ items' = [items EXCEPT ![t] = @ \ {s}]
       /\ IF items[t] = {s}
          THEN Goto(t, "adopt") /\ subLock' = NoThread
          ELSE UNCHANGED <<subLock, pc>>
  /\ UNCHANGED <<account, registry, tables, hubLock, dev, sub, arg, queue,
                 counters>>

\* Take a prior run's subscription of the device, if there is one.
Adopt(t) ==
  LET d == dev[t] IN
  /\ At(t, "adopt") /\ subLock = NoThread
  /\ sub' = [sub EXCEPT ![t] = unclaimed[d]]
  /\ unclaimed' = [unclaimed EXCEPT ![d] = NoSub]
  /\ Goto(t, IF unclaimed[d] # NoSub THEN "record" ELSE "create")
  /\ UNCHANGED <<account, registry, subscribed, pending, inFlight,
                 unclaimedLoaded, locks, dev, arg, items, queue, world>>

\* subscribeTo(): the POST creates the subscription, is refused, or creates
\* it and the answer is lost (the 10 s timeout).
Create(t) ==
  LET new == [dev |-> dev[t], app |-> installedAppId, n |-> created + 1,
              whole |-> TRUE] IN
  /\ At(t, "create")
  /\ Goto(t, "record")
  /\ \/ /\ RequestOk
        /\ cloudSubs' = cloudSubs \cup {new} /\ created' = created + 1
        /\ sub' = [sub EXCEPT ![t] = new]
        /\ UNCHANGED <<faults, abandoned>>
     \/ /\ RequestOk /\ SpendFault
        /\ cloudSubs' = cloudSubs \cup {new} /\ created' = created + 1
        /\ abandoned' = abandoned \cup {new}
        /\ UNCHANGED sub
     \/ /\ ~RequestOk
        /\ UNCHANGED <<sub, cloudSubs, history>>
     \/ /\ RequestOk /\ SpendFault
        /\ UNCHANGED <<sub, cloudSubs, created, abandoned>>
  /\ UNCHANGED <<client, dev, arg, items, queue, cloudApp, webhooks, counters>>

\* _pendingSubscriptions once the outcome for d is known.
\* Variants: a success leaves d parked, a failure does not park it.
PendingAfterKeeps(d, id) == IF id # NoSub THEN pending ELSE pending \cup {d}
PendingAfterForgets(d, id) == pending \ {d}
PendingAfter(d, id) == IF id # NoSub THEN pending \ {d} ELSE pending \cup {d}

\* The critical section that ends an adoption or a creation: the device is
\* recorded, or parked when there is no id to record.
Record(t) ==
  LET d == dev[t] IN
  /\ At(t, "record") /\ subLock = NoThread
  /\ inFlight' = inFlight \ {d}
  /\ pending' = PendingAfter(d, sub[t])
  /\ subscribed' = IF sub[t] # NoSub THEN [subscribed EXCEPT ![d] = sub[t]]
                                     ELSE subscribed
  /\ Return(t)
  /\ UNCHANGED <<account, registry, unclaimed, unclaimedLoaded, locks, world>>

-----------------------------------------------------------------------------
\* The last reference to a Device goes: its deleter and onDeviceReleased().

\* Variant of HubFree: the hub's mutex is not taken.
HubIgnored == TRUE
HubFree == hubLock = NoThread

\* The hub's client pointer is not yet null.
Armed == phase \in {"running", "stopServer", "stopWorker"}

\* registerDevice() itself holds the shared_ptr of the Device it registers.
HeldByRegister(d) ==
  {t \in Callers : dev[t] = d /\ (pc[t] \in {"check", "checkApp"} \/ Creating(t))}

\* Variant of Droppable: an application drops a Device it does not have.
DroppableTwice(d) == registry[d] >= Cardinality(HeldByRegister(d))
Droppable(d) == registry[d] > Cardinality(HeldByRegister(d))

\* The shared_ptr's count reaches zero: every weak_ptr to it has expired.
Drop(t, d) ==
  /\ At(t, "idle") /\ t \in Callers
  /\ Droppable(d)
  /\ registry' = [registry EXCEPT ![d] = @ - 1]
  /\ dev' = [dev EXCEPT ![t] = d]
  /\ Goto(t, "released")
  /\ UNCHANGED <<account, tables, locks, sub, arg, items, queue, world>>

\* notifyReleased() and the registry half of onDeviceReleased(): was it the
\* last Device of its id?
Prune(t) ==
  /\ At(t, "released") /\ HubFree
  /\ IF Armed /\ registry[dev[t]] = 0
     THEN Goto(t, "erase") /\ hubLock' = t /\ UNCHANGED locals
     ELSE Return(t) /\ UNCHANGED hubLock
  /\ UNCHANGED <<account, registry, tables, subLock, world>>

\* Who holds the hub's mutex after the tables are cleaned: nobody when there
\* is nothing to delete.  Variant: it stays locked.
HubAfterKept(t, id) == t
HubAfter(t, id) == IF id = NoSub THEN NoThread ELSE t

Erase(t) ==
  LET d == dev[t] IN
  /\ At(t, "erase") /\ subLock = NoThread
  /\ pending' = pending \ {d}
  /\ subscribed' = [subscribed EXCEPT ![d] = NoSub]
  /\ hubLock' = HubAfter(t, subscribed[d])
  /\ IF subscribed[d] = NoSub
     THEN Return(t)
     ELSE /\ sub' = [sub EXCEPT ![t] = subscribed[d]]
          /\ Goto(t, "delete")
          /\ UNCHANGED <<dev, arg, items, queue>>
  /\ UNCHANGED <<account, registry, inFlight, unclaimed, unclaimedLoaded,
                 subLock, world>>

DeleteReleased(t) ==
  /\ At(t, "delete")
  /\ DeleteSubscription(sub[t])
  /\ hubLock' = NoThread
  /\ Return(t)
  /\ UNCHANGED <<account, registry, tables, subLock, counters>>

-----------------------------------------------------------------------------
\* setAccessToken(), its three critical sections.

SetToken(t) ==
  /\ phase = "running" /\ At(t, "idle") /\ t \in Callers /\ cloudApp # NoApp
  /\ token' = cloudApp
  /\ \E id \in {NoApp, cloudApp} : arg' = [arg EXCEPT ![t] = id]
  /\ Goto(t, "setApp")
  /\ UNCHANGED <<installedAppId, installedAppToken, workerFlush, life,
                 registry, tables, locks, dev, sub, items, queue, world>>

SetApp(t) ==
  /\ At(t, "setApp")
  /\ installedAppId' = IF arg[t] = NoApp THEN installedAppId ELSE arg[t]
  /\ arg' = [arg EXCEPT ![t] = NoApp]
  /\ Goto(t, "queueFlush")
  /\ UNCHANGED <<token, installedAppToken, workerFlush, life, registry, tables,
                 locks, dev, sub, items, queue, world>>

QueueFlush(t) ==
  /\ At(t, "queueFlush")
  /\ workerFlush' = TRUE
  /\ Goto(t, "idle")
  /\ UNCHANGED <<creds, life, registry, tables, locks, locals, world>>

\* setAccessToken(""): nothing but the token changes.
SignOut(t) ==
  /\ phase = "running" /\ At(t, "idle") /\ t \in Callers
  /\ token # NoApp /\ signOuts < MaxSignOuts
  /\ token' = NoApp
  /\ signOuts' = signOuts + 1
  /\ UNCHANGED <<installedAppId, installedAppToken, workerFlush, life,
                 registry, tables, locks, pc, locals, cloud, installs,
                 registers>>

-----------------------------------------------------------------------------
\* flushPendingSubscriptions() on the worker and on the server thread.

Stopping == phase \in {"stopWorker", "teardown", "gone"}

\* workerLoop(): the flush job, dropped when stopping or signed out.
WorkerTake ==
  /\ At(Worker, "idle") /\ workerFlush /\ ~Stopping
  /\ workerFlush' = FALSE
  /\ Goto(Worker, IF token # NoApp THEN "drain" ELSE "idle")
  /\ UNCHANGED <<creds, life, registry, tables, locks, locals, world>>

Drain(t) ==
  /\ At(t, "drain") /\ subLock = NoThread
  /\ queue' = [queue EXCEPT ![t] = pending]
  /\ pending' = {}
  /\ Goto(t, "flush")
  /\ UNCHANGED <<account, registry, subscribed, inFlight, unclaimed,
                 unclaimedLoaded, locks, dev, sub, arg, items, world>>

FlushNext(t) ==
  /\ At(t, "flush") /\ ~Stopping
  /\ \E d \in queue[t] :
       /\ queue' = [queue EXCEPT ![t] = @ \ {d}]
       /\ dev' = [dev EXCEPT ![t] = d]
  /\ Goto(t, "check")
  /\ UNCHANGED <<client, sub, arg, items, world>>

\* The loop ends; a stopping Client leaves the rest parked.
FlushEnd(t) ==
  /\ At(t, "flush")
  /\ queue[t] = {} \/ (Stopping /\ subLock = NoThread)
  /\ pending' = pending \cup queue[t]
  /\ queue' = [queue EXCEPT ![t] = {}]
  /\ Goto(t, "idle")
  /\ UNCHANGED <<account, registry, subscribed, inFlight, unclaimed,
                 unclaimedLoaded, locks, dev, sub, arg, items, world>>

-----------------------------------------------------------------------------
\* processWebhook() on the server thread.

Deliver(type) ==
  /\ phase = "running" /\ At(Server, "idle")
  /\ webhooks # <<>> /\ Head(webhooks).type = type
  /\ webhooks' = Tail(webhooks)

\* INSTALL (UPDATE is the same code): id and token, then a flush.
Install ==
  /\ Deliver("INSTALL")
  /\ installedAppId' = Head(webhooks).app
  /\ installedAppToken' \in {installedAppToken, Head(webhooks).app}
  /\ Goto(Server, "drain")
  /\ UNCHANGED <<token, workerFlush, life, registry, tables, locks, locals,
                 cloudApp, cloudSubs, history, counters>>

\* UNINSTALL: three critical sections, _installMutex, _authMutex and
\* _subscriptionMutex.  _subscriptionsInFlight is not cleared.
Uninstall ==
  /\ Deliver("UNINSTALL")
  /\ installedAppId' = NoApp /\ installedAppToken' = NoApp
  /\ Goto(Server, "clearToken")
  /\ UNCHANGED <<token, workerFlush, life, registry, tables, locks, locals,
                 cloudApp, cloudSubs, history, counters>>

ClearToken ==
  /\ At(Server, "clearToken")
  /\ token' = NoApp
  /\ Goto(Server, "clearTables")
  /\ UNCHANGED <<installedAppId, installedAppToken, workerFlush, life,
                 registry, tables, locks, locals, world>>

ClearTables ==
  /\ At(Server, "clearTables") /\ subLock = NoThread
  /\ abandoned' = (abandoned \cup IdsIn(subscribed) \cup IdsIn(unclaimed))
                     \cap cloudSubs
  /\ subscribed' = NoSubs /\ pending' = {}
  /\ unclaimed' = NoSubs /\ unclaimedLoaded' = FALSE
  /\ Goto(Server, "idle")
  /\ UNCHANGED <<account, registry, inFlight, locks, locals, cloudApp,
                 cloudSubs, webhooks, created, faults, counters>>

-----------------------------------------------------------------------------
\* ~Client().  The application no longer calls the Client, but Devices may
\* still be dropped on other threads.

Destroy ==
  /\ phase = "running"
  /\ \A t \in Callers : pc[t] \in {"idle", "released", "erase", "delete"}
  /\ phase' = "stopServer"
  /\ UNCHANGED <<creds, workerFlush, remaining, registry, tables, locks, pc,
                 locals, world>>

\* _httpServer->stop() returned; stopWorker() raises _workerStop.
StopServer ==
  /\ phase = "stopServer" /\ At(Server, "idle")
  /\ phase' = "stopWorker"
  /\ UNCHANGED <<creds, workerFlush, remaining, registry, tables, locks, pc,
                 locals, world>>

\* What ~Client() takes out of _subscribedDevices.  Variant: nothing.
TearDownNone == {}
TearDown == IdsIn(subscribed)

\* The worker is joined, the hub disarmed, _subscribedDevices swapped out.
Disarm ==
  /\ phase = "stopWorker" /\ At(Worker, "idle") /\ HubFree
  /\ phase' = "teardown"
  /\ remaining' = TearDown
  /\ subscribed' = NoSubs
  /\ UNCHANGED <<creds, workerFlush, registry, pending, inFlight, unclaimed,
                 unclaimedLoaded, locks, pc, locals, world>>

DeleteRemaining ==
  /\ phase = "teardown"
  /\ \E s \in remaining :
       /\ DeleteSubscription(s)
       /\ remaining' = remaining \ {s}
  /\ UNCHANGED <<creds, workerFlush, phase, registry, tables, locks, pc,
                 locals, counters>>

Gone ==
  /\ phase = "teardown" /\ remaining = {}
  /\ phase' = "gone"
  /\ UNCHANGED <<creds, workerFlush, remaining, registry, tables, locks, pc,
                 locals, world>>

-----------------------------------------------------------------------------
\* SmartThings: the user installs and removes the app.

CloudInstall ==
  /\ cloudApp = NoApp /\ installs < MaxInstalls
  /\ installs' = installs + 1
  /\ cloudApp' = installs + 1
  /\ webhooks' = Append(webhooks, [type |-> "INSTALL", app |-> installs + 1])
  /\ UNCHANGED <<client, pc, locals, cloudSubs, history, registers, signOuts>>

CloudUninstall ==
  /\ cloudApp # NoApp
  /\ cloudApp' = NoApp
  /\ cloudSubs' = {} /\ abandoned' = {}
  /\ webhooks' = Append(webhooks, [type |-> "UNINSTALL", app |-> cloudApp])
  /\ UNCHANGED <<client, pc, locals, created, faults, counters>>

-----------------------------------------------------------------------------
\* The steps a thread takes on its own once it is inside the library.
Internal(t) ==
  \/ Register(t) \/ Check(t) \/ CheckApp(t) \/ Load(t) \/ List(t)
  \/ ListFailed(t) \/ Fill(t) \/ Weed(t) \/ Adopt(t) \/ Create(t) \/ Record(t)
  \/ Prune(t) \/ Erase(t) \/ DeleteReleased(t)
  \/ SetApp(t) \/ QueueFlush(t)
  \/ Drain(t) \/ FlushNext(t) \/ FlushEnd(t)

Calls(t) ==
  \/ \E d \in Devices : GetDevice(t, d) \/ Drop(t, d)
  \/ SetToken(t) \/ SignOut(t)

ServerSteps == Install \/ Uninstall \/ ClearToken \/ ClearTables
Destruction == StopServer \/ Disarm \/ DeleteRemaining \/ Gone
Environment == CloudInstall \/ CloudUninstall

Next ==
  \/ \E t \in Threads : Internal(t)
  \/ \E t \in Callers : Calls(t)
  \/ WorkerTake
  \/ ServerSteps
  \/ Destroy
  \/ Destruction
  \/ Environment

\* Every thread keeps running and every request ends, with an answer or with
\* the HttpClient timeout.  Nothing is assumed of the application's calls.
Fairness ==
  /\ \A t \in Threads : WF_vars(Internal(t))
  /\ WF_vars(WorkerTake) /\ WF_vars(ServerSteps) /\ WF_vars(Destruction)

Spec == Init /\ [][Next]_vars /\ Fairness

-----------------------------------------------------------------------------
\* Properties.

Labels ==
  {"idle", "register", "check", "checkApp", "load", "list", "listFailed",
   "fill", "weed", "adopt", "create", "record", "released", "erase", "delete",
   "setApp", "queueFlush", "drain", "flush", "clearToken", "clearTables"}

Webhooks == [type : {"INSTALL", "UNINSTALL"}, app : Apps]
Ids == SubIds \cup {NoSub}

TypeClient ==
  /\ token \in Apps /\ installedAppId \in Apps /\ installedAppToken \in Apps
  /\ registry \in [Devices -> Nat]
  /\ subscribed \in [Devices -> Ids] /\ unclaimed \in [Devices -> Ids]
  /\ pending \in SUBSET Devices /\ inFlight \in SUBSET Devices
  /\ unclaimedLoaded \in BOOLEAN /\ workerFlush \in BOOLEAN
  /\ subLock \in Threads \cup {NoThread} /\ hubLock \in Threads \cup {NoThread}
  /\ phase \in {"running", "stopServer", "stopWorker", "teardown", "gone"}
  /\ remaining \in SUBSET SubIds

TypeThreads ==
  /\ pc \in [Threads -> Labels]
  /\ dev \in [Threads -> Devices \cup {NoDevice}]
  /\ sub \in [Threads -> Ids]
  /\ arg \in [Threads -> Apps]
  /\ items \in [Threads -> SUBSET SubIds]
  /\ queue \in [Threads -> SUBSET Devices]

TypeWorld ==
  /\ cloudApp \in Apps
  /\ cloudSubs \in SUBSET SubIds /\ abandoned \in SUBSET SubIds
  /\ webhooks \in Seq(Webhooks)
  /\ installs \in Apps
  /\ registers \in Nat /\ signOuts \in Nat /\ created \in Nat /\ faults \in Nat

\* Every variable has its type.
TypeOK == TypeClient /\ TypeThreads /\ TypeWorld

\* A device id is in _subscriptionsInFlight exactly while one thread creates
\* or adopts its subscription, and never two threads at once, however
\* registrations, flushes and UNINSTALL interleave (webhook.cpp:599-650).
InFlightExact ==
  /\ inFlight = {dev[t] : t \in {u \in Threads : Creating(u)}}
  /\ \A t, u \in Threads :
       Creating(t) /\ Creating(u) /\ dev[t] = dev[u] => t = u

\* While a subscription is being created for a device none is recorded for
\* it, so recording the new id never overwrites (and leaks) another one.
NeverOverwrites == \A d \in inFlight : subscribed[d] = NoSub

\* A parked device has no subscription; only a flush cut short by ~Client()
\* may park one again (webhook.cpp:663-667).
ParkedNotSubscribed ==
  ~Stopping => \A d \in pending : subscribed[d] = NoSub

\* The Client still has something to do for, or knows of, this device.
Tracked(d) ==
  \/ d \in pending \/ d \in inFlight \/ subscribed[d] # NoSub
  \/ \E t \in Threads : d \in queue[t]
  \/ \E t \in Threads : dev[t] = d /\ pc[t] \in {"register", "check", "checkApp"}

\* Refused requests, sign-outs, failed lists and interrupted flushes never
\* make the Client lose track of a device: only the release of its last
\* Device, UNINSTALL and ~Client() do.
NeverForgets ==
  [][\A d \in Devices : Tracked(d) /\ ~Tracked(d)' =>
       ClearTables \/ Disarm \/ \E t \in Threads : dev[t] = d /\ Erase(t)]_vars

\* Every subscription this run created is accounted for, by _subscribedDevices,
\* by the thread that holds its id or by ~Client(), or it was given up by one of
\* the paths that give up: a lost answer, a failed DELETE, UNINSTALL.  That a
\* stale list or another thread's adoption drops it from _unclaimedSubscriptions
\* never matters.
NoSilentLeak ==
  \A s \in cloudSubs : s.n > 0 =>
    s \in IdsIn(subscribed) \cup remaining \cup abandoned
          \cup {sub[t] : t \in Threads}

\* Between two calls.
Settled == \A t \in Threads : pc[t] = "idle"

\* Between two calls of a running Client every subscription of this run that
\* was not given up is the recorded one of its own device: no device has two,
\* which would deliver each event twice, and none is kept under another device,
\* whose release would delete it (webhook.cpp:589-650).
OneSubscriptionEach ==
  Settled /\ phase = "running" =>
    \A s \in cloudSubs \ abandoned : s.n > 0 => s = subscribed[s.dev]

\* Once ~Client() is done no thread is inside the Client, and the cloud keeps
\* nothing this run created unless it was given up.
CleanDestruction ==
  phase = "gone" =>
    /\ \A t \in Threads : pc[t] \in {"idle", "released"}
    /\ \A s \in cloudSubs : s.n > 0 => s \in abandoned

\* The deleter hub: a released Device's clean-up and ~Client()'s teardown
\* never run at the same time.
ReleaseBeforeTeardown ==
  phase \in {"teardown", "gone"} =>
    hubLock = NoThread /\ \A t \in Threads : pc[t] \notin {"erase", "delete"}

\* Every call comes back: no thread waits for ever for _subscriptionMutex or
\* the hub's mutex.
CallsReturn == \A t \in Threads : pc[t] # "idle" ~> pc[t] = "idle"

\* ~Client() finishes, also when it meets a flush or a release.
DestructionEnds == phase = "stopServer" ~> phase = "gone"

\* The application keeps handing in refreshed tokens, as setAccessToken()'s
\* contract asks ("Call it again with every refreshed token").
RefreshingSpec ==
  Spec /\ SF_vars(\E t \in Callers : SetToken(t) /\ arg'[t] # NoApp)

\* A parked device of a living Device object gets its subscription in the
\* end, whatever requests failed before: each refreshed token retries it.
ParkedGetsSubscribed ==
  \A d \in Devices :
    d \in pending /\ registry[d] > 0 ~>
      \/ subscribed[d] # NoSub
      \/ registry[d] = 0 \/ cloudApp = NoApp \/ phase # "running"

-----------------------------------------------------------------------------
\* Statements of the repository's documentation.


\* client.h:87-89 "each Device it hands out is subscribed on creation":
\* between two calls the Client has, or has parked, every live Device.
LiveDevicesTracked ==
  Settled /\ phase = "running" /\ cloudApp # NoApp =>
    \A d \in Devices : registry[d] > 0 => Tracked(d)
=============================================================================
