------------------------------ MODULE LiveUpdates ------------------------------
(***************************************************************************)
(* How Device objects follow the cloud (src/client.cpp, src/device.cpp,    *)
(* the EVENT branch of src/webhook.cpp): a status is fetched by the first  *)
(* read of a Device, by pollNow() and by the polling thread; in push mode  *)
(* the server threads apply events.  The threads meet at the registry of   *)
(* weak_ptrs and at the Devices, which have no mutex.                      *)
(*                                                                         *)
(* An attribute has one value per Device here, the number of the change    *)
(* that set it; Capability says how values become typed fields, and when   *)
(* applying one throws.  One status or event applied to one Device is one  *)
(* step.                                                                   *)
(*                                                                         *)
(* Which subscriptions the cloud has is left open: they come and go at any *)
(* time, as registrations, flushes, releases and ~Client() with all their  *)
(* interleavings and failures may make them.  Those are the subject of     *)
(* Subscriptions; what is shown here does not depend on them.              *)
(***************************************************************************)
EXTENDS Naturals, FiniteSets

CONSTANTS
  Objects,     \* Device objects made by getDevice() and getDevices()
  Ids,         \* device ids
  IdOf,        \* the id of each object
  Callers,     \* application threads
  Controller,  \* the one that starts and stops polling and destroys the Client
  Servers,     \* threads of the embedded server
  Poller,      \* the thread in _pollingThread
  NoThread,
  MaxChanges,  \* bound: changes in the cloud
  MaxFaults,   \* bound: status requests that fail
  MaxSubscriptions  \* bound: subscriptions of one device at a time

Threads == Callers \cup Servers \cup {Poller}

ASSUME ObjectsAssumption == IdOf \in [Objects -> Ids]
ASSUME ThreadsAssumption ==
  /\ Controller \in Callers /\ Poller \notin Callers \cup Servers
  /\ Callers \cap Servers = {} /\ NoThread \notin Threads
ASSUME BoundsAssumption ==
  MaxChanges \in Nat /\ MaxFaults \in Nat /\ MaxSubscriptions \in Nat

VARIABLES
  \* --- the Client -------------------------------------------------------
  push,        \* an OAuth Client, whose devices are subscribed to events
  running,     \* _pollingRunning
  mutex,       \* the holder of _pollingMutex
  joinable,    \* _pollingThread has not been joined
  registered,  \* objects in _deviceRegistry that are alive
  phase,       \* progress of ~Client()
  \* --- the Device objects -----------------------------------------------
  owned,       \* objects the application holds
  value,       \* the attribute, 0 before its first value
  refreshed,   \* objects with _hasBeenRefreshed
  \* --- the threads ------------------------------------------------------
  pc,
  held,        \* the shared_ptrs of a snapshot or of liveDevicesFor()
  todo,        \* ids a poll cycle has not fetched yet
  targets,     \* objects that still get the answer or event in reply
  reply,
  \* --- the cloud --------------------------------------------------------
  cloud,       \* the attribute of each device
  posts,       \* subscriptions of each device, each of which posts its changes
  events,      \* events posted; each is a request of its own, so that the
               \* network and the server's threads may reorder them
  \* --- history ----------------------------------------------------------
  doubtful,    \* objects set back, refreshed while their device was not
               \* subscribed, or alive when it ceased to be
  late,        \* poll cycles begun since stopPolling() cleared the flag
  terminated,  \* std::terminate() for a joinable std::thread
  changes, faults

polling == <<running, mutex, joinable, late, terminated>>
devices == <<value, refreshed, doubtful>>
lifetimes == <<registered, owned, held>>
work == <<todo, targets, reply>>
world == <<cloud, posts, events, changes>>
vars == <<push, polling, phase, devices, lifetimes, pc, work, world, faults>>

At(t, label) == pc[t] = label
Goto(t, label) == pc' = [pc EXCEPT ![t] = label]

ReplyFor(i) == [id |-> i, value |-> 0, covered |-> TRUE]
NoReply == ReplyFor("none")

\* A Client for a token polls from its constructor on unless that is Manual;
\* an OAuth Client never does.
Init ==
  /\ push \in BOOLEAN /\ running \in BOOLEAN /\ (push => ~running)
  /\ mutex = NoThread /\ joinable = running
  /\ registered = {} /\ owned = {} /\ phase = "running"
  /\ value = [o \in Objects |-> 0] /\ refreshed = {}
  /\ pc = [t \in Threads |-> IF t # Poller THEN "idle"
                             ELSE IF running THEN "lock" ELSE "none"]
  /\ held = [t \in Threads |-> {}] /\ todo = [t \in Threads |-> {}]
  /\ targets = [t \in Threads |-> {}] /\ reply = [t \in Threads |-> NoReply]
  /\ cloud = [i \in Ids |-> 1] /\ events = {}
  /\ posts \in [Ids -> 0 .. MaxSubscriptions]   \* left by earlier runs
  /\ (~push => \A i \in Ids : posts[i] = 0)
  /\ doubtful = {} /\ late = 0 /\ terminated = FALSE
  /\ changes = 0 /\ faults = 0

Alive == owned \cup UNION {held[t] : t \in Threads}

\* A shared_ptr of o goes.  Unless there is another, held in kept, the Device
\* dies and is no longer found in the registry.
LetGo(o, kept) ==
  IF o \in kept THEN UNCHANGED <<registered, devices>>
  ELSE /\ registered' = registered \ {o}
       /\ value' = [value EXCEPT ![o] = 0]
       /\ refreshed' = refreshed \ {o} /\ doubtful' = doubtful \ {o}

-----------------------------------------------------------------------------
(* Device objects come and go                                               *)

Calling(t) == phase = "running" /\ t \in Callers /\ At(t, "idle")

\* makeTrackedDevice() and registerDevice(): the object enters the registry.
RegisterDevice(t, o) ==
  /\ Calling(t) /\ o \notin Alive
  /\ owned' = owned \cup {o} /\ registered' = registered \cup {o}
  /\ UNCHANGED <<push, polling, phase, devices, held, pc, work, world, faults>>

\* The application drops its shared_ptr; a snapshot may keep the object alive.
Release(t, o) ==
  /\ t \in Callers /\ At(t, "idle") /\ o \in owned
  /\ owned' = owned \ {o}
  /\ LetGo(o, UNION {held[u] : u \in Threads})
  /\ UNCHANGED <<push, polling, phase, held, pc, work, world, faults>>

-----------------------------------------------------------------------------
(* Fetching a status                                                        *)

\* ensureRefreshed() of a Device that has no status yet, or refreshStatus() of
\* any.
Read(t, o) ==
  /\ Calling(t) /\ o \in owned
  /\ held' = [held EXCEPT ![t] = {o}]
  /\ todo' = [todo EXCEPT ![t] = {IdOf[o]}] /\ Goto(t, "fetch")
  /\ UNCHANGED <<push, polling, phase, devices, registered, owned, targets,
                  reply, world, faults>>

\* pollNow() of the application.
PollNow(t) ==
  /\ Calling(t) /\ Goto(t, "snapshot")
  /\ UNCHANGED <<push, polling, phase, devices, lifetimes, work, world, faults>>

\* snapshotRegistry(): each live id once, with all its objects.
SnapshotRegistry(t) ==
  /\ At(t, "snapshot")
  /\ held' = [held EXCEPT ![t] = registered]
  /\ todo' = [todo EXCEPT ![t] = {IdOf[o] : o \in registered}]
  /\ late' = IF t = Poller /\ ~running THEN late + 1 ELSE late
  /\ Goto(t, "fetch")
  /\ UNCHANGED <<push, running, mutex, joinable, terminated, phase, devices,
                  registered, owned, targets, reply, world, faults>>

\* Variant of Answer that keeps plain pointers to the last id's objects.
AnswerUnheld(t, i) ==
  /\ At(t, "fetch") /\ i \in todo[t]
  /\ todo' = [todo EXCEPT ![t] = @ \ {i}]
  /\ targets' = [targets EXCEPT ![t] = {o \in held[t] : IdOf[o] = i}]
  /\ reply' = [reply EXCEPT ![t] = [id |-> i, value |-> cloud[i],
                                     covered |-> (push => posts[i] > 0)]]
  /\ held' = IF todo[t] = {i} THEN [held EXCEPT ![t] = {}] ELSE held
  /\ Goto(t, "apply")
  /\ UNCHANGED <<push, polling, phase, devices, registered, owned, world, faults>>

\* getDeviceStatus(): the request is answered ...
Answer(t, i) ==
  /\ At(t, "fetch") /\ i \in todo[t]
  /\ todo' = [todo EXCEPT ![t] = @ \ {i}]
  /\ targets' = [targets EXCEPT ![t] = {o \in held[t] : IdOf[o] = i}]
  /\ reply' = [reply EXCEPT ![t] = [id |-> i, value |-> cloud[i],
                                     covered |-> (push => posts[i] > 0)]]
  /\ Goto(t, "apply")
  /\ UNCHANGED <<push, polling, phase, devices, lifetimes, world, faults>>

\* ... or fails: the device is offline, the rate limit is reached.  A cycle
\* goes on with the next id, a read goes on without a status.
Fail(t, i) ==
  /\ At(t, "fetch") /\ i \in todo[t] /\ faults < MaxFaults
  /\ faults' = faults + 1
  /\ todo' = [todo EXCEPT ![t] = @ \ {i}]
  /\ UNCHANGED <<push, polling, phase, devices, lifetimes, pc, targets, reply,
                  world>>

\* The next target, and back to the list of ids after the last.
NextTarget(t, o) ==
  /\ At(t, "apply") /\ o \in targets[t]
  /\ targets' = [targets EXCEPT ![t] = @ \ {o}]
  /\ Goto(t, IF targets[t] = {o} THEN "fetch" ELSE "apply")

SetBack(t, o) == reply[t].value < value[o]

\* Variant of ApplyStatus that takes the first status only.
ApplyStatusOnce(t, o) ==
  /\ t \notin Servers /\ NextTarget(t, o)
  /\ value' = IF o \in refreshed THEN value
              ELSE [value EXCEPT ![o] = reply[t].value]
  /\ refreshed' = refreshed \cup {o} /\ doubtful' = doubtful
  /\ UNCHANGED <<push, polling, phase, lifetimes, todo, reply, world, faults>>

\* applyStatus() of one object.
ApplyStatus(t, o) ==
  /\ t \notin Servers /\ NextTarget(t, o)
  /\ value' = [value EXCEPT ![o] = reply[t].value]
  /\ refreshed' = refreshed \cup {o}
  /\ doubtful' = IF push /\ (SetBack(t, o) \/ ~reply[t].covered)
                 THEN doubtful \cup {o} ELSE doubtful
  /\ UNCHANGED <<push, polling, phase, lifetimes, todo, reply, world, faults>>

\* The end of a read, a cycle or an event: the shared_ptrs go one by one ...
Drop(t, o) ==
  /\ At(t, "fetch") /\ todo[t] = {} /\ o \in held[t]
  /\ held' = [held EXCEPT ![t] = @ \ {o}]
  /\ LetGo(o, owned \cup UNION {held[u] : u \in Threads \ {t}})
  /\ UNCHANGED <<push, polling, phase, owned, pc, work, world, faults>>

\* ... and the thread goes on.
Finish(t) ==
  /\ At(t, "fetch") /\ todo[t] = {} /\ held[t] = {}
  /\ reply' = [reply EXCEPT ![t] = NoReply]
  /\ Goto(t, IF t = Poller THEN "relock" ELSE "idle")
  /\ UNCHANGED <<push, polling, phase, devices, lifetimes, todo, targets, world,
                  faults>>

-----------------------------------------------------------------------------
(* Events                                                                   *)

\* A device changes; each of its subscriptions posts the change.
Change(i) ==
  /\ changes < MaxChanges /\ changes' = changes + 1
  /\ cloud' = [cloud EXCEPT ![i] = @ + 1]
  /\ events' = events \cup {<<i, cloud[i] + 1, n>> : n \in 1 .. posts[i]}
  /\ UNCHANGED <<push, polling, phase, devices, lifetimes, pc, work, posts,
                  faults>>

\* The cloud creates a subscription for maybeSubscribeDevice(), which may be
\* one too many ...
Subscribed(i) ==
  /\ push /\ posts[i] < MaxSubscriptions
  /\ posts' = [posts EXCEPT ![i] = @ + 1]
  /\ UNCHANGED <<push, polling, phase, devices, lifetimes, pc, work, cloud,
                  events, changes, faults>>

\* ... or deletes one for onDeviceReleased() or ~Client(), or with the
\* installation.  With the last one the Devices alive cease to be followed.
Unsubscribed(i) ==
  /\ posts[i] > 0 /\ posts' = [posts EXCEPT ![i] = @ - 1]
  /\ doubtful' = IF posts[i] = 1
                 THEN doubtful \cup {o \in registered : IdOf[o] = i}
                 ELSE doubtful
  /\ UNCHANGED <<push, polling, phase, value, refreshed, lifetimes, pc, work,
                  cloud, events, changes, faults>>

\* The EVENT branch of processWebhook().
TakeEvent(t, e) ==
  /\ t \in Servers /\ At(t, "idle") /\ phase = "running" /\ e \in events
  /\ reply' = [reply EXCEPT ![t] =
                 [id |-> e[1], value |-> e[2], covered |-> TRUE]]
  /\ events' = events \ {e} /\ Goto(t, "live")
  /\ UNCHANGED <<push, polling, phase, devices, lifetimes, todo, targets, cloud,
                  posts, changes, faults>>

\* liveDevicesFor().
LiveDevicesFor(t) ==
  /\ At(t, "live")
  /\ LET live == {o \in registered : IdOf[o] = reply[t].id} IN
     /\ held' = [held EXCEPT ![t] = live]
     /\ targets' = [targets EXCEPT ![t] = live]
     /\ Goto(t, IF live = {} THEN "fetch" ELSE "apply")
  /\ UNCHANGED <<push, polling, phase, devices, registered, owned, todo, reply,
                  world, faults>>

\* Variant of ApplyEvent that leaves Devices without a status alone.
ApplyEventIfRefreshed(t, o) ==
  /\ t \in Servers /\ NextTarget(t, o)
  /\ value' = IF o \in refreshed THEN [value EXCEPT ![o] = reply[t].value]
              ELSE value
  /\ doubtful' = IF SetBack(t, o) THEN doubtful \cup {o} ELSE doubtful
  /\ UNCHANGED <<push, polling, phase, refreshed, lifetimes, todo, reply,
                  world, faults>>

\* applyDeviceEvent() of one object; an event never triggers a fetch and does
\* not count as a refresh.
ApplyEvent(t, o) ==
  /\ t \in Servers /\ NextTarget(t, o)
  /\ value' = [value EXCEPT ![o] = reply[t].value]
  /\ doubtful' = IF SetBack(t, o) THEN doubtful \cup {o} ELSE doubtful
  /\ UNCHANGED <<push, polling, phase, refreshed, lifetimes, todo, reply,
                  world, faults>>

-----------------------------------------------------------------------------
(* The polling thread                                                       *)

\* It takes _pollingMutex at the start, after a cycle and out of the wait.
Lock ==
  /\ pc[Poller] \in {"lock", "relock", "notified", "timedout"}
  /\ mutex = NoThread /\ mutex' = Poller
  /\ Goto(Poller, IF pc[Poller] \in {"lock", "timedout"} THEN "test" ELSE "check")
  /\ UNCHANGED <<push, running, joinable, late, terminated, phase, devices,
                  lifetimes, work, world, faults>>

\* Variant of Test that polls once more when it is told to stop.
TestOnceMore ==
  /\ At(Poller, "test") /\ mutex' = NoThread
  /\ Goto(Poller, IF running \/ late < 2 THEN "snapshot" ELSE "ended")
  /\ UNCHANGED <<push, running, joinable, late, terminated, phase, devices,
                  lifetimes, work, world, faults>>

\* while (_pollingRunning); the mutex is released for the cycle.
Test ==
  /\ At(Poller, "test") /\ mutex' = NoThread
  /\ Goto(Poller, IF running THEN "snapshot" ELSE "ended")
  /\ UNCHANGED <<push, running, joinable, late, terminated, phase, devices,
                  lifetimes, work, world, faults>>

\* The predicate of wait_for(), with the mutex held ...
CheckStop ==
  /\ At(Poller, "check")
  /\ Goto(Poller, IF running THEN "doze" ELSE "test")
  /\ UNCHANGED <<push, polling, phase, devices, lifetimes, work, world, faults>>

\* Variant of FallAsleep that sleeps with the mutex.
FallAsleepLocked ==
  /\ At(Poller, "doze") /\ mutex' = mutex /\ Goto(Poller, "asleep")
  /\ UNCHANGED <<push, running, joinable, late, terminated, phase, devices,
                  lifetimes, work, world, faults>>

\* ... which the wait releases.
FallAsleep ==
  /\ At(Poller, "doze") /\ mutex' = NoThread /\ Goto(Poller, "asleep")
  /\ UNCHANGED <<push, running, joinable, late, terminated, phase, devices,
                  lifetimes, work, world, faults>>

\* The interval is over.
TimesOut ==
  /\ At(Poller, "asleep") /\ Goto(Poller, "timedout")
  /\ UNCHANGED <<push, polling, phase, devices, lifetimes, work, world, faults>>

\* A spurious wake-up, which the predicate catches.
WakesUp ==
  /\ At(Poller, "asleep") /\ Goto(Poller, "notified")
  /\ UNCHANGED <<push, polling, phase, devices, lifetimes, work, world, faults>>

\* startPolling(): test and set, and then the thread.
StartPolling(t) ==
  /\ Calling(t) /\ t = Controller /\ ~running
  /\ running' = TRUE /\ late' = 0 /\ Goto(t, "start")
  /\ UNCHANGED <<push, mutex, joinable, terminated, phase, devices, lifetimes,
                  work, world, faults>>

\* A std::thread must not be assigned to while it is joinable.
StartThread(t) ==
  /\ At(t, "start")
  /\ joinable' = TRUE /\ terminated' = (joinable \/ terminated)
  /\ pc' = [pc EXCEPT ![t] = "idle", ![Poller] = "lock"]
  /\ UNCHANGED <<push, running, mutex, late, phase, devices, lifetimes, work,
                  world, faults>>

\* stopPolling(): an idle Client has nothing to stop.
StopPolling(t) ==
  /\ Calling(t) /\ t = Controller /\ running /\ Goto(t, "clear")
  /\ UNCHANGED <<push, polling, phase, devices, lifetimes, work, world, faults>>

\* Variant of ClearFlag that does not take the mutex.
ClearFlagUnlocked(t) ==
  /\ At(t, "clear")
  /\ running' = FALSE /\ late' = 0 /\ Goto(t, "notify")
  /\ UNCHANGED <<push, mutex, joinable, terminated, phase, devices, lifetimes,
                  work, world, faults>>

\* The flag is cleared under the mutex, so that the polling thread cannot be
\* between the predicate and the wait.
ClearFlag(t) ==
  /\ At(t, "clear") /\ mutex = NoThread
  /\ running' = FALSE /\ late' = 0 /\ Goto(t, "notify")
  /\ UNCHANGED <<push, mutex, joinable, terminated, phase, devices, lifetimes,
                  work, world, faults>>

NotifyAll(t) ==
  /\ At(t, "notify")
  /\ pc' = [pc EXCEPT ![t] = "join",
                      ![Poller] = IF @ = "asleep" THEN "notified" ELSE @]
  /\ UNCHANGED <<push, polling, phase, devices, lifetimes, work, world, faults>>

\* The end of ~Client()'s use of the threads; a joinable one terminates.
Gone == IF phase = "stopping" THEN "gone" ELSE phase

\* Variant of Join that does not wait.
JoinNothing(t) ==
  /\ At(t, "join") /\ phase' = Gone
  /\ terminated' = (terminated \/ (phase = "stopping" /\ joinable))
  /\ Goto(t, "idle")
  /\ UNCHANGED <<push, running, mutex, joinable, late, devices, lifetimes, work,
                  world, faults>>

Join(t) ==
  /\ At(t, "join") /\ At(Poller, "ended")
  /\ joinable' = FALSE /\ phase' = Gone
  /\ pc' = [pc EXCEPT ![t] = "idle", ![Poller] = "none"]
  /\ UNCHANGED <<push, running, mutex, late, terminated, devices, lifetimes,
                  work, world, faults>>

\* ~Client(): the application makes no other call; the server is stopped ...
Destroy(t) ==
  /\ Calling(t) /\ t = Controller
  /\ \A u \in Callers : At(u, "idle")
  /\ phase' = "stopping" /\ Goto(t, "drain")
  /\ UNCHANGED <<push, polling, devices, lifetimes, work, world, faults>>

\* Variant of StopServer that does not wait for the handlers.
StopServerAtOnce(t) ==
  /\ At(t, "drain")
  /\ Goto(t, IF running THEN "clear" ELSE "idle")
  /\ phase' = IF running THEN phase ELSE "gone"
  /\ terminated' = (terminated \/ (~running /\ joinable))
  /\ UNCHANGED <<push, running, mutex, joinable, late, devices, lifetimes, work,
                  world, faults>>

\* ... which waits for its handlers, and then polling.
StopServer(t) ==
  /\ At(t, "drain") /\ \A u \in Servers : At(u, "idle")
  /\ Goto(t, IF running THEN "clear" ELSE "idle")
  /\ phase' = IF running THEN phase ELSE "gone"
  /\ terminated' = (terminated \/ (~running /\ joinable))
  /\ UNCHANGED <<push, running, mutex, joinable, late, devices, lifetimes, work,
                  world, faults>>

-----------------------------------------------------------------------------
\* The steps of one thread, each of which comes to an end.
Work(t) ==
  \/ SnapshotRegistry(t) \/ Finish(t) \/ LiveDevicesFor(t)
  \/ StartThread(t) \/ ClearFlag(t) \/ NotifyAll(t) \/ Join(t) \/ StopServer(t)
  \/ \E i \in Ids : Answer(t, i) \/ Fail(t, i)
  \/ \E o \in Objects : ApplyStatus(t, o) \/ ApplyEvent(t, o) \/ Drop(t, o)

Serve(t) == \E e \in events : TakeEvent(t, e)

Poll == Lock \/ Test \/ CheckStop \/ FallAsleep

\* What an application thread may begin.
Begin(t) ==
  \/ PollNow(t) \/ StartPolling(t) \/ StopPolling(t) \/ Destroy(t)
  \/ \E o \in Objects : RegisterDevice(t, o) \/ Release(t, o) \/ Read(t, o)

Next ==
  \/ \E t \in Threads : Work(t) \/ Serve(t)
  \/ \E t \in Callers : Begin(t)
  \/ Poll \/ TimesOut \/ WakesUp
  \/ \E i \in Ids : Change(i) \/ Subscribed(i) \/ Unsubscribed(i)

Spec == Init /\ [][Next]_vars

\* A thread that has work gets on with it: requests end after their timeout of
\* 10 s, and the wait after its interval, whose deadline spurious wake-ups do
\* not move.  The flag is cleared although the polling thread takes the mutex
\* again and again: it holds it for moments and sleeps at least 5 s without it
\* (MIN_POLLING_INTERVAL).
FairSpec ==
  /\ Spec
  /\ \A t \in Threads : WF_vars(Work(t) \/ Serve(t))
  /\ WF_vars(Poll) /\ SF_vars(TimesOut) /\ SF_vars(ClearFlag(Controller))

-----------------------------------------------------------------------------
(* Properties                                                               *)

Labels == {"idle", "snapshot", "fetch", "apply", "live", "start",
           "clear", "notify", "join", "drain"}
PollerLabels == {"none", "lock", "test", "snapshot", "fetch", "apply", "relock",
                 "check", "doze", "asleep", "timedout", "notified", "ended"}
Values == 0 .. MaxChanges + 1

\* Types, and what goes with a step: the mutex is held exactly where the
\* polling thread looks at the flag.
TypeOK ==
  /\ push \in BOOLEAN /\ running \in BOOLEAN /\ joinable \in BOOLEAN
  /\ mutex = IF pc[Poller] \in {"test", "check", "doze"} THEN Poller
             ELSE NoThread
  /\ registered = Alive /\ owned \subseteq Objects
  /\ phase \in {"running", "stopping", "gone"}
  /\ value \in [Objects -> Values] /\ refreshed \subseteq Alive
  /\ pc \in [Threads -> Labels \cup PollerLabels]
  /\ pc[Poller] \in PollerLabels
  /\ held \in [Threads -> SUBSET Objects] /\ todo \in [Threads -> SUBSET Ids]
  /\ reply \in [Threads -> [id : Ids \cup {"none"}, value : Values,
                             covered : BOOLEAN]]
  /\ cloud \in [Ids -> 1 .. MaxChanges + 1]
  /\ posts \in [Ids -> 0 .. MaxSubscriptions]
  /\ events \subseteq Ids \X Values \X (1 .. MaxSubscriptions)
  /\ doubtful \subseteq Alive /\ late \in Nat /\ terminated \in BOOLEAN
  /\ changes \in 0 .. MaxChanges /\ faults \in 0 .. MaxFaults

\* With one controlling thread no std::thread is assigned to or destroyed
\* while it is joinable, in any order of startPolling(), stopPolling() and
\* ~Client() (client.cpp:748-780).
NeverTerminates == ~terminated

\* Once stopPolling() has cleared the flag, the polling thread begins at most
\* the cycle it was about to begin: a stop waits for one cycle.
StopWaitsForOneCycle == late <= 1

\* stopPolling() has returned and ~Client() is past it: no thread of the
\* Client is left that could touch it.
StoppedIsQuiet ==
  /\ (~running /\ At(Controller, "idle") => At(Poller, "none"))
  /\ (phase = "gone" => \A t \in Threads : pc[t] \in {"idle", "none"})

\* A Device that a thread still has to write into is alive and registered,
\* whatever the application releases meanwhile: the shared_ptrs of a snapshot
\* last to the end of the cycle (client.cpp:703-746, webhook.cpp:342-369).
TargetsAreAlive == \A t \in Threads : targets[t] \subseteq registered

Quiet ==
  /\ events = {}
  /\ \A t \in Threads : pc[t] \notin {"snapshot", "fetch", "apply", "live"}

\* In push mode a Device has the newest value once all events are handled, if
\* its device was subscribed when its status was fetched and has been ever
\* since, however reads, polls and the handling of events by several threads
\* interleaved and whatever subscriptions came and went besides; except where
\* an older answer or event was applied last (client.cpp:737-747,
\* webhook.cpp:508-542).  That a subscription may end while a Device lives is
\* in Subscriptions.
NoUpdateLost ==
  push /\ Quiet =>
    \A o \in refreshed \ doubtful : value[o] = cloud[IdOf[o]]

\* The polling thread does not sleep through a stop: once it is notified it
\* neither waits nor is about to, so that stopPolling() does not last until
\* the end of the interval (client.cpp:754-775).
NoLostWakeUp == At(Controller, "join") => pc[Poller] \notin {"doze", "asleep"}

\* stopPolling() and ~Client() return, whatever the other threads do.
StopReturns == pc[Controller] \in {"drain", "clear"} ~> At(Controller, "idle")

\* A Device that stays alive while polling goes on gets the value of a cloud
\* that no longer changes and keeps it, whatever reads, polls, failures and
\* events come in between.
PollingSyncs ==
  \A o \in Objects :
    <>[](running /\ phase = "running" /\ o \in registered)
      => <>[](value[o] = cloud[IdOf[o]])
=============================================================================
