-------------------------- MODULE LiveUpdatesProofs --------------------------
(***************************************************************************)
(* Theorems about LiveUpdates, for every set of Devices and threads: what  *)
(* holds of the polling thread, of stopping it, and of the Devices that a  *)
(* thread is about to write into.                                          *)
(***************************************************************************)
EXTENDS LiveUpdates, TLAPS

Requesting == {"idle", "snapshot", "fetch", "apply"}

\* What the threads are at: only the Controller starts, stops and destroys.
Labelled ==
  /\ pc \in [Threads -> Labels \cup PollerLabels]
  /\ pc[Poller] \in PollerLabels
  /\ pc[Controller] \in Labels \ {"live"}
  /\ \A t \in Callers \ {Controller} : pc[t] \in Requesting
  /\ \A t \in Servers : pc[t] \in {"idle", "live", "fetch", "apply"}

\* The polling thread is there while it is joinable; the flag is ahead of the
\* thread in startPolling() and in stopPolling() only.
Joinable ==
  /\ joinable \in BOOLEAN /\ running \in BOOLEAN
  /\ joinable <=> pc[Poller] # "none"
  /\ pc[Controller] \notin {"start", "notify", "join"} => running = joinable
  /\ At(Controller, "start") => running /\ ~joinable
  /\ pc[Controller] \in {"notify", "join"} => ~running /\ joinable
  /\ At(Controller, "clear") => running
  /\ At(Poller, "ended") => ~running
  /\ terminated = FALSE

\* The mutex guards the polling thread's look at the flag, up to the wait.
Guarded ==
  /\ mutex = IF pc[Poller] \in {"test", "check", "doze"} THEN Poller
             ELSE NoThread
  /\ At(Controller, "notify") => pc[Poller] # "doze"
  /\ At(Controller, "join") => pc[Poller] \notin {"doze", "asleep"}

\* A cycle that begins after the flag is cleared is the last.
Counted ==
  /\ late \in {0, 1}
  /\ running => late = 0
  /\ late = 1 => pc[Poller] # "snapshot"

\* ~Client() has the Client to itself, and stops the servers before polling.
Phased ==
  /\ phase \in {"running", "stopping", "gone"}
  /\ At(Controller, "drain") => phase = "stopping"
  /\ phase # "running" => \A t \in Callers \ {Controller} : At(t, "idle")
  /\ phase = "stopping" =>
       /\ pc[Controller] \in {"drain", "clear", "notify", "join"}
       /\ ~At(Controller, "drain") => \A t \in Servers : At(t, "idle")
  /\ phase = "gone" =>
       ~joinable /\ At(Controller, "idle") /\ \A t \in Servers : At(t, "idle")

Control == Labelled /\ Joinable /\ Guarded /\ Counted /\ Phased

\* The registry has exactly the objects that somebody holds, and a thread holds
\* those it still has to write into.
Lives ==
  /\ owned \subseteq Objects /\ held \in [Threads -> SUBSET Objects]
  /\ targets \in [Threads -> SUBSET Objects]
  /\ registered = Alive
  /\ \A t \in Threads :
       /\ targets[t] \subseteq held[t]
       /\ pc[t] \notin {"fetch", "apply"} => held[t] = {}
       /\ pc[t] # "apply" => targets[t] = {}

\* The constructor starts the polling thread, or does not.
LEMMA ControlInit == Init => Control
  BY ThreadsAssumption
  DEF Init, Threads, Control, Labelled, Joinable, Guarded, Counted, Phased,
      Labels, PollerLabels, Requesting, At

\* Every step keeps the control of the threads.
LEMMA ControlStep == Control /\ [Next]_vars => Control'
<1> SUFFICES ASSUME Control, [Next]_vars PROVE Control'
  OBVIOUS
<1> USE ThreadsAssumption
    DEF Control, Labelled, Joinable, Guarded, Counted, Phased, Labels,
        PollerLabels, Requesting, Threads, At, Goto, polling, Calling
<1>1. ASSUME NEW t \in Threads, NEW o \in Objects, Drop(t, o)
      PROVE  Control'
  BY <1>1 DEF Drop
<1>2. ASSUME NEW t \in Threads, SnapshotRegistry(t)
      PROVE  Control'
  BY <1>2 DEF SnapshotRegistry
<1>3. ASSUME NEW t \in Threads, Finish(t)
      PROVE  Control'
  BY <1>3 DEF Finish
<1>4. ASSUME NEW t \in Threads, LiveDevicesFor(t)
      PROVE  Control'
  BY <1>4 DEF LiveDevicesFor
<1>5. ASSUME NEW t \in Threads, StartThread(t)
      PROVE  Control'
  BY <1>5 DEF StartThread
<1>6. ASSUME NEW t \in Threads, ClearFlag(t)
      PROVE  Control'
  BY <1>6 DEF ClearFlag
<1>7. ASSUME NEW t \in Threads, NotifyAll(t)
      PROVE  Control'
  BY <1>7 DEF NotifyAll
<1>8. ASSUME NEW t \in Threads, Join(t)
      PROVE  Control'
  BY <1>8 DEF Join, Gone
<1>9. ASSUME NEW t \in Threads, StopServer(t)
      PROVE  Control'
  BY <1>9 DEF StopServer
<1>10. ASSUME NEW t \in Threads, NEW i \in Ids, Answer(t, i)
      PROVE  Control'
  BY <1>10 DEF Answer
<1>11. ASSUME NEW t \in Threads, NEW i \in Ids, Fail(t, i)
      PROVE  Control'
  BY <1>11 DEF Fail
<1>12. ASSUME NEW t \in Threads, NEW o \in Objects, ApplyStatus(t, o)
      PROVE  Control'
  BY <1>12 DEF ApplyStatus, NextTarget
<1>13. ASSUME NEW t \in Threads, NEW o \in Objects, ApplyEvent(t, o)
      PROVE  Control'
  BY <1>13 DEF ApplyEvent, NextTarget
<1>14. ASSUME NEW t \in Threads, NEW e \in events, TakeEvent(t, e)
      PROVE  Control'
  BY <1>14 DEF TakeEvent
<1>15. ASSUME NEW t \in Callers, PollNow(t)
      PROVE  Control'
  BY <1>15 DEF PollNow
<1>16. ASSUME NEW t \in Callers, StartPolling(t)
      PROVE  Control'
  BY <1>16 DEF StartPolling
<1>17. ASSUME NEW t \in Callers, StopPolling(t)
      PROVE  Control'
  BY <1>17 DEF StopPolling
<1>18. ASSUME NEW t \in Callers, Destroy(t)
      PROVE  Control'
  BY <1>18 DEF Destroy
<1>19. ASSUME NEW t \in Callers, NEW o \in Objects, RegisterDevice(t, o)
      PROVE  Control'
  BY <1>19 DEF RegisterDevice
<1>20. ASSUME NEW t \in Callers, NEW o \in Objects, Release(t, o)
      PROVE  Control'
  BY <1>20 DEF Release
<1>21. ASSUME NEW t \in Callers, NEW o \in Objects, Read(t, o)
      PROVE  Control'
  BY <1>21 DEF Read
<1>22. ASSUME Lock
      PROVE  Control'
  BY <1>22 DEF Lock
<1>23. ASSUME Test PROVE Control'
  <2>1. CASE running
    BY <1>23, <2>1 DEF Test
  <2>2. CASE ~running
    BY <1>23, <2>2 DEF Test
  <2> QED
    BY <2>1, <2>2 DEF Joinable
<1>24. ASSUME CheckStop
      PROVE  Control'
  BY <1>24 DEF CheckStop
<1>25. ASSUME FallAsleep
      PROVE  Control'
  BY <1>25 DEF FallAsleep
<1>26. ASSUME TimesOut
      PROVE  Control'
  BY <1>26 DEF TimesOut
<1>27. ASSUME WakesUp
      PROVE  Control'
  BY <1>27 DEF WakesUp
<1>28. ASSUME NEW i \in Ids, Change(i)
      PROVE  Control'
  BY <1>28 DEF Change
<1>29. ASSUME UNCHANGED vars
      PROVE  Control'
  BY <1>29 DEF vars
<1>30. ASSUME NEW i \in Ids, Subscribed(i) PROVE Control'
  BY <1>30 DEF Subscribed
<1>31. ASSUME NEW i \in Ids, Unsubscribed(i) PROVE Control'
  BY <1>31 DEF Unsubscribed
<1> QED
  BY <1>1, <1>2, <1>3, <1>4, <1>5, <1>6, <1>7, <1>8, <1>9, <1>10, <1>11,
     <1>12, <1>13, <1>14, <1>15, <1>16, <1>17, <1>18, <1>19, <1>20, <1>21,
     <1>22, <1>23, <1>24, <1>25, <1>26, <1>27, <1>28, <1>29, <1>30, <1>31
  DEF Next, Work, Serve, Poll, Begin

\* The constructor starts with no Device.
LEMMA LivesInit == Init => Lives
  BY DEF Init, Lives, Alive

\* Every step keeps the registry exact: a snapshot copies it, the end of a
\* snapshot takes the Devices out of it that nobody else holds.
LEMMA LivesStep == Control /\ Lives /\ [Next]_vars => Lives'
<1> SUFFICES ASSUME Control, Lives, [Next]_vars PROVE Lives'
  OBVIOUS
<1> USE ThreadsAssumption
    DEF Control, Labelled, Labels, PollerLabels, Requesting, Threads, Lives,
        Alive, At, Goto, Calling
<1>1. ASSUME NEW t \in Threads, NEW o \in Objects, Drop(t, o) PROVE Lives'
  BY <1>1 DEF Drop, LetGo, work
<1>2. ASSUME NEW t \in Threads, StartThread(t) PROVE Lives'
  BY <1>2 DEF StartThread, Joinable, lifetimes, work
<1>3. ASSUME NEW t \in Threads, ClearFlag(t) PROVE Lives'
  BY <1>3 DEF ClearFlag, lifetimes, work
<1>4. ASSUME NEW t \in Threads, NotifyAll(t) PROVE Lives'
  BY <1>4 DEF NotifyAll, lifetimes, work
<1>5. ASSUME NEW t \in Threads, StopServer(t) PROVE Lives'
  BY <1>5 DEF StopServer, lifetimes, work
<1>6. ASSUME NEW t \in Threads, Join(t) PROVE Lives'
  BY <1>6 DEF Join, lifetimes, work
<1>7. ASSUME NEW t \in Callers, PollNow(t) PROVE Lives'
  BY <1>7 DEF PollNow, lifetimes, work
<1>8. ASSUME NEW t \in Callers, StartPolling(t) PROVE Lives'
  BY <1>8 DEF StartPolling, lifetimes, work
<1>9. ASSUME NEW t \in Callers, StopPolling(t) PROVE Lives'
  BY <1>9 DEF StopPolling, lifetimes, work
<1>10. ASSUME NEW t \in Callers, Destroy(t) PROVE Lives'
  BY <1>10 DEF Destroy, lifetimes, work
<1>11. ASSUME Lock PROVE Lives'
  BY <1>11 DEF Lock, lifetimes, work
<1>12. ASSUME Test PROVE Lives'
  BY <1>12 DEF Test, lifetimes, work
<1>13. ASSUME CheckStop PROVE Lives'
  BY <1>13 DEF CheckStop, lifetimes, work
<1>14. ASSUME FallAsleep PROVE Lives'
  BY <1>14 DEF FallAsleep, lifetimes, work
<1>15. ASSUME TimesOut PROVE Lives'
  BY <1>15 DEF TimesOut, lifetimes, work
<1>16. ASSUME WakesUp PROVE Lives'
  BY <1>16 DEF WakesUp, lifetimes, work
<1>17. ASSUME NEW i \in Ids, Change(i) PROVE Lives'
  BY <1>17 DEF Change, lifetimes, work
<1>18. ASSUME NEW t \in Threads, NEW e \in events, TakeEvent(t, e)
      PROVE  Lives'
  BY <1>18 DEF TakeEvent, lifetimes, work
<1>19. ASSUME UNCHANGED vars PROVE Lives'
  BY <1>19 DEF vars, lifetimes, work
<1>20. ASSUME NEW t \in Threads, NEW i \in Ids, Fail(t, i) PROVE Lives'
  BY <1>20 DEF Fail, lifetimes, work
<1>21. ASSUME NEW t \in Threads, NEW i \in Ids, Answer(t, i) PROVE Lives'
  BY <1>21 DEF Answer, lifetimes
<1>22. ASSUME NEW t \in Threads, NEW o \in Objects, ApplyStatus(t, o)
      PROVE  Lives'
  BY <1>22 DEF ApplyStatus, NextTarget, lifetimes
<1>23. ASSUME NEW t \in Threads, NEW o \in Objects, ApplyEvent(t, o)
      PROVE  Lives'
  BY <1>23 DEF ApplyEvent, NextTarget, lifetimes
<1>24. ASSUME NEW t \in Threads, SnapshotRegistry(t) PROVE Lives'
  BY <1>24 DEF SnapshotRegistry
<1>25. ASSUME NEW t \in Threads, LiveDevicesFor(t) PROVE Lives'
  BY <1>25 DEF LiveDevicesFor
<1>26. ASSUME NEW t \in Callers, NEW o \in Objects, RegisterDevice(t, o)
      PROVE  Lives'
  BY <1>26 DEF RegisterDevice, work
<1>27. ASSUME NEW t \in Callers, NEW o \in Objects, Read(t, o) PROVE Lives'
  BY <1>27 DEF Read
<1>28. ASSUME NEW t \in Callers, NEW o \in Objects, Release(t, o)
      PROVE  Lives'
  BY <1>28 DEF Release, LetGo, work
<1>29. ASSUME NEW t \in Threads, Finish(t) PROVE Lives'
  BY <1>29 DEF Finish, lifetimes
<1>30. ASSUME NEW i \in Ids, Subscribed(i) PROVE Lives'
  BY <1>30 DEF Subscribed, lifetimes, work
<1>31. ASSUME NEW i \in Ids, Unsubscribed(i) PROVE Lives'
  BY <1>31 DEF Unsubscribed, lifetimes, work
<1> QED
  BY <1>1, <1>2, <1>3, <1>4, <1>5, <1>6, <1>7, <1>8, <1>9, <1>10, <1>11,
     <1>12, <1>13, <1>14, <1>15, <1>16, <1>17, <1>18, <1>19, <1>20, <1>21,
     <1>22, <1>23, <1>24, <1>25, <1>26, <1>27, <1>28, <1>29, <1>30, <1>31
  DEF Next, Work, Serve, Poll, Begin

\* What the answers and events in the program can be: a value of the cloud's.
Data ==
  /\ push \in BOOLEAN
  /\ cloud \in [Ids -> Nat] /\ \A i \in Ids : cloud[i] \in 1 .. changes + 1
  /\ changes \in 0 .. MaxChanges /\ faults \in 0 .. MaxFaults
  /\ events \subseteq Ids \X Values \X (1 .. MaxSubscriptions)
  /\ posts \in [Ids -> 0 .. MaxSubscriptions]
  /\ todo \in [Threads -> SUBSET Ids]
  /\ reply \in [Threads -> [id : Ids \cup {"none"}, value : Values,
                             covered : BOOLEAN]]

\* What the Devices hold of it.
Fields ==
  /\ value \in [Objects -> Values]
  /\ refreshed \subseteq registered /\ doubtful \subseteq registered

\* The values start with the first ones of the cloud.
LEMMA DataInit == Init => Data
  BY BoundsAssumption DEF Init, Data, Values, NoReply, ReplyFor, Threads, At

\* A reply or an event carries an id of a device and one of its values.
LEMMA DataStep == Control /\ Lives /\ Data /\ [Next]_vars => Data'
<1> SUFFICES ASSUME Control, Lives, Data, [Next]_vars PROVE Data'
  OBVIOUS
<1> USE ThreadsAssumption, BoundsAssumption, ObjectsAssumption
    DEF Control, Labelled, Labels, PollerLabels, Requesting, Threads, Data,
        Values, NoReply, ReplyFor, At, Goto, Calling
<1>1. ASSUME NEW t \in Threads, NEW o \in Objects, Drop(t, o) PROVE Data'
  BY <1>1 DEF Drop, work, world
<1>2. ASSUME NEW t \in Threads, SnapshotRegistry(t) PROVE Data'
  <2>1. {IdOf[o] : o \in registered} \subseteq Ids
    BY ObjectsAssumption DEF Lives, Alive
  <2> QED
    BY <1>2, <2>1 DEF SnapshotRegistry, world
<1>3. ASSUME NEW t \in Threads, LiveDevicesFor(t) PROVE Data'
  BY <1>3 DEF LiveDevicesFor, world
<1>4. ASSUME NEW t \in Threads, Finish(t) PROVE Data'
  BY <1>4 DEF Finish, world
<1>5. ASSUME NEW t \in Threads, StartThread(t) PROVE Data'
  BY <1>5 DEF StartThread, work, world
<1>6. ASSUME NEW t \in Threads, ClearFlag(t) PROVE Data'
  BY <1>6 DEF ClearFlag, work, world
<1>7. ASSUME NEW t \in Threads, NotifyAll(t) PROVE Data'
  BY <1>7 DEF NotifyAll, work, world
<1>8. ASSUME NEW t \in Threads, Join(t) PROVE Data'
  BY <1>8 DEF Join, work, world
<1>9. ASSUME NEW t \in Threads, StopServer(t) PROVE Data'
  BY <1>9 DEF StopServer, work, world
<1>10. ASSUME NEW t \in Threads, NEW i \in Ids, Answer(t, i) PROVE Data'
  BY <1>10 DEF Answer, work, world
<1>11. ASSUME NEW t \in Threads, NEW i \in Ids, Fail(t, i) PROVE Data'
  BY <1>11 DEF Fail, work, world
<1>12. ASSUME NEW t \in Threads, NEW o \in Objects, ApplyStatus(t, o)
      PROVE  Data'
  BY <1>12 DEF ApplyStatus, NextTarget, work, world
<1>13. ASSUME NEW t \in Threads, NEW o \in Objects, ApplyEvent(t, o)
      PROVE  Data'
  BY <1>13 DEF ApplyEvent, NextTarget, work, world
<1>14. ASSUME NEW t \in Threads, NEW e \in events, TakeEvent(t, e)
      PROVE  Data'
  BY <1>14 DEF TakeEvent, work, world
<1>15. ASSUME NEW t \in Callers, PollNow(t) PROVE Data'
  BY <1>15 DEF PollNow, work, world
<1>16. ASSUME NEW t \in Callers, StartPolling(t) PROVE Data'
  BY <1>16 DEF StartPolling, work, world
<1>17. ASSUME NEW t \in Callers, StopPolling(t) PROVE Data'
  BY <1>17 DEF StopPolling, work, world
<1>18. ASSUME NEW t \in Callers, Destroy(t) PROVE Data'
  BY <1>18 DEF Destroy, work, world
<1>19. ASSUME NEW t \in Callers, NEW o \in Objects, RegisterDevice(t, o)
      PROVE  Data'
  BY <1>19 DEF RegisterDevice, work, world
<1>20. ASSUME NEW t \in Callers, NEW o \in Objects, Release(t, o) PROVE Data'
  BY <1>20 DEF Release, work, world
<1>21. ASSUME NEW t \in Callers, NEW o \in Objects, Read(t, o) PROVE Data'
  BY <1>21 DEF Read, work, world
<1>22. ASSUME Lock PROVE Data'
  BY <1>22 DEF Lock, work, world
<1>23. ASSUME Test PROVE Data'
  BY <1>23 DEF Test, work, world
<1>24. ASSUME CheckStop PROVE Data'
  BY <1>24 DEF CheckStop, work, world
<1>25. ASSUME FallAsleep PROVE Data'
  BY <1>25 DEF FallAsleep, work, world
<1>26. ASSUME TimesOut PROVE Data'
  BY <1>26 DEF TimesOut, work, world
<1>27. ASSUME WakesUp PROVE Data'
  BY <1>27 DEF WakesUp, work, world
<1>28. ASSUME NEW i \in Ids, Change(i) PROVE Data'
  BY <1>28 DEF Change, work, world
<1>29. ASSUME UNCHANGED vars PROVE Data'
  BY <1>29 DEF vars, work, world
<1>30. ASSUME NEW i \in Ids, Subscribed(i) PROVE Data'
  BY <1>30 DEF Subscribed, work
<1>31. ASSUME NEW i \in Ids, Unsubscribed(i) PROVE Data'
  BY <1>31 DEF Unsubscribed, work
<1> QED
  BY <1>1, <1>2, <1>3, <1>4, <1>5, <1>6, <1>7, <1>8, <1>9, <1>10, <1>11,
     <1>12, <1>13, <1>14, <1>15, <1>16, <1>17, <1>18, <1>19, <1>20, <1>21,
     <1>22, <1>23, <1>24, <1>25, <1>26, <1>27, <1>28, <1>29, <1>30, <1>31
  DEF Next, Work, Serve, Poll, Begin

\* No Device has a value at first.
LEMMA FieldsInit == Init => Fields
  BY BoundsAssumption DEF Init, Fields, Values

\* A thread writes into registered Devices only.
LEMMA HeldIsRegistered ==
  ASSUME Lives, NEW t \in Threads
  PROVE  targets[t] \subseteq registered
  BY DEF Lives, Alive

\* What a step writes into a Device is a value of the cloud, and a Device that
\* goes takes its state with it.
LEMMA FieldsStep == Control /\ Lives /\ Data /\ Fields /\ [Next]_vars => Fields'
<1> SUFFICES ASSUME Control, Lives, Data, Fields, [Next]_vars PROVE Fields'
  OBVIOUS
<1> USE ThreadsAssumption, BoundsAssumption
    DEF Control, Labelled, Threads, Fields, Calling
<1>1. ASSUME NEW t \in Threads, NEW o \in Objects, Drop(t, o) PROVE Fields'
  BY <1>1 DEF Drop, LetGo, devices, Values
<1>2. ASSUME NEW t \in Threads, SnapshotRegistry(t) PROVE Fields'
  BY <1>2 DEF SnapshotRegistry, devices, lifetimes
<1>3. ASSUME NEW t \in Threads, LiveDevicesFor(t) PROVE Fields'
  BY <1>3 DEF LiveDevicesFor, devices, lifetimes
<1>4. ASSUME NEW t \in Threads, Finish(t) PROVE Fields'
  BY <1>4 DEF Finish, devices, lifetimes
<1>5. ASSUME NEW t \in Threads, StartThread(t) PROVE Fields'
  BY <1>5 DEF StartThread, devices, lifetimes
<1>6. ASSUME NEW t \in Threads, ClearFlag(t) PROVE Fields'
  BY <1>6 DEF ClearFlag, devices, lifetimes
<1>7. ASSUME NEW t \in Threads, NotifyAll(t) PROVE Fields'
  BY <1>7 DEF NotifyAll, devices, lifetimes
<1>8. ASSUME NEW t \in Threads, Join(t) PROVE Fields'
  BY <1>8 DEF Join, devices, lifetimes
<1>9. ASSUME NEW t \in Threads, StopServer(t) PROVE Fields'
  BY <1>9 DEF StopServer, devices, lifetimes
<1>10. ASSUME NEW t \in Threads, NEW i \in Ids, Answer(t, i) PROVE Fields'
  BY <1>10 DEF Answer, devices, lifetimes
<1>11. ASSUME NEW t \in Threads, NEW i \in Ids, Fail(t, i) PROVE Fields'
  BY <1>11 DEF Fail, devices, lifetimes
<1>12. ASSUME NEW t \in Threads, NEW o \in Objects, ApplyStatus(t, o)
      PROVE  Fields'
  <2>1. o \in registered
    BY <1>12, HeldIsRegistered DEF ApplyStatus, NextTarget
  <2>2. reply[t].value \in Values
    BY DEF Data
  <2> QED
    BY <1>12, <2>1, <2>2 DEF ApplyStatus, NextTarget, lifetimes
<1>13. ASSUME NEW t \in Threads, NEW o \in Objects, ApplyEvent(t, o)
      PROVE  Fields'
  <2>1. o \in registered
    BY <1>13, HeldIsRegistered DEF ApplyEvent, NextTarget
  <2>2. reply[t].value \in Values
    BY DEF Data
  <2> QED
    BY <1>13, <2>1, <2>2 DEF ApplyEvent, NextTarget, lifetimes
<1>14. ASSUME NEW t \in Threads, NEW e \in events, TakeEvent(t, e)
      PROVE  Fields'
  BY <1>14 DEF TakeEvent, devices, lifetimes
<1>15. ASSUME NEW t \in Callers, PollNow(t) PROVE Fields'
  BY <1>15 DEF PollNow, devices, lifetimes
<1>16. ASSUME NEW t \in Callers, StartPolling(t) PROVE Fields'
  BY <1>16 DEF StartPolling, devices, lifetimes
<1>17. ASSUME NEW t \in Callers, StopPolling(t) PROVE Fields'
  BY <1>17 DEF StopPolling, devices, lifetimes
<1>18. ASSUME NEW t \in Callers, Destroy(t) PROVE Fields'
  BY <1>18 DEF Destroy, devices, lifetimes
<1>19. ASSUME NEW t \in Callers, NEW o \in Objects, RegisterDevice(t, o)
      PROVE  Fields'
  BY <1>19 DEF RegisterDevice, devices
<1>20. ASSUME NEW t \in Callers, NEW o \in Objects, Release(t, o)
      PROVE  Fields'
  BY <1>20 DEF Release, LetGo, devices, Values
<1>21. ASSUME NEW t \in Callers, NEW o \in Objects, Read(t, o) PROVE Fields'
  BY <1>21 DEF Read, devices, lifetimes
<1>22. ASSUME Lock PROVE Fields'
  BY <1>22 DEF Lock, devices, lifetimes
<1>23. ASSUME Test PROVE Fields'
  BY <1>23 DEF Test, devices, lifetimes
<1>24. ASSUME CheckStop PROVE Fields'
  BY <1>24 DEF CheckStop, devices, lifetimes
<1>25. ASSUME FallAsleep PROVE Fields'
  BY <1>25 DEF FallAsleep, devices, lifetimes
<1>26. ASSUME TimesOut PROVE Fields'
  BY <1>26 DEF TimesOut, devices, lifetimes
<1>27. ASSUME WakesUp PROVE Fields'
  BY <1>27 DEF WakesUp, devices, lifetimes
<1>28. ASSUME NEW i \in Ids, Change(i) PROVE Fields'
  BY <1>28 DEF Change, devices, lifetimes
<1>29. ASSUME UNCHANGED vars PROVE Fields'
  BY <1>29 DEF vars, devices, lifetimes
<1>30. ASSUME NEW i \in Ids, Subscribed(i) PROVE Fields'
  BY <1>30 DEF Subscribed, devices, lifetimes
<1>31. ASSUME NEW i \in Ids, Unsubscribed(i) PROVE Fields'
  BY <1>31 DEF Unsubscribed, lifetimes
<1> QED
  BY <1>1, <1>2, <1>3, <1>4, <1>5, <1>6, <1>7, <1>8, <1>9, <1>10, <1>11,
     <1>12, <1>13, <1>14, <1>15, <1>16, <1>17, <1>18, <1>19, <1>20, <1>21,
     <1>22, <1>23, <1>24, <1>25, <1>26, <1>27, <1>28, <1>29, <1>30, <1>31
  DEF Next, Work, Serve, Poll, Begin

\* The parts together are inductive.
IInv == Control /\ Lives /\ Data /\ Fields

LEMMA Invariant == Spec => []IInv
<1>1. Init => IInv
  BY ControlInit, LivesInit, DataInit, FieldsInit DEF IInv
<1>2. IInv /\ [Next]_vars => IInv'
  BY ControlStep, LivesStep, DataStep, FieldsStep DEF IInv
<1> QED
  BY <1>1, <1>2, PTL DEF Spec

\* Every variable keeps its type, the mutex is held exactly where the polling
\* thread looks at the flag, and the registry is exact, with any number of
\* Devices and threads (client.cpp:627-779).
THEOREM TypeCorrect == Spec => []TypeOK
<1>1. ASSUME IInv PROVE TypeOK
  <2>1. push \in BOOLEAN /\ running \in BOOLEAN /\ joinable \in BOOLEAN
    BY <1>1 DEF IInv, Data, Control, Joinable
  <2>2. mutex = IF pc[Poller] \in {"test", "check", "doze"} THEN Poller
                ELSE NoThread
    BY <1>1 DEF IInv, Control, Guarded
  <2>3. /\ registered = Alive /\ owned \subseteq Objects
        /\ held \in [Threads -> SUBSET Objects]
    BY <1>1 DEF IInv, Lives
  <2>4. phase \in {"running", "stopping", "gone"} /\ late \in Nat
    BY <1>1 DEF IInv, Control, Phased, Counted
  <2>5. terminated \in BOOLEAN
    BY <1>1 DEF IInv, Control, Joinable
  <2>6. /\ value \in [Objects -> Values]
        /\ refreshed \subseteq Alive /\ doubtful \subseteq Alive
    BY <1>1, <2>3 DEF IInv, Fields
  <2>7. pc \in [Threads -> Labels \cup PollerLabels] /\ pc[Poller] \in PollerLabels
    BY <1>1 DEF IInv, Control, Labelled
  <2>8. cloud \in [Ids -> 1 .. MaxChanges + 1]
    BY <1>1, BoundsAssumption DEF IInv, Data
  <2>9. /\ todo \in [Threads -> SUBSET Ids]
        /\ reply \in [Threads -> [id : Ids \cup {"none"}, value : Values,
                                   covered : BOOLEAN]]
        /\ posts \in [Ids -> 0 .. MaxSubscriptions]
        /\ events \subseteq Ids \X Values \X (1 .. MaxSubscriptions)
        /\ changes \in 0 .. MaxChanges /\ faults \in 0 .. MaxFaults
    BY <1>1 DEF IInv, Data
  <2> QED
    BY <2>1, <2>2, <2>3, <2>4, <2>5, <2>6, <2>7, <2>8, <2>9
    DEF TypeOK
<1> QED
  BY <1>1, Invariant, PTL

\* No std::thread is assigned to or destroyed while it is joinable
\* (client.cpp:748-779).
THEOREM NoTermination == Spec => []NeverTerminates
<1>1. IInv => NeverTerminates
  BY DEF IInv, Control, Joinable, NeverTerminates
<1> QED
  BY <1>1, Invariant, PTL

\* After stopPolling() has cleared the flag at most one more cycle begins
\* (client.cpp:753-771).
THEOREM OneCycleAtMost == Spec => []StopWaitsForOneCycle
<1>1. IInv => StopWaitsForOneCycle
  BY DEF IInv, Control, Counted, StopWaitsForOneCycle
<1> QED
  BY <1>1, Invariant, PTL

\* stopPolling() and ~Client() leave no thread behind (client.cpp:197-206,
\* 765-779).
THEOREM QuietWhenStopped == Spec => []StoppedIsQuiet
<1>1. IInv => StoppedIsQuiet
  BY ThreadsAssumption
  DEF IInv, Control, Labelled, Joinable, Phased, StoppedIsQuiet, Threads, At
<1> QED
  BY <1>1, Invariant, PTL

\* The notification of stopPolling() finds the polling thread where it cannot
\* miss it (client.cpp:761, 767-771).
THEOREM WakesUpForStop == Spec => []NoLostWakeUp
<1>1. IInv => NoLostWakeUp
  BY DEF IInv, Control, Guarded, NoLostWakeUp
<1> QED
  BY <1>1, Invariant, PTL

\* No thread writes into a Device that is gone (client.cpp:704-745,
\* webhook.cpp:343-370, 536-538).
THEOREM WritesHitLiveDevices == Spec => []TargetsAreAlive
<1>1. IInv => TargetsAreAlive
  BY HeldIsRegistered DEF IInv, TargetsAreAlive
<1> QED
  BY <1>1, Invariant, PTL

\* The newest value of the device of o is still on its way to it, as an event.
OnItsWay(o) ==
  \/ \E e \in events : e[1] = IdOf[o] /\ e[2] = cloud[IdOf[o]]
  \/ \E u \in Servers :
       /\ reply[u].id = IdOf[o] /\ reply[u].value = cloud[IdOf[o]]
       /\ At(u, "live") \/ o \in targets[u]

Current(o) == value[o] = cloud[IdOf[o]] \/ OnItsWay(o)

\* Values are never ahead of the cloud, and go to Devices of the right id.
Behind ==
  /\ \A e \in events : e[2] <= cloud[e[1]]
  /\ \A t \in Threads : pc[t] \in {"live", "apply"} =>
       reply[t].id \in Ids /\ reply[t].value <= cloud[reply[t].id]
  /\ \A t \in Threads : \A o \in targets[t] : IdOf[o] = reply[t].id
  /\ \A o \in Objects : value[o] <= cloud[IdOf[o]]
  /\ \A t \in Servers : todo[t] = {}

\* A Device that has its status has the newest value, or an event brings it.
DeviceFollows(o) == posts[IdOf[o]] > 0 /\ Current(o)

\* A status on its way, fetched under a subscription, is the newest value, or
\* an event brings it, or has brought it.
ReplyFollows(t, o) ==
  reply[t].covered =>
    /\ posts[IdOf[o]] > 0
    /\ reply[t].value = cloud[IdOf[o]] \/ Current(o)

Followed ==
  push =>
    /\ \A o \in refreshed \ doubtful : DeviceFollows(o)
    /\ \A t \in Threads \ Servers : \A o \in targets[t] \ doubtful :
         ReplyFollows(t, o)

\* At first there are no values and no events.
LEMMA BehindInit == Init => Behind
  BY ObjectsAssumption DEF Init, Behind, Threads, At

\* No step puts a value ahead of the cloud.
LEMMA BehindStep == IInv /\ Behind /\ [Next]_vars => Behind'
<1> SUFFICES ASSUME IInv, Behind, [Next]_vars PROVE Behind'
  OBVIOUS
<1> USE ThreadsAssumption, ObjectsAssumption
    DEF IInv, Control, Labelled, Labels, PollerLabels, Requesting, Threads,
        Lives, Alive, Data, Values, Fields, Behind, NoReply, ReplyFor,
        At, Goto, Calling
<1>1. ASSUME NEW t \in Threads, NEW o \in Objects, Drop(t, o) PROVE Behind'
  <2>1. UNCHANGED <<pc, work, world>>
    BY <1>1 DEF Drop
  <2>2. value' = value \/ value' = [value EXCEPT ![o] = 0]
    BY <1>1 DEF Drop, LetGo, devices
  <2> QED
    BY <2>1, <2>2 DEF work, world
<1>2. ASSUME NEW t \in Threads, SnapshotRegistry(t) PROVE Behind'
  BY <1>2 DEF SnapshotRegistry, devices, lifetimes, work, world
<1>3. ASSUME NEW t \in Threads, LiveDevicesFor(t) PROVE Behind'
  BY <1>3 DEF LiveDevicesFor, devices, lifetimes, work, world
<1>4. ASSUME NEW t \in Threads, Finish(t) PROVE Behind'
  BY <1>4 DEF Finish, devices, lifetimes, world
<1>5. ASSUME NEW t \in Threads, StartThread(t) PROVE Behind'
  BY <1>5 DEF StartThread, devices, lifetimes, work, world
<1>6. ASSUME NEW t \in Threads, ClearFlag(t) PROVE Behind'
  BY <1>6 DEF ClearFlag, devices, lifetimes, work, world
<1>7. ASSUME NEW t \in Threads, NotifyAll(t) PROVE Behind'
  BY <1>7 DEF NotifyAll, devices, lifetimes, work, world
<1>8. ASSUME NEW t \in Threads, Join(t) PROVE Behind'
  BY <1>8 DEF Join, devices, lifetimes, work, world
<1>9. ASSUME NEW t \in Threads, StopServer(t) PROVE Behind'
  BY <1>9 DEF StopServer, devices, lifetimes, work, world
<1>10. ASSUME NEW t \in Threads, NEW i \in Ids, Answer(t, i) PROVE Behind'
  BY <1>10 DEF Answer, devices, lifetimes, work, world
<1>11. ASSUME NEW t \in Threads, NEW i \in Ids, Fail(t, i) PROVE Behind'
  BY <1>11 DEF Fail, devices, lifetimes, work, world
<1>12. ASSUME NEW t \in Threads, NEW o \in Objects, ApplyStatus(t, o)
      PROVE  Behind'
  BY <1>12 DEF ApplyStatus, NextTarget, SetBack, lifetimes, world
<1>13. ASSUME NEW t \in Threads, NEW o \in Objects, ApplyEvent(t, o)
      PROVE  Behind'
  BY <1>13 DEF ApplyEvent, NextTarget, SetBack, lifetimes, world
<1>14. ASSUME NEW t \in Threads, NEW e \in events, TakeEvent(t, e)
      PROVE  Behind'
  BY <1>14 DEF TakeEvent, devices, lifetimes, work, world
<1>15. ASSUME NEW t \in Callers, PollNow(t) PROVE Behind'
  BY <1>15 DEF PollNow, devices, lifetimes, work, world
<1>16. ASSUME NEW t \in Callers, StartPolling(t) PROVE Behind'
  BY <1>16 DEF StartPolling, devices, lifetimes, work, world
<1>17. ASSUME NEW t \in Callers, StopPolling(t) PROVE Behind'
  BY <1>17 DEF StopPolling, devices, lifetimes, work, world
<1>18. ASSUME NEW t \in Callers, Destroy(t) PROVE Behind'
  BY <1>18 DEF Destroy, devices, lifetimes, work, world
<1>19. ASSUME NEW t \in Callers, NEW o \in Objects, RegisterDevice(t, o)
      PROVE  Behind'
  BY <1>19 DEF RegisterDevice, devices, lifetimes, work, world
<1>20. ASSUME NEW t \in Callers, NEW o \in Objects, Release(t, o)
      PROVE  Behind'
  BY <1>20 DEF Release, LetGo, devices, work, world
<1>21. ASSUME NEW t \in Callers, NEW o \in Objects, Read(t, o) PROVE Behind'
  BY <1>21 DEF Read, devices, lifetimes, work, world
<1>22. ASSUME Lock PROVE Behind'
  BY <1>22 DEF Lock, devices, lifetimes, work, world
<1>23. ASSUME Test PROVE Behind'
  BY <1>23 DEF Test, devices, lifetimes, work, world
<1>24. ASSUME CheckStop PROVE Behind'
  BY <1>24 DEF CheckStop, devices, lifetimes, work, world
<1>25. ASSUME FallAsleep PROVE Behind'
  BY <1>25 DEF FallAsleep, devices, lifetimes, work, world
<1>26. ASSUME TimesOut PROVE Behind'
  BY <1>26 DEF TimesOut, devices, lifetimes, work, world
<1>27. ASSUME WakesUp PROVE Behind'
  BY <1>27 DEF WakesUp, devices, lifetimes, work, world
<1>28. ASSUME NEW i \in Ids, Change(i) PROVE Behind'
  BY <1>28 DEF Change, devices, lifetimes, work, world
<1>29. ASSUME UNCHANGED vars PROVE Behind'
  BY <1>29 DEF vars, devices, lifetimes, work, world
<1>30. ASSUME NEW i \in Ids, Subscribed(i) PROVE Behind'
  BY <1>30 DEF Subscribed, devices, lifetimes, work
<1>31. ASSUME NEW i \in Ids, Unsubscribed(i) PROVE Behind'
  BY <1>31 DEF Unsubscribed, lifetimes, work
<1> QED
  BY <1>1, <1>2, <1>3, <1>4, <1>5, <1>6, <1>7, <1>8, <1>9, <1>10, <1>11,
     <1>12, <1>13, <1>14, <1>15, <1>16, <1>17, <1>18, <1>19, <1>20, <1>21,
     <1>22, <1>23, <1>24, <1>25, <1>26, <1>27, <1>28, <1>29, <1>30, <1>31
  DEF Next, Work, Serve, Poll, Begin

\* Followed is about the values and about the threads of the server.
LEMMA FollowedStays ==
  ASSUME Followed,
         UNCHANGED <<push, value, refreshed, doubtful, targets, reply, cloud,
                     posts, events>>,
         \A u \in Servers : pc'[u] = pc[u]
  PROVE  Followed'
<1>1. \A p : OnItsWay(p) => OnItsWay(p)'
  BY DEF OnItsWay, At
<1> QED
  BY <1>1 DEF Followed, DeviceFollows, ReplyFollows, Current

\* It outlives Devices that come or go, and threads that are not writing.
LEMMA FollowedLasts ==
  ASSUME Lives', Fields', Followed,
         UNCHANGED <<push, cloud, posts, events, targets>>,
         \A p \in registered \cap registered' :
           value'[p] = value[p] /\ (p \in doubtful => p \in doubtful'),
         refreshed' \subseteq refreshed \cap registered,
         \A u \in Threads : targets[u] \subseteq registered,
         \A u \in Threads : At(u, "live") \/ targets[u] # {} =>
           reply'[u] = reply[u] /\ pc'[u] = pc[u]
  PROVE  Followed'
<1>1. \A p : OnItsWay(p) => OnItsWay(p)'
  BY DEF OnItsWay, At, Threads
<1>2. ASSUME NEW p \in registered \cap registered', Current(p)
      PROVE  Current(p)'
  BY <1>1, <1>2 DEF Current
<1>3. ASSUME push, NEW p \in refreshed' \ doubtful' PROVE DeviceFollows(p)'
  <2>1. p \in registered \cap registered' /\ p \in refreshed \ doubtful
    BY <1>3 DEF Fields
  <2> QED
    BY <1>2, <1>3, <2>1 DEF Followed, DeviceFollows
<1>4. ASSUME push, NEW s \in Threads \ Servers, NEW p \in targets'[s] \ doubtful'
      PROVE  ReplyFollows(s, p)'
  <2>1. p \in registered \cap registered' /\ p \in targets[s]
    BY <1>4 DEF Lives, Alive
  <2>2. ReplyFollows(s, p) /\ reply'[s] = reply[s]
    BY <1>4, <2>1 DEF Followed
  <2> QED
    BY <1>2, <2>1, <2>2 DEF ReplyFollows
<1> QED
  BY <1>3, <1>4 DEF Followed

\* And subscriptions that come or go, of the Devices that are not doubted.
LEMMA FollowedSubscribed ==
  ASSUME Lives, Fields, Followed,
         UNCHANGED <<push, value, refreshed, cloud, events, targets, reply, pc>>,
         doubtful \subseteq doubtful',
         \A p \in registered \ doubtful' :
           posts[IdOf[p]] > 0 => posts'[IdOf[p]] > 0
  PROVE  Followed'
<1>1. \A p : Current(p) => Current(p)'
  BY DEF Current, OnItsWay, At
<1>2. ASSUME push, NEW p \in refreshed' \ doubtful' PROVE DeviceFollows(p)'
  BY <1>1, <1>2 DEF Followed, DeviceFollows, Fields
<1>3. ASSUME push, NEW s \in Threads \ Servers, NEW p \in targets'[s] \ doubtful'
      PROVE  ReplyFollows(s, p)'
  <2>1. ReplyFollows(s, p) /\ p \in registered \ doubtful'
    BY <1>3 DEF Followed, Lives, Alive
  <2> QED
    BY <1>1, <2>1 DEF ReplyFollows
<1> QED
  BY <1>2, <1>3 DEF Followed

\* At first there is no Device.
LEMMA FollowedInit == Init => Followed
  BY ObjectsAssumption DEF Init, Followed, Threads, At

\* Every step that sets a Device back, or may, marks it as doubtful; no other
\* loses the newest value.
LEMMA FollowedStep == IInv /\ Behind /\ Followed /\ [Next]_vars => Followed'
<1> SUFFICES ASSUME IInv, Behind, Followed, [Next]_vars PROVE Followed'
  OBVIOUS
<1> USE ThreadsAssumption, ObjectsAssumption
    DEF Threads, At, Goto, Calling
<1>0. /\ Lives' /\ Fields'
      /\ \A u \in Threads : targets[u] \subseteq registered
  BY LivesStep, FieldsStep, HeldIsRegistered DEF IInv
<1>1. ASSUME NEW t \in Threads, NEW o \in Objects, Drop(t, o) PROVE Followed'
  <2>1. /\ UNCHANGED <<push, cloud, posts, events, targets>>
        /\ \A p \in registered \cap registered' :
             value'[p] = value[p] /\ (p \in doubtful => p \in doubtful')
        /\ refreshed' \subseteq refreshed \cap registered
    BY <1>1 DEF Drop, LetGo, devices, lifetimes, work, world, IInv, Lives, Fields, Alive
  <2>2. \A u \in Threads : At(u, "live") \/ targets[u] # {} =>
          reply'[u] = reply[u] /\ pc'[u] = pc[u]
    BY <1>1 DEF Drop, LetGo, work, IInv, Lives, Data, Control, Labelled, Labels,
       PollerLabels, Requesting
  <2> QED
    BY <1>0, <2>1, <2>2, FollowedLasts DEF IInv
<1>2. ASSUME NEW t \in Threads, SnapshotRegistry(t) PROVE Followed'
  <2>1. /\ UNCHANGED <<push, cloud, posts, events, targets>>
        /\ \A p \in registered \cap registered' :
             value'[p] = value[p] /\ (p \in doubtful => p \in doubtful')
        /\ refreshed' \subseteq refreshed \cap registered
    BY <1>2 DEF SnapshotRegistry, devices, lifetimes, work, world, IInv, Lives, Fields, Alive
  <2>2. \A u \in Threads : At(u, "live") \/ targets[u] # {} =>
          reply'[u] = reply[u] /\ pc'[u] = pc[u]
    BY <1>2 DEF SnapshotRegistry, work, IInv, Lives, Data, Control, Labelled, Labels,
       PollerLabels, Requesting
  <2> QED
    BY <1>0, <2>1, <2>2, FollowedLasts DEF IInv
<1>3. ASSUME NEW t \in Threads, LiveDevicesFor(t) PROVE Followed'
  <2>1. /\ UNCHANGED <<push, value, refreshed, doubtful, reply, cloud, events, posts>>
        /\ At(t, "live") /\ t \in Servers
        /\ targets'[t] = {o \in registered : IdOf[o] = reply[t].id}
        /\ \A u \in Threads \ {t} : targets'[u] = targets[u] /\ pc'[u] = pc[u]
    BY <1>3 DEF LiveDevicesFor, devices, world, IInv, Lives, Control, Labelled,
       PollerLabels, Requesting, Labels
  <2>2. ASSUME NEW p \in registered, OnItsWay(p) PROVE OnItsWay(p)'
    BY <2>1, <2>2 DEF OnItsWay
  <2>3. ASSUME push, NEW p \in refreshed' \ doubtful'
        PROVE  DeviceFollows(p)'
    <3>1. DeviceFollows(p) /\ p \in registered
      BY <2>1, <2>3 DEF Followed, IInv, Fields
    <3> QED
      BY <2>1, <2>2, <3>1 DEF DeviceFollows, Current
  <2>4. ASSUME push, NEW s \in Threads \ Servers, NEW p \in targets'[s] \ doubtful'
        PROVE  ReplyFollows(s, p)'
    <3>1. ReplyFollows(s, p) /\ p \in registered
      BY <2>1, <2>4, HeldIsRegistered DEF Followed, IInv
    <3> QED
      BY <2>1, <2>2, <3>1 DEF ReplyFollows, Current
  <2> QED
    BY <2>1, <2>3, <2>4 DEF Followed
<1>4. ASSUME NEW t \in Threads, Finish(t) PROVE Followed'
  <2>1. /\ UNCHANGED <<push, cloud, posts, events, targets>>
        /\ \A p \in registered \cap registered' :
             value'[p] = value[p] /\ (p \in doubtful => p \in doubtful')
        /\ refreshed' \subseteq refreshed \cap registered
    BY <1>4 DEF Finish, devices, lifetimes, work, world, IInv, Lives, Fields, Alive
  <2>2. \A u \in Threads : At(u, "live") \/ targets[u] # {} =>
          reply'[u] = reply[u] /\ pc'[u] = pc[u]
    BY <1>4 DEF Finish, work, IInv, Lives, Data, Control, Labelled, Labels,
       PollerLabels, Requesting
  <2> QED
    BY <1>0, <2>1, <2>2, FollowedLasts DEF IInv
<1>5. ASSUME NEW t \in Threads, StartThread(t) PROVE Followed'
  BY <1>5, FollowedStays DEF StartThread, devices, work, world, IInv, Control, Labelled
<1>6. ASSUME NEW t \in Threads, ClearFlag(t) PROVE Followed'
  BY <1>6, FollowedStays DEF ClearFlag, devices, work, world, IInv, Control, Labelled
<1>7. ASSUME NEW t \in Threads, NotifyAll(t) PROVE Followed'
  BY <1>7, FollowedStays DEF NotifyAll, devices, work, world, IInv, Control, Labelled
<1>8. ASSUME NEW t \in Threads, Join(t) PROVE Followed'
  BY <1>8, FollowedStays DEF Join, devices, work, world, IInv, Control, Labelled
<1>9. ASSUME NEW t \in Threads, StopServer(t) PROVE Followed'
  BY <1>9, FollowedStays DEF StopServer, devices, work, world, IInv, Control, Labelled
<1>10. ASSUME NEW t \in Threads, NEW i \in Ids, Answer(t, i) PROVE Followed'
  <2>1. /\ UNCHANGED <<push, value, refreshed, doubtful, cloud, events, posts>>
        /\ t \in Threads \ Servers
        /\ \A u \in Threads \ {t} : /\ targets'[u] = targets[u]
                                    /\ reply'[u] = reply[u] /\ pc'[u] = pc[u]
    BY <1>10 DEF Answer, devices, world, IInv, Lives, Data, Control, Labelled, Behind
  <2>2. /\ \A o \in targets'[t] : IdOf[o] = i
        /\ reply'[t].value = cloud[i]
        /\ push => (reply'[t].covered => posts[i] > 0)
    BY <1>10 DEF Answer, IInv, Lives, Data
  <2>3. ASSUME NEW p, Current(p) PROVE Current(p)'
    BY <2>1, <2>3 DEF Current, OnItsWay
  <2>4. ASSUME push, NEW p \in refreshed' \ doubtful'
        PROVE  DeviceFollows(p)'
    BY <2>1, <2>3, <2>4 DEF Followed, DeviceFollows
  <2>5. ASSUME push, NEW s \in Threads \ Servers, NEW p \in targets'[s] \ doubtful'
        PROVE  ReplyFollows(s, p)'
    <3>1. CASE s = t
      BY <2>1, <2>2, <2>5, <3>1 DEF ReplyFollows
    <3>2. CASE s # t
      BY <2>1, <2>3, <2>5, <3>2 DEF Followed, ReplyFollows
    <3> QED
      BY <3>1, <3>2
  <2> QED
    BY <2>1, <2>4, <2>5 DEF Followed
<1>11. ASSUME NEW t \in Threads, NEW i \in Ids, Fail(t, i) PROVE Followed'
  BY <1>11, FollowedStays DEF Fail, devices, work, world, IInv, Control, Labelled
<1>12. ASSUME NEW t \in Threads, NEW o \in Objects, ApplyStatus(t, o)
      PROVE  Followed'
  <2>1. /\ t \in Threads \ Servers /\ o \in targets[t]
        /\ value' = [value EXCEPT ![o] = reply[t].value]
        /\ refreshed' = refreshed \cup {o}
        /\ UNCHANGED <<push, reply, cloud, events, posts>>
    BY <1>12 DEF ApplyStatus, NextTarget, world
  <2>2. /\ \A u \in Threads : targets'[u] \subseteq targets[u]
        /\ \A u \in Servers : targets'[u] = targets[u] /\ pc'[u] = pc[u]
    BY <1>12 DEF ApplyStatus, NextTarget, IInv, Lives, Control, Labelled
  <2>3. /\ doubtful \subseteq doubtful'
        /\ push /\ o \notin doubtful' => reply[t].covered /\ ~SetBack(t, o)
    BY <1>12 DEF ApplyStatus
  <2>4. ASSUME NEW p, OnItsWay(p) PROVE OnItsWay(p)'
    BY <2>1, <2>2, <2>4 DEF OnItsWay
  <2>5. /\ reply[t].value \in Nat /\ cloud[IdOf[o]] \in Nat /\ value[o] \in Nat
        /\ reply[t].value <= cloud[IdOf[o]] /\ value'[o] = reply[t].value
    BY <2>1 DEF IInv, Lives, Data, Fields, Values, Behind
  <2>6. ASSUME push, o \notin doubtful' PROVE DeviceFollows(o)'
    <3>1. posts[IdOf[o]] > 0 /\ (reply[t].value = cloud[IdOf[o]] \/ Current(o))
      BY <2>1, <2>3, <2>6 DEF Followed, ReplyFollows
    <3>2. value[o] = cloud[IdOf[o]] => reply[t].value = cloud[IdOf[o]]
      BY <2>3, <2>5, <2>6 DEF SetBack
    <3> QED
      BY <2>1, <2>4, <2>5, <3>1, <3>2 DEF DeviceFollows, Current
  <2>7. ASSUME NEW p, p # o, Current(p) PROVE Current(p)'
    BY <2>1, <2>4, <2>7 DEF Current, IInv, Fields
  <2>8. ASSUME push, NEW p \in refreshed' \ doubtful'
        PROVE  DeviceFollows(p)'
    <3>1. CASE p # o
      <4>1. DeviceFollows(p)
        BY <2>1, <2>3, <2>8, <3>1 DEF Followed
      <4> QED
        BY <2>1, <2>7, <3>1, <4>1 DEF DeviceFollows
    <3> QED
      BY <2>6, <2>8, <3>1
  <2>9. ASSUME push, NEW s \in Threads \ Servers, NEW p \in targets'[s] \ doubtful'
        PROVE  ReplyFollows(s, p)'
    <3>1. CASE p # o
      <4>1. ReplyFollows(s, p)
        BY <2>1, <2>2, <2>3, <2>9 DEF Followed
      <4> QED
        BY <2>1, <2>7, <3>1, <4>1 DEF ReplyFollows
    <3> QED
      BY <2>6, <2>9, <3>1 DEF DeviceFollows, ReplyFollows
  <2> QED
    BY <2>1, <2>8, <2>9 DEF Followed
<1>13. ASSUME NEW t \in Threads, NEW o \in Objects, ApplyEvent(t, o)
      PROVE  Followed'
  <2>1. /\ t \in Servers /\ o \in targets[t]
        /\ value' = [value EXCEPT ![o] = reply[t].value]
        /\ UNCHANGED <<push, refreshed, reply, cloud, events, posts>>
    BY <1>13 DEF ApplyEvent, NextTarget, world
  <2>2. /\ targets'[t] = targets[t] \ {o} /\ ~At(t, "live")
        /\ \A u \in Threads \ {t} : targets'[u] = targets[u] /\ pc'[u] = pc[u]
    BY <1>13 DEF ApplyEvent, NextTarget, IInv, Lives, Control, Labelled
  <2>3. doubtful \subseteq doubtful' /\ (o \notin doubtful' => ~SetBack(t, o))
    BY <1>13 DEF ApplyEvent
  <2>4. ASSUME NEW p, p # o, Current(p) PROVE Current(p)'
    <3>1. OnItsWay(p) => OnItsWay(p)'
      BY <2>1, <2>2, <2>4 DEF OnItsWay
    <3> QED
      BY <2>1, <2>4, <3>1 DEF Current, IInv, Fields
  <2>5. /\ reply[t].value \in Nat /\ cloud[IdOf[o]] \in Nat /\ value[o] \in Nat
        /\ reply[t].value <= cloud[IdOf[o]] /\ value'[o] = reply[t].value
    BY <2>1 DEF IInv, Lives, Data, Fields, Values, Behind
  <2>6. ASSUME o \notin doubtful', Current(o) PROVE Current(o)'
    <3>1. CASE value[o] = cloud[IdOf[o]]
      <4>1. reply[t].value = cloud[IdOf[o]]
        BY <2>3, <2>5, <2>6, <3>1 DEF SetBack
      <4> QED
        BY <2>1, <2>5, <4>1 DEF Current
    <3>2. CASE OnItsWay(o)
      <4>1. CASE reply[t].value = cloud[IdOf[o]]
        BY <2>1, <2>5, <4>1 DEF Current
      <4>2. CASE reply[t].value # cloud[IdOf[o]]
        BY <2>1, <2>2, <3>2, <4>2 DEF OnItsWay, Current
      <4> QED
        BY <4>1, <4>2
    <3> QED
      BY <2>6, <3>1, <3>2 DEF Current
  <2>7. ASSUME NEW p, p \notin doubtful', Current(p) PROVE Current(p)'
    BY <2>4, <2>6, <2>7
  <2>8. ASSUME push, NEW p \in refreshed' \ doubtful'
        PROVE  DeviceFollows(p)'
    <3>1. DeviceFollows(p)
      BY <2>1, <2>3, <2>8 DEF Followed
    <3> QED
      BY <2>1, <2>7, <2>8, <3>1 DEF DeviceFollows
  <2>9. ASSUME push, NEW s \in Threads \ Servers, NEW p \in targets'[s] \ doubtful'
        PROVE  ReplyFollows(s, p)'
    <3>1. ReplyFollows(s, p)
      BY <2>1, <2>2, <2>3, <2>9 DEF Followed
    <3> QED
      BY <2>1, <2>7, <2>9, <3>1 DEF ReplyFollows
  <2> QED
    BY <2>1, <2>8, <2>9 DEF Followed
<1>14. ASSUME NEW t \in Threads, NEW e \in events, TakeEvent(t, e)
      PROVE  Followed'
  <2>1. /\ UNCHANGED <<push, value, refreshed, doubtful, targets, cloud, posts>>
        /\ t \in Servers /\ ~At(t, "live") /\ targets[t] = {}
        /\ events' = events \ {e} /\ pc'[t] = "live"
        /\ reply'[t].id = e[1] /\ reply'[t].value = e[2]
        /\ \A u \in Threads \ {t} : reply'[u] = reply[u] /\ pc'[u] = pc[u]
    BY <1>14 DEF TakeEvent, devices, IInv, Lives, Data, Control, Labelled
  <2>2. ASSUME NEW p \in Objects, OnItsWay(p) PROVE OnItsWay(p)'
    <3>1. CASE e[1] = IdOf[p] /\ e[2] = cloud[IdOf[p]]
      BY <2>1, <3>1 DEF OnItsWay
    <3>2. CASE ~(e[1] = IdOf[p] /\ e[2] = cloud[IdOf[p]])
      BY <2>1, <2>2, <3>2 DEF OnItsWay
    <3> QED
      BY <3>1, <3>2
  <2>3. ASSUME push, NEW p \in refreshed' \ doubtful'
        PROVE  DeviceFollows(p)'
    <3>1. DeviceFollows(p) /\ p \in Objects
      BY <2>1, <2>3 DEF Followed, IInv, Fields, Lives, Alive
    <3> QED
      BY <2>1, <2>2, <3>1 DEF DeviceFollows, Current
  <2>4. ASSUME push, NEW s \in Threads \ Servers, NEW p \in targets'[s] \ doubtful'
        PROVE  ReplyFollows(s, p)'
    <3>1. ReplyFollows(s, p) /\ p \in Objects /\ reply'[s] = reply[s]
      BY <2>1, <2>4 DEF Followed, IInv, Lives
    <3> QED
      BY <2>1, <2>2, <3>1 DEF ReplyFollows, Current
  <2> QED
    BY <2>1, <2>3, <2>4 DEF Followed
<1>15. ASSUME NEW t \in Callers, PollNow(t) PROVE Followed'
  BY <1>15, FollowedStays DEF PollNow, devices, work, world, IInv, Control, Labelled
<1>16. ASSUME NEW t \in Callers, StartPolling(t) PROVE Followed'
  BY <1>16, FollowedStays DEF StartPolling, devices, work, world, IInv, Control, Labelled
<1>17. ASSUME NEW t \in Callers, StopPolling(t) PROVE Followed'
  BY <1>17, FollowedStays DEF StopPolling, devices, work, world, IInv, Control, Labelled
<1>18. ASSUME NEW t \in Callers, Destroy(t) PROVE Followed'
  BY <1>18, FollowedStays DEF Destroy, devices, work, world, IInv, Control, Labelled
<1>19. ASSUME NEW t \in Callers, NEW o \in Objects, RegisterDevice(t, o) PROVE Followed'
  <2>1. /\ UNCHANGED <<push, cloud, posts, events, targets>>
        /\ \A p \in registered \cap registered' :
             value'[p] = value[p] /\ (p \in doubtful => p \in doubtful')
        /\ refreshed' \subseteq refreshed \cap registered
    BY <1>19 DEF RegisterDevice, devices, lifetimes, work, world, IInv, Lives, Fields, Alive
  <2>2. \A u \in Threads : At(u, "live") \/ targets[u] # {} =>
          reply'[u] = reply[u] /\ pc'[u] = pc[u]
    BY <1>19 DEF RegisterDevice, work, IInv, Lives, Data, Control, Labelled, Labels,
       PollerLabels, Requesting
  <2> QED
    BY <1>0, <2>1, <2>2, FollowedLasts DEF IInv
<1>20. ASSUME NEW t \in Callers, NEW o \in Objects, Release(t, o) PROVE Followed'
  <2>1. /\ UNCHANGED <<push, cloud, posts, events, targets>>
        /\ \A p \in registered \cap registered' :
             value'[p] = value[p] /\ (p \in doubtful => p \in doubtful')
        /\ refreshed' \subseteq refreshed \cap registered
    BY <1>20 DEF Release, LetGo, devices, lifetimes, work, world, IInv, Lives, Fields, Alive
  <2>2. \A u \in Threads : At(u, "live") \/ targets[u] # {} =>
          reply'[u] = reply[u] /\ pc'[u] = pc[u]
    BY <1>20 DEF Release, LetGo, work, IInv, Lives, Data, Control, Labelled, Labels,
       PollerLabels, Requesting
  <2> QED
    BY <1>0, <2>1, <2>2, FollowedLasts DEF IInv
<1>21. ASSUME NEW t \in Callers, NEW o \in Objects, Read(t, o) PROVE Followed'
  <2>1. /\ UNCHANGED <<push, cloud, posts, events, targets>>
        /\ \A p \in registered \cap registered' :
             value'[p] = value[p] /\ (p \in doubtful => p \in doubtful')
        /\ refreshed' \subseteq refreshed \cap registered
    BY <1>21 DEF Read, devices, lifetimes, work, world, IInv, Lives, Fields, Alive
  <2>2. \A u \in Threads : At(u, "live") \/ targets[u] # {} =>
          reply'[u] = reply[u] /\ pc'[u] = pc[u]
    BY <1>21 DEF Read, work, IInv, Lives, Data, Control, Labelled, Labels,
       PollerLabels, Requesting
  <2> QED
    BY <1>0, <2>1, <2>2, FollowedLasts DEF IInv
<1>22. ASSUME Lock PROVE Followed'
  BY <1>22, FollowedStays DEF Lock, devices, work, world, IInv, Control, Labelled
<1>23. ASSUME Test PROVE Followed'
  BY <1>23, FollowedStays DEF Test, devices, work, world, IInv, Control, Labelled
<1>24. ASSUME CheckStop PROVE Followed'
  BY <1>24, FollowedStays DEF CheckStop, devices, work, world, IInv, Control, Labelled
<1>25. ASSUME FallAsleep PROVE Followed'
  BY <1>25, FollowedStays DEF FallAsleep, devices, work, world, IInv, Control, Labelled
<1>26. ASSUME TimesOut PROVE Followed'
  BY <1>26, FollowedStays DEF TimesOut, devices, work, world, IInv, Control, Labelled
<1>27. ASSUME WakesUp PROVE Followed'
  BY <1>27, FollowedStays DEF WakesUp, devices, work, world, IInv, Control, Labelled
<1>28. ASSUME NEW i \in Ids, Change(i) PROVE Followed'
  <2>1. /\ UNCHANGED <<push, value, refreshed, doubtful, targets, reply, pc, posts>>
        /\ cloud' = [cloud EXCEPT ![i] = @ + 1]
        /\ events' = events \cup {<<i, cloud[i] + 1, n>> : n \in 1 .. posts[i]}
    BY <1>28 DEF Change, devices, work
  <2>2. cloud \in [Ids -> Nat]
    BY DEF IInv, Data
  <2>3. ASSUME NEW p \in Objects, posts[IdOf[p]] > 0, NEW v,
               v = cloud[IdOf[p]] \/ OnItsWay(p)
        PROVE  v = cloud'[IdOf[p]] \/ OnItsWay(p)'
    <3>1. CASE IdOf[p] = i
      <4>1. 1 \in 1 .. posts[i]
        BY <2>3, <3>1 DEF IInv, Data
      <4>2. <<i, cloud[i] + 1, 1>> \in events' /\ cloud'[i] = cloud[i] + 1
        BY <2>1, <2>2, <4>1
      <4> QED
        BY <3>1, <4>2 DEF OnItsWay
    <3>2. CASE IdOf[p] # i
      BY <2>1, <2>2, <2>3, <3>2 DEF OnItsWay
    <3> QED
      BY <3>1, <3>2
  <2>4. ASSUME push, NEW p \in refreshed' \ doubtful'
        PROVE  DeviceFollows(p)'
    <3>1. DeviceFollows(p) /\ p \in Objects
      BY <2>1, <2>4 DEF Followed, IInv, Fields, Lives, Alive
    <3> QED
      BY <2>1, <2>3, <3>1 DEF DeviceFollows, Current
  <2>5. ASSUME push, NEW s \in Threads \ Servers, NEW p \in targets'[s] \ doubtful'
        PROVE  ReplyFollows(s, p)'
    <3>1. ReplyFollows(s, p) /\ p \in Objects
      BY <2>1, <2>5 DEF Followed, IInv, Lives
    <3> QED
      BY <2>1, <2>3, <3>1 DEF ReplyFollows, Current
  <2> QED
    BY <2>1, <2>4, <2>5 DEF Followed
<1>29. ASSUME UNCHANGED vars PROVE Followed'
  BY <1>29, FollowedStays DEF vars, devices, work, world, IInv, Control, Labelled
<1>30. ASSUME NEW i \in Ids, Subscribed(i) PROVE Followed'
  <2>1. \A p \in registered : posts[IdOf[p]] > 0 => posts'[IdOf[p]] > 0
    BY <1>30 DEF Subscribed, IInv, Data, Lives, Alive
  <2> QED
    BY <1>30, <2>1, FollowedSubscribed DEF Subscribed, devices, work, IInv
<1>31. ASSUME NEW i \in Ids, Unsubscribed(i) PROVE Followed'
  <2>1. \A p \in registered \ doubtful' :
          posts[IdOf[p]] > 0 => posts'[IdOf[p]] > 0
    BY <1>31 DEF Unsubscribed, IInv, Data, Lives, Alive
  <2> QED
    BY <1>31, <2>1, FollowedSubscribed DEF Unsubscribed, work, IInv
<1> QED
  BY <1>1, <1>2, <1>3, <1>4, <1>5, <1>6, <1>7, <1>8, <1>9, <1>10, <1>11,
     <1>12, <1>13, <1>14, <1>15, <1>16, <1>17, <1>18, <1>19, <1>20, <1>21,
     <1>22, <1>23, <1>24, <1>25, <1>26, <1>27, <1>28, <1>29, <1>30, <1>31
  DEF Next, Work, Serve, Poll, Begin

\* In push mode, once all events are handled, a Device has the newest value of
\* its device if that was subscribed when the status was fetched and has been
\* ever since, and nothing older was applied last: an event may overtake a first
\* read, a poll or other events without being lost (device.cpp:61-115,
\* client.cpp:735-745, webhook.cpp:508-541).  Nothing is assumed of when and why
\* the other subscriptions come and go.
THEOREM NothingLost == Spec => []NoUpdateLost
<1>1. Init => IInv /\ Behind /\ Followed
  BY ControlInit, LivesInit, DataInit, FieldsInit, BehindInit, FollowedInit
  DEF IInv
<1>2. IInv /\ Behind /\ Followed /\ [Next]_vars => (IInv /\ Behind /\ Followed)'
  BY ControlStep, LivesStep, DataStep, FieldsStep, BehindStep, FollowedStep
  DEF IInv
<1>3. IInv /\ Followed => NoUpdateLost
  <2> SUFFICES ASSUME IInv, Followed, push, Quiet, NEW o \in refreshed \ doubtful
               PROVE  value[o] = cloud[IdOf[o]]
    BY DEF NoUpdateLost
  <2>1. Current(o)
    BY DEF Followed, DeviceFollows
  <2>2. events = {} /\ \A u \in Servers : ~At(u, "live") /\ targets[u] = {}
    BY DEF Quiet, IInv, Lives, Threads, At
  <2> QED
    BY <2>1, <2>2 DEF Current, OnItsWay
<1> QED
  BY <1>1, <1>2, <1>3, PTL DEF Spec
==============================================================================
