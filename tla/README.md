# A verification development for smartthings4cpp

smartthings4cpp is a C++ client library for Samsung SmartThings. One `Client`
object discovers devices over the REST API, keeps their attributes up to date
(by polling, or by signed webhooks the cloud pushes), and in its two OAuth modes
subscribes each device to events on its own. Its difficulty is concurrency: the
application's threads, the polling thread, the HTTP server's threads and a worker
thread share the tables of one `Client`, every table has a mutex of its own, and
requests of up to ten seconds lie between two critical sections.

This directory holds TLA+ modules translated from `src/` and `include/`, the
TLC configurations that check them, and proofs for TLAPS. Paths below are those
of the repository (`src/client.cpp`).

## 1. Inventory

| Component | State | Operations | Hard behaviour |
|---|---|---|---|
| Automatic subscriptions (`src/webhook.cpp` 589-698, `src/client.cpp` 626-701) | `_subscribedDevices`, `_pendingSubscriptions`, `_subscriptionsInFlight`, `_unclaimedSubscriptions`, `_unclaimedLoaded`, the device registry | `registerDevice`, `maybeSubscribeDevice`, `loadUnclaimedSubscriptionsOnce`, `flushPendingSubscriptions`, `onDeviceReleased` | requests between critical sections, releases and UNINSTALL in the middle of them, failures that must be retried |
| External tokens and worker (`src/client.cpp` 160-390, 982-1049) | `_access_token`, `_rejectedToken`, `_installedAppId`, the `_worker*` jobs, the persisted id | `setAccessToken`, `sendWithAuth`, `reportRejectedToken`, `workerLoop`, `stopWorker` | three critical sections per call, jobs that coalesce, notifications decided before and fired after a change |
| Lifetime hub (`src/client.cpp` 49-65, 651-660, 207-211) | the hub's `Client*` | the deleter of a tracked `Device`, `~Client` | a Device dying while the Client dies |
| OAuth login and refresh (`src/client.cpp` 92-158, 328-343, 798-967, `src/oauth2`) | `_access_token`, the keychain's token blob, `_authFinished`, `_authOutcome`, `_pending_state` | `authenticate`, `onOAuthRedirect`, `waitForAuthentication`, the 401 refresh callback | rotating refresh tokens, crashes between rotation and persistence, two writers of the blob |
| Polling (`src/client.cpp` 703-794) | `_pollingRunning`, `_pollingInterval`, the registry | `startPolling`, `stopPolling`, `pollNow` | start/stop races, wake-ups, stale status after newer events |
| Device state (`src/device.cpp`, `src/capability.cpp`, `src/capabilities`) | `_components`, `_status`, the typed fields, `_hasBeenRefreshed` | `initFromJson`, `applyStatus`, `applyDeviceEvent`, `ensureRefreshed`, `refreshStatus` | writers on three threads; partial and ill-typed updates of 143 generated classes |
| Webhook dispatch (`src/webhook.cpp` 371-587) | none of its own | `handleWebhook`, `processWebhook` | its INSTALL/UNINSTALL change the state of all of the above |
| Webhook signatures (`src/webhook_signature.cpp`) | the key cache | `verify`, `resolveKey` | cache lifetime, clock skew, order of checks |
| Storage (`src/storage.cpp`) | a JSON file | `getValue`, `setValue`, `removeValue` | load-change-save, truncation, two providers on one file |
| REST calls and paging (`src/client.cpp` 419-624) | none | `getDevices`, `fetchAllItems`, `executeCommands`, ... | bounded loop, partial results |
| Codecs (`src/base64.cpp`, parts of `src/webhook_signature.cpp`, `src/oauth2`) | none | base64, URL decoding, dates, next-page URLs | boundaries |
| HTTP client and server, JSON helpers, examples, tools | - | wrappers, value plumbing | - |

How they interact. The application calls the Client on any thread and drops
`shared_ptr<Device>`s on any thread; the deleter goes through the hub into
`onDeviceReleased`. The server thread calls `handleWebhook` (and
`onOAuthRedirect`). The worker calls `flushPendingSubscriptions` and fires the
two events of the external-tokens mode. `~Client` stops the server, then the
worker, then disarms the hub, then deletes what is still subscribed. Locks are
ordered hub -> {registry, subscription} -> {install, auth}; the worker's mutex is
never held across another.

What makes each correct: at most one creation per device at a time and no
subscription forgotten while it exists; each event fires once and for what is
current; a release never meets the teardown; a Device ends with the newest value
of its attributes; a stopped polling thread is gone; a typed field holds the last
value that was meant for it; nothing unverified changes the Client; the persisted
state follows the state in memory, and a crash costs no more than it must; nobody
waits for ever.

`PROJECT.json` lists the components with what is modelled of them, and the
hazards with the properties that watch them.

## 2. Plan

Done, each with its proofs where it says so:

1. **Subscriptions** - the automatic subscriptions (all of its safety properties
   proved).
2. **TokenContract**, **ExternalTokens** - the external-tokens mode and its
   worker, as an implementation of what it promises (all of its safety properties
   proved).
3. **OAuthLogin** - login, redirect, 401 refresh, token rotation and the keychain
   with crashes (all of its safety properties proved).
4. **LiveUpdates** - polling, reads and events against the Devices' lifetimes and
   values (all of its safety properties proved).
5. **Capability**, **CapabilityTables**, **Capabilities** - the generated classes
   and the merging of statuses and events (proofs).
6. **StorageContract**, **FileStorage** - the provider's file with crashes, as an
   implementation of an atomic map (proofs).
7. **SignatureVerifier**, **WebhookService** - verification on several server
   threads, composed with the file (proofs); **Base64** - the signatures' codec.

Left: `setPollingInterval` and a second thread that controls polling; two
storage providers on one file; the explicit subscription calls; the relay of
PropertyChanged to handlers that call back; paging.

Modules to prove about contain no RECURSIVE operator; constants carry named
assumptions; each operation is one action per critical section or request.

## 3. Modules

### Subscriptions

External-tokens Client; threads: `Callers` (application), `Server`, `Worker`.
`pc[t]` is the critical section or request the thread is about to do; `dev[t]`,
`sub[t]`, `arg[t]`, `items[t]`, `queue[t]` are its locals, reset when the call
returns. A mutex is held only inside one step, except `_subscriptionMutex`
(`subLock`, held between the check of the token and that of the app id, and
across the DELETEs of `loadUnclaimedSubscriptionsOnce`) and the hub's mutex
(`hubLock`, held over the whole of `onDeviceReleased`, request included).

| Code | Actions |
|---|---|
| `getDevice` answered, `registerDevice` | `GetDevice`, `Register` |
| `maybeSubscribeDevice` | `Check`, `CheckApp`, `Adopt`, `Create`, `Record` |
| `loadUnclaimedSubscriptionsOnce` | `Load`, `List`, `ListFailed`, `Fill`, `Weed` |
| deleter, `notifyReleased`, `onDeviceReleased` | `Drop`, `Prune`, `Erase`, `DeleteReleased` |
| `setAccessToken` | `SetToken`, `SetApp`, `QueueFlush`, `SignOut` |
| `workerLoop`'s flush job, `flushPendingSubscriptions` | `WorkerTake`, `Drain`, `FlushNext`, `FlushEnd` |
| INSTALL/UPDATE, UNINSTALL | `Install`, `Uninstall`, `ClearToken`, `ClearTables` |
| `~Client` | `Destroy`, `StopServer`, `Disarm`, `DeleteRemaining`, `Gone` |
| the cloud (external) | `CloudInstall`, `CloudUninstall`, and the outcome of each request |

An installation is a number; its app id and every token granted for it are that
number, and 0 is the empty string. A request succeeds exactly when both name the
installation that exists; a *fault* (at most `MaxFaults`) makes one fail that
could succeed, or loses the answer of a POST that was carried out. Subscriptions
are records `[dev, app, n, whole]`; those with `n = 0` come from a previous run.
`abandoned` collects subscriptions the Client gave up knowingly: an answer lost,
a DELETE that failed, UNINSTALL.

Abstractions: `getDevice`'s request and `makeTrackedDevice` are one step; the
capture of id and token in `subscribeTo` and its POST are one step; Devices an
application makes itself (no deleter), `setInstalledAppId`, EVENT (which holds
Devices alive for a moment) and the explicit subscription calls are absent.

### TokenContract and ExternalTokens

`TokenContract` says when the two events may fire: a report is decided while its
token is current and only if a supply of that token has no report yet, an
announcement while some token is set and only if a sign-in has none; each fires
afterwards. `ExternalTokens` is the code: the three critical sections of
`setAccessToken` (`Supply`, `AdoptId`, `Enqueue`), a request and its 401 policy
(`Call`, `Snapshot`, `Answer`, `LastAnswer`, `Report`, `QueueReport`;
`CallSubscribe` for the calls that are not retried), the worker's round (`Take`,
`Persist`, `NextReport`, `NotifyRejected`, `Flush`, `Announce`, `Complete`,
`NextRound`), the webhook handlers that touch id, token and storage (`Install`,
`Store`, `InstallFlush`, `Uninstall`, `ClearToken`, `RemoveId`) and the end
(`Destroy`, `StopServer`, `JoinWorker`). The refinement maps `reporting` to the
token the worker is about to report and `announcing` to its standing before
`completeAuthentication`; every other step of the code that does not change the
token is a stutter of the contract.

A flush is one authenticated request here (which devices it retries is the
business of Subscriptions), the token INSTALL delivers is never reported and so
changes nothing, and a token that has expired stays so. An event handler that
calls `setAccessToken` behaves as a caller doing so while the worker stands at
that point, so suppliers cover it.

`_workerRejected` is a count per token: `rejectedJob`. The order of reports of
different tokens is left open, which allows more behaviours than the vector.

### OAuthLogin

The client whose tokens come from a browser consent. Threads: `Callers`
(application) and `Servers` (the pool of the HTTP server, http_server.cpp:111);
`pc[t]` is the critical section or request the thread is about to do. Tokens are
numbered as the cloud issues them, 0 is the empty string; a pair is
`[access, refresh]`, and `keychain` is the pair stored under `oauth.token`.

| Code | Actions |
|---|---|
| `sendWithAuth` | `Call`, `Snapshot`, `Answer`, `Lock`, `Retry` |
| `_token_refresh_callback` | `Refresh` |
| `persistOAuthToken`, `applyOAuthToken` | `Merge`, `Write`, `Apply` |
| `completeAuthentication` | `Complete`, `CompleteWithError` (both `Finish`) |
| `authenticate`, `validateAuthentication` | `Login`, `Adopt`, `Validate`, `GiveUp`, `Discard`, `Renew`, `Consent`, `OpenPage` |
| `waitForAuthentication` | `Wait`, `WakeUp`, `WaitTimeout` |
| `onOAuthRedirect`, `completeAuthorization` | `Redirect`, `Exchange` |
| the user removes the installation, in the cloud (external) | `Revoke` |
| the UNINSTALL it sends, whenever a server thread gets to it | `Uninstall`, `ClearToken`, `RemovePair` |
| expiry or revocation of an access token; a crash and the next constructor | `Expire`, `Crash` |

`sendWithAuth` holds `_authMutex` from the comparison after its 401 to the answer
of its second request, over the token endpoint's answer and the storage's write
too; `authMutex` names the holder. Everywhere else the mutex spans one step. The
token endpoint accepts one refresh token (`live`), answers with a rotated pair or
with an access token alone, and any answer can be lost.

The keychain is an `IStorageProvider` that may fail, and client.cpp:937 ignores
the result of `setValue()`. `Loads` is what a load makes of it: the stored pair,
or none when the storage cannot be read. `Stores` is what a write leaves of it:
the new pair, the old one (the file could not be opened), or none (it was
truncated and the write failed, `FileStorage.WriteFails`). `RemovePair` may fail
likewise, and `Crash` may cut a write or a removal off after the truncation. The
keychain has a provider, and a file, of its own.

`renewed`, `answered`, `outdated` and `gone` are history: the access tokens
refreshed already, the page last handled, the threads about to write a pair that
is older than the stored one or that they could not merge with it, and whether
the only copy of the live refresh token was lost. There are
six ways to lose it:

1. the answer that rotated the token, or that granted it, is lost
   (`RefreshLost`, `Exchange`);
2. `setValue()` fails or truncates (`Stores`);
3. the program crashes in front of a write or a removal, or inside one (`Crash`);
4. a thread writes an older pair over a newer one (`Stores`, `outdated`): load,
   merge and write are not one critical section;
5. a thread writes a pair without the stored refresh token, because that could
   not be read when it was to be merged (`Merge`, `outdated`);
6. UNINSTALL is handled after a newer grant, and removes that (`RemovePair`).

`KeychainLive` says that the code loses it in no other way: not by a refresh
that leaves the token out of its answer, not by the blank pair with which
`authenticate()` replaces a refused access token, not by a second request that
fails at the same time, and not by a crash or a failing load anywhere else.

Abstractions: one thread at a time is in `authenticate()` ("Call once at
startup", client.h:477); the local clock is open, so a stored token may be tried
or skipped; the outcome `waitForAuthentication` returns is left out, its end is
not; subscriptions and the installed-app id follow a token without changing it and
belong to the other two modules; a code pasted without its state is absent.
`_pending_state` is read by the server's thread while `authenticate()` writes it
unsynchronized: a redirect may then fail, which it may here at any time.

### LiveUpdates

How Device objects follow the cloud. Threads: `Callers` (application, one of
which is the `Controller`), `Servers` and the `Poller`. A Device object has one
attribute here, whose value is the number of the change that set it, so that
"older" and "newest" can be said.

| Code | Actions |
|---|---|
| `makeTrackedDevice`, `registerDevice` | `RegisterDevice` |
| a `shared_ptr` goes and with the last one the Device | `Release`, `Drop` (both `LetGo`) |
| a POST or DELETE of a subscription takes effect in the cloud | `Subscribed`, `Unsubscribed` |
| `ensureRefreshed`, `refreshStatus` | `Read`, `Answer`, `Fail`, `ApplyStatus`, `Drop`, `Finish` |
| `pollNow`, `snapshotRegistry` | `PollNow`, `SnapshotRegistry`, `Answer`, `Fail`, `ApplyStatus`, `Drop`, `Finish` |
| the EVENT branch, `liveDevicesFor`, `applyDeviceEvent` | `TakeEvent`, `LiveDevicesFor`, `ApplyEvent`, `Drop`, `Finish` |
| the polling thread's loop and wait | `Lock`, `Test`, `CheckStop`, `FallAsleep`, `TimesOut`, `WakesUp` |
| `startPolling`, `stopPolling` | `StartPolling`, `StartThread`, `StopPolling`, `ClearFlag`, `NotifyAll`, `Join` |
| `~Client` | `Destroy`, `StopServer`, then `stopPolling` |
| the cloud (external) | `Change`, and the outcome of each request |

`push` says whether the Client has OAuth and so subscribes its Devices. `held`
are the `shared_ptr`s of a snapshot: an object is alive while the application or
a thread holds it.

Which subscriptions the cloud has is not computed here. `posts[i]` counts those of
device `i`, and it goes up and down at any time: with a registration, a flush, a
release, a leftover swept up, a POST whose answer was lost, a DELETE that comes
late, or the end of the installation. Every step of the code that creates or
deletes one, in whatever order its critical sections and requests interleave, is
one of these; when they happen is the subject of Subscriptions. A change is posted
once by each subscription there is.

`doubtful` is history: the objects that an older answer or event was applied to
after a newer one, those whose status was fetched while their device had no
subscription, and those that were alive when it lost its last. `NoUpdateLost` says
of all others that they have the newest value once every event is handled, and so
separates two questions. Whether a live Device is subscribed is answered by
Subscriptions, where `LiveDevicesTracked` holds for one application thread and is
violated by a release that meets a registration (SubscriptionsReleaseRace). Here
it is that, while it is, neither reads, polls and events on several threads nor
other subscriptions that come and go make it miss a change.

Abstractions: applying one status or event to one Device is one step, although
the code does it without a mutex (a data race that the code leaves to its
callers); polling intervals are any time; how a value becomes a typed field, and
when applying one throws, is the business of Capability; every event that is
posted is delivered, once, and in any order. Verification (WebhookService) may
refuse an event in the code, which the cloud would have to post again.

### Capability, CapabilityTables and Capabilities

`Capability` has the JSON accessors (`Accepts`, `Taken`), the
`parseStatus()` all generated classes share in form, `updateStatus` and
`setLocalAttribute`. A JSON value is its kind and payload; numbers are counted in
tenths, so that the cast to `int` shows. A status maps attributes to their nodes,
which may be anything: `ValueOf` finds no value in a node that is no object, and
`setLocalAttribute` throws where the cached node is neither an object nor null
(`Throws`, capability.cpp:77), with nothing changed. `CapabilityTables` says of each of the
143 classes which attributes it parses into which kind of field, and which
commands it sends; the two factories are `CreateCapability`. `Capabilities` is a
Device of several components that all have one capability, any of the 143 or an
unknown one: `InitFromJson`, `ApplyStatus`, `ApplyDeviceEvent`. Its `last` is
history, the last value of the right type that was delivered for each field, and
`spoiled` the attributes for which the last status has a node that takes no value;
an event for one of these is not delivered. Which statuses and events there are is
a parameter (`Statuses`, `Events`): the proofs hold for any, MCCapabilities gives
TLC samples.

### StorageContract and FileStorage

`StorageContract` is what `storage.h` promises: each call takes effect at once,
between its start and its return; a write that fails or is cut off by a crash may
cost everything stored, nothing else does. `FileStorage` is the provider:
`Begin`, `Lock`, `Load`, `Open` (which truncates), `OpenFails`, `Write`,
`WriteFails`, `Return`, and `Crash` at any point. The refinement maps the stored
values to the file, or to what the writer has loaded while the file is truncated,
and a call that has written or read to one that has taken effect.

### SignatureVerifier and WebhookService

`SignatureVerifier` is the verifier of a build with a crypto backend (the others
refuse everything, unless the application brings its own verifier). `Receive` is
`verify()` up to the key: header, digest, date, signed headers, base64; `Lookup`,
`Fetch`, `FetchFails` and `Store` are `resolveKey()`, whose request runs with the
cache unlocked and whose time is taken before it. A key is the number of its
issue; the key server replaces keys (`Rotate`); `retired` says when. Parsing is
an outcome of the request, the date is a number of ticks, and the skew is
truncated to seconds as `duration_cast` does.

`WebhookService` composes it with an instance of `FileStorage`: `Arrive`,
`Verifying`, `Refuse` (401), `Install`, `Uninstall`, `Acknowledge` (all other
kinds), `StorageStep` (the handler inside the provider), `AppCall` (the
application reads its own key of the same file), and `CrashAndRestart`, where the
next Client starts from the file. What INSTALL and UNINSTALL do to tokens and
subscriptions is in the other modules, which take requests as verified.

### Base64

`Encode` and `Decode` character by character as `src/base64.cpp` has them, the
`int` of `decode()` with its 32 bits included, and `Meaning`, a reference
definition of what a text stands for. MCWebhookService has the assumptions that
compare them.

## 4. Runs

All runs but the two of OAuthLogin have `CHECK_DEADLOCK FALSE`: after `~Client`
nothing moves, and Capabilities ends with its last update, as they should; in
WebhookService the clock ends. OAuthLogin has no destruction and is checked for
deadlock too.

| Run | Shows | Bounds |
|---|---|---|
| SubscriptionsTwoDevices | types, `NoSilentLeak`, `OneSubscriptionEach`, `CleanDestruction`, `ReleaseBeforeTeardown` | 2 devices, 2 callers, 2 registrations, 1 fault, a narrow leftover of one device and a whole one of the other |
| SubscriptionsReinstall | `InFlightExact`, `NeverOverwrites`, `ParkedNotSubscribed`, `NeverForgets` | 1 device, 2 callers, 2 registrations, 2 installations, a whole leftover |
| SubscriptionsLive | `LiveDevicesTracked`, `CallsReturn`, `DestructionEnds`, `ParkedGetsSubscribed` | 1 device, 1 caller, 1 sign-out, 1 fault |
| TokensEvents | types with the bound on queued reports, `ReportedOncePerSupply`, `AnnouncedOncePerSignIn`, `RejectedIsCurrent`, `ImplementsContract` | 2 tokens, 2 suppliers, 2 supplies, 1 id, 1 webhook |
| TokensLive | `NoIdLost`, `RejectionTold`, `SignInAnnounced`, `DestructionEnds` | 1 supplier, 2 ids, 2 supplies |
| OAuthRefresh | types, `KeychainLive`, `OneRefreshPerExpiry` | 2 callers, 1 server thread, 3 tokens, 1 page, 1 UNINSTALL, 1 crash, any failures of the keychain |
| OAuthLive | `CallsReturn`, `WaitEnds` | 2 callers, 1 server thread, 2 tokens, 1 page, any failures of the keychain, no UNINSTALL and no crash |
| LiveUpdates | types, `NeverTerminates`, `StopWaitsForOneCycle`, `StoppedIsQuiet`, `TargetsAreAlive`, `NoUpdateLost`, `NoLostWakeUp`, `StopReturns`, `PollingSyncs` | 1 Device object, 1 caller, 1 server thread, the poller, 2 changes, 1 failing request, 1 subscription at a time that comes and goes |
| Capabilities | `FieldsHoldLastValue` | 2 components, every capability, 2 updates; 8 values for events, and statuses with all attributes, none, or one with a value of its type, of another, null, without a value, null itself or no object |
| WebhookService | `OnlyVouchedIds`, `ReplacedKeyExpires`, `StorageKeepsContract` | 2 server threads and the application, 5 kinds of requests, 1 key with 2 issues, a lifetime and a clock of 2 ticks, 1 fault or crash |

Three assumptions of the modules are checks of their own, which TLC evaluates
before a run: `OneClassPerId` (Capabilities: 36 + 107 ids, each with one class
and each attribute with a field of one kind), and in MCWebhookService
`DecodeInvertsEncode` (base64 recovers what was encoded, also without padding and
with a line break in it) and `DecodeMeansTheBits` (`decode()` against `Meaning`
on some 20,000 texts of up to eight characters, enough to overflow its `int`
several times).

Why the bounds are enough: each race found or excluded here needs two threads on
one device (or one token), one request in flight and one event that overtakes it;
two callers, the worker and the server give four actors, two registrations the
release that meets a registration, two installations the result that arrives
after its installation is gone, two supplies the token that replaces another,
three tokens the pair that is rotated once by a refresh and once by a consent.
In LiveUpdates two changes
let a status or an event overtake another one, and the poller can be anywhere in
its cycle when it is stopped; several objects of one id, several server threads
and several subscriptions of one device are beyond its bounds because liveness is
checked in the same run, and its safety properties are all proved for any number
of them. In the OAuth runs one server thread handles the redirect and the UNINSTALL
one after the other, in either order, and the keychain is written by two more
threads meanwhile; the theorems have any number of server threads. Two
updates of a capability are enough because every update parses the whole status
again: the first puts a value there, the second leaves it out, empties it or has
another type. A clock of two ticks reaches the end of a lifetime of two, with a
key replaced at the first one and two threads that miss the cache at once. The
proofs of section 6 remove the bounds for the properties they cover.

`LiveDevicesTracked` holds for one application thread and the first installation
only, and is violated with two threads (below). Two things TLC shows on the way are accepted by the code, and no
property forbids them: narrow leftovers are deleted over the network with
`_subscriptionMutex` held (webhook.cpp:694, where client.h:671 says that network
calls always happen with it released), and a release that overtakes `flushPendingSubscriptions`
leaves a subscription recorded for a device nobody holds, until `~Client` deletes
it.

### Disagreements with the documentation

Each of these runs checks one sentence of the repository and TLC finds a
behaviour of the code that breaks it.

| Run | Sentence | What happens |
|---|---|---|
| SubscriptionsReleaseRace | client.h:87-89 | a release erases the subscription a concurrent registration relied on: a live Device without events |
| TokensUninstallRace | webhook.cpp:551-553 | a persist job taken before UNINSTALL restores the removed id |

### Seen while modelling, not checked by a run

These came up in reading, modelling and proving; no run claims them.

- A Device that is alive over an UNINSTALL and a new INSTALL is not tracked any
  more, with one application thread already: UNINSTALL clears the tables
  (webhook.cpp:567), and the new installation subscribes only the Devices that are
  registered after it. `cloudApp = 1` in `LiveDevicesStayTracked` stands for it.
- A subscription listed by `loadUnclaimedSubscriptionsOnce` may be deleted by
  another thread before the list is applied, and is adopted all the same
  (docs/live-updates.md:88-89).
- With two suppliers, a sign-out whose worker section comes last cancels the
  announcement of a later sign-in (client.h:241-243).
- A stored access token that is refused, or a refresh that fails for want of a
  network, leads to the consent page although the stored refresh token still
  works (client.h:425-426).
- A string-list attribute that becomes empty leaves its typed field as it was:
  the generated classes test `!v.empty()` first.
- docs/device-model.md:179 describes an optimistic local update after a command;
  no generated command makes one.
- `pollNow()` between the registration of a Device and its subscription gives
  the Device a status that no event corrects if the device changes in between.
- A status whose node for an attribute is a string, a number, a boolean or an array
  is accepted; the next event for that attribute throws (capability.cpp:77) out of
  the loop over Devices and events (webhook.cpp:536-538), and what follows in the
  request is lost with it.
- A failing keychain write is not noticed (client.cpp:937): the Client works on, and
  the next run starts with a refresh token that was rotated away, or none.
- An UNINSTALL that a thread of the pool handles late clears the token and removes
  the pair of a newer login.
- `stopPolling()` called by a PropertyChanged handler on the polling thread would
  join that thread itself; two threads that start and stop polling at once race
  on `_pollingRunning`.
- Two providers on one file have a mutex each and lose each other's updates, and
  two overlapping INSTALL or UNINSTALL requests may leave different ids in memory
  and in the file.
- `base64::decode` takes a lone `A`, six zero bits, for an empty text.

## 5. Fairness

`WF` on the steps a thread takes once it is inside the library: threads are
scheduled, mutexes are released, and every request ends because `HttpClient` has
a timeout of ten seconds. Nothing forces the application to call, the cloud to
deliver, or a token to expire. `RefreshingSpec` (for `ParkedGetsSubscribed` only)
adds that the application keeps handing in refreshed tokens with their app id,
as the documentation of `setAccessToken` asks; strong fairness, because it can
only do so between its other calls.

`FairSpec` of OAuthLogin has strong fairness per thread: a mutex that is free
again and again is granted in the end, which weak fairness would not give a
thread that others overtake. `_authMutex` is held across requests, but each of
them times out.

`FairSpec` of LiveUpdates has `WF` on the work of each thread and on the polling
thread's loop, and strong fairness on two steps: the wait ends after its interval
although spurious wake-ups interrupt it (its deadline is absolute), and
`stopPolling` gets `_pollingMutex` although the polling thread takes it again and
again, because that thread holds it for moments and sleeps at least five seconds
(`MIN_POLLING_INTERVAL`) without it. Nothing forces a device to change or a
request to succeed; `PollingSyncs` needs only that it does not fail for ever,
which the bound on faults gives.

## 6. Proofs

`SubscriptionsProofs` proves, for any sets of devices and threads and any bounds,
`TypeCorrect`, `CreationIsExclusive` (`InFlightExact`) and `RecordingIsSafe`
(`NeverOverwrites`). The inductive invariant adds to the types: the lock that is
held is held by the thread whose `pc` says so (`LockHeld`); between `Check` and
`CheckApp` the device is neither recorded nor in flight (`CheckedFree`), because
the mutex is held in between; and the threads that create are exactly those whose
devices are in flight, no two for one device (`Exclusive`). `NeverOverwrites`
needs the last one: only the creator of a device records it.

`TrackingProofs` goes on from there. `ReleasesEndFirst`
(`ReleaseBeforeTeardown`): whoever cleans up after a Device holds the hub's mutex
(`HubHeld`), and `~Client` disarms the hub under it. `ParkedIsFree`
(`ParkedNotSubscribed`): a device is parked by a thread that has found it without
a subscription under the lock, or whose claim in `_subscriptionsInFlight` kept all
others from recording one. `DevicesStayTracked` (`NeverForgets`) is proved action
by action; it needs that a flush never drains into a queue that still has ids
(`QueueKept`).

The second half of `TrackingProofs` is about what becomes of a subscription.
`NothingLeaks` (`NoSilentLeak`) needs two facts beyond `IInv`. `Ending` says
which threads can still be where while `~Client` goes on, so that the tables it
copies and clears are not written any more; `SubHeld` that a thread has an id in
hand only where it records or deletes it, so that no other step can drop one.
A step that touches an id then either puts it into its next place or deletes it
or gives it up (`DeletedOrGivenUp`), and all others leave every place alone
(`LeakFrame`). The listed leftovers are not one of the places: nothing of this
run is ever left there alone. `DestructionIsClean` (`CleanDestruction`) follows:
when `~Client` is done no such place is left.

`NoSecondSubscription` (`OneSubscriptionEach`) adds `Own`: an id is recorded,
listed and brought back from the cloud under the device it is for. Between two
calls no thread has an id in hand, so by `NoSilentLeak` each subscription is in
the table, and by `Own` at its own device, where there is room for one.

`LiveDevicesStayTracked` (`LiveDevicesTracked`) is proved for one application
thread (`OneCaller`) and while the first installation lasts. Both assumptions are
needed: with two threads there is SubscriptionsReleaseRace, and over a second
installation the behaviour that section 4 describes. `Kept` says of every live
Device that it is tracked in the middle of a call too, and `FirstRun` that no
UNINSTALL is under way and that whoever cleans up does so after the last Device
of its id, which is what a second thread breaks.

`NoCircularWait` (`LocksInOrder`, no run property): whoever holds
`_subscriptionMutex` between two steps is at a step that waits for no mutex, and
whoever holds the hub's mutex waits for `_subscriptionMutex` at most. That part of
the lock order of section 1 is thus a fact about every thread.

`ExternalTokensProofs` proves `ReportsAreBounded`, `AnnouncementsAreBounded`,
`MarkIsCurrent`, `TypeCorrect` (with the bounds) and `Implements`, the refinement
of `TokenContract`. At most one report per supply is not inductive: the invariant
counts, for each token, the reports fired, queued, taken by the worker, being
queued by a thread and being notified, plus one if the token is current and not
yet marked, and bounds that sum by the supplies. Sign-ins are counted likewise.

`SuppliedIdIsStored` (`NoIdLost`) is proved for one supplier and as long as there
was no webhook, as its run has it. `Leaving` says that once `~Client` runs no
caller is inside and that a worker told to stop has taken the last jobs; `IdKept`
follows the id from `setAccessToken` through the worker's job (`InHand`,
`LastId`) to the storage. `SilencedMeansOnItsWay` and
`SignInKeepsItsAnnouncement` are the safety halves of two liveness properties of
TokensLive, for any number of requests: what the mark silences, and what a
sign-in owes (of one supplier), is in somebody's hands until it has fired; that
those hands move is what fairness adds.

`OAuthLoginProofs` proves `TypeCorrect` and `RefreshesOnce`
(`OneRefreshPerExpiry`). The types need who holds the mutex (`LockHeld`), that a
thread at the steps of `authenticate()` is the one that entered it and has a page
left to open (`LoginHeld`), and that a server thread exchanges the code of a page
that was opened (`Serves`). The theorem needs `Renewing`: the holder of `_authMutex`
refreshes the token that is current, and a current token that has been refreshed
is about to be replaced by its holder, with a token that is new because every
token the program knows has been issued already (`Known`).

`LiveTokenIsKept` (`KeychainLive`), in the same module, is for any number of
threads, pages, tokens, crashes and UNINSTALLs, whatever calls of the keychain
fail. By itself the property does not survive a write: the writer may hold an
older pair than the keychain's. `Young` says that only a thread which was already
at its write when another one wrote, or which could not read the pair to merge
with, can; those are the threads that `outdated` records. `Stored` says that the
refresh tokens the program knows have been issued, so that a rotated one is new.
`WriteKeeps` is the case of the write with its three outcomes, and
`KeychainStep` shows of every other step that it keeps the token or is one of the
six losses of section 3. Nothing relates an UNINSTALL to what was granted since
the cloud sent it: the pair it removes may be the live one.

`LiveUpdatesProofs` proves all safety properties of LiveUpdates, for any Devices
and threads. The invariant is `IInv`: `Control` (which thread can be where, that
the polling thread exists exactly while it is joinable, who holds the mutex, and
that a cycle begun after the flag was cleared is the last), `Lives` (the registry
is exactly what somebody holds, and a thread holds what it has still to write
into) and the types `Data` and `Fields`. `NothingLost` adds `Behind` (no value, no
reply and no event is ahead of the cloud) and `Followed`: the device of an object
that has a status and is not doubtful is subscribed, and the object has the newest
value or an event with that is on its way (`DeviceFollows`); and a status in a
thread's hands that was fetched under a subscription is the newest, or its object
has or gets an event that is (`ReplyFollows`). Registrations, releases and
subscriptions are followed through two lemmas: `FollowedLasts` for Devices that
come and go, `FollowedSubscribed` for subscriptions that do. No lemma relates the
two: a subscription may end at any point of a release or a registration.

`CapabilitiesProofs` proves `FieldsAreLastValues` (`FieldsHoldLastValue`) for any
components and capabilities, any number of updates and any sets `Statuses` and
`Events`: no assumption says that a capability's or an attribute's node is an
object, a component is known or a value has the type of its field. `Inv` adds that
the cached status rejects events for exactly the `spoiled` attributes, and that
every value of the cached status that its field's parser accepts is in the field
(`Agrees`), because `parseStatus()` reads the whole cached status again with every
update. The lemmas follow the ways a value arrives (`ParseStatusFields`,
`ObjectArrives`, `OtherShapeArrives`, `ValueArrives`, `EventArrives`), and rest on
one fact about the 143 classes: none of their parsers takes `null` for a value
(`KindsTakeNoNull`).

`FileStorageProofs` proves the types with the mutual exclusion of the provider's
mutex, and `Implements`, the refinement of `StorageContract`, with one lemma per
step. `WebhookServiceProofs` reuses that step by step: `StorageCorrect` says that
the refinement holds under the calls the webhook handlers make. `KeysExpire` needs
`KInv`: a cached or fetched key was current when the thread that brought it took
its time, or later, so that it expires at most `KeyCacheTtl` after its
replacement. `IdsAreVouched` needs `Kept`: what is verified is vouched for, and
the memory, the file, what a writer has loaded and every call under way hold
vouched ids only.

Assumptions are those named in the modules: the kinds of threads are distinct and
the callers finite, "none" values are outside the sets they extend, bounds are
natural numbers. Each is evaluated by TLC in the runs.

Only model-checked: liveness and everything under fairness (the safety halves
named above are proved), the two properties that runs refute, and the base64
codec. Every invariant and every action property of the passing runs is proved,
`LiveDevicesTracked` and `NoIdLost` under the assumptions named with them.
Liveness, ENABLED, induction over data and RECURSIVE operators are outside what
the installed provers handle and stay with TLC.

## 7. Not modelled

Paging and the read-only REST calls (a bounded loop without state that outlives
it), the HTTP and JSON wrappers, URL and date parsing, the cryptography, the
arguments of commands, logging and wording of errors. Of the modelled parts: the
operations that section 2 lists as left; the Windows credential provider; two
processes on one file; the outcome that `waitForAuthentication` returns; the answers' bodies and the request to a
confirmation URL; units and the descriptive fields of a Device. A data race of
the code (capability JSON on two threads, `_pending_state`) is modelled by its
outcomes where it has some, and one application of a status is otherwise one step.

The default server handles requests on the thread pool of cpp-httplib. LiveUpdates,
OAuthLogin and WebhookService have several server threads; Subscriptions and
ExternalTokens have one, which handles one webhook at a time.
