-------------------------- MODULE WebhookServiceProofs --------------------------
(***************************************************************************)
(* Safety of WebhookService, for any requests, threads, lifetimes of a key *)
(* and numbers of crashes.  The argument: a request that got as far as its *)
(* key has a confirmed body, a key is only ever the number of an issue,    *)
(* and the time a thread took before it fetched a key is no later than the *)
(* replacement of that key.                                                *)
(***************************************************************************)
EXTENDS WebhookService, TLAPS

Trusted == {"lookup", "fetch", "store", "verified"}

\* What a thread has in hand at each stage.
Staged ==
  /\ stage \in [Servers -> Stages]
  /\ request \in [Servers -> Requests \cup {NoRequest}]
  /\ \A t \in Servers : stage[t] # "idle" => request[t] \in Requests
  /\ \A t \in Servers : stage[t] \in Trusted => BodyConfirmed(request[t])
  /\ \A t \in Servers : At(t, "verified") => request[t].by > 0

\* Keys, and the times that go with them.
Timed ==
  /\ clock \in Nat
  /\ issue \in [KeyIds -> Nat \ {0}] /\ \A k \in KeyIds : issue[k] <= MaxIssues
  /\ retired \in [KeyIds -> [1 .. MaxIssues -> Nat]]
  /\ cache \in [KeyIds -> [issue : Nat, expiry : Nat]]
  /\ now \in [Servers -> Nat] /\ pem \in [Servers -> Nat]
  /\ \A t \in Servers : now[t] <= clock
  /\ \A k \in KeyIds : /\ cache[k].issue <= issue[k]
                       /\ cache[k].expiry <= clock + KeyCacheTtl
  /\ \A t \in Servers : At(t, "store") =>
       pem[t] > 0 /\ pem[t] <= issue[request[t].keyId]

Past(issued, k) == issued > 0 /\ issued < issue[k]

\* A key that was replaced was fetched before that.
Dated ==
  /\ \A k \in KeyIds :
       Past(cache[k].issue, k) =>
         cache[k].expiry <= retired[k][cache[k].issue] + KeyCacheTtl
  /\ \A t \in Servers :
       At(t, "store") /\ Past(pem[t], request[t].keyId) =>
         now[t] <= retired[request[t].keyId][pem[t]]

\* The ids in memory, in the file and on the way there.
IsVouched(a) == a \in Vouched \cup {NoId}
Kept ==
  /\ IsVouched(installedAppId) /\ IsVouched(file["installedAppId"])
  /\ \A u \in Servers \cup {App} :
       /\ call[u].key = "installedAppId" => IsVouched(call[u].value)
       /\ IsVouched(loaded[u]["installedAppId"])
  /\ \A t \in Servers : IsVouched(call[t].value)

KInv == Staged /\ Timed /\ Dated /\ ReplacedKeyExpires

-----------------------------------------------------------------------------
(* Requests and keys                                                        *)

USE DEF At, Goto

LEMMA RequestFacts ==
  ASSUME NEW r \in Requests
  PROVE  /\ r # NoRequest /\ r.keyId \in KeyIds /\ r.by \in Nat
         /\ r.date \in Int
BY RequestsAssumption

LEMMA IssueFacts ==
  ASSUME Timed, NEW k \in KeyIds
  PROVE  /\ issue[k] \in Nat /\ issue[k] > 0 /\ issue[k] <= MaxIssues
         /\ MaxIssues \in Nat /\ KeyCacheTtl \in Nat
         /\ cache[k].issue \in Nat /\ cache[k].expiry \in Nat
         /\ cache[k].issue <= issue[k]
         /\ cache[k].expiry <= clock + KeyCacheTtl
         /\ \A v \in Nat : v > 0 /\ v <= issue[k] =>
              v \in 1 .. MaxIssues /\ retired[k][v] \in Nat
<1>1. issue[k] \in Nat /\ issue[k] > 0 /\ issue[k] <= MaxIssues
  BY DEF Timed
<1>2. MaxIssues \in Nat /\ KeyCacheTtl \in Nat
  BY TimesAssumption
<1>3. /\ cache[k] \in [issue : Nat, expiry : Nat]
      /\ cache[k].issue <= issue[k]
      /\ cache[k].expiry <= clock + KeyCacheTtl
  BY DEF Timed
<1>4. ASSUME NEW v \in Nat, v > 0, v <= issue[k]
      PROVE  v \in 1 .. MaxIssues /\ retired[k][v] \in Nat
  <2>1. v \in 1 .. MaxIssues
    BY <1>1, <1>2, <1>4
  <2>2. retired[k] \in [1 .. MaxIssues -> Nat]
    BY DEF Timed
  <2> QED
    BY <2>1, <2>2
<1> QED
  BY <1>1, <1>2, <1>3, <1>4

LEMMA InitKeys == Init => KInv
<1> SUFFICES ASSUME Init PROVE KInv
  OBVIOUS
<1>1. Staged
  BY DEF Init, Staged, Stages, Trusted
<1>2. Timed
  BY TimesAssumption DEF Init, Timed, NoEntry
<1>3. Dated
  BY DEF Init, Dated, Past, NoEntry
<1>4. ReplacedKeyExpires
  BY DEF Init, ReplacedKeyExpires
<1> QED
  BY <1>1, <1>2, <1>3, <1>4 DEF KInv

LEMMA ReceiveKeys ==
  ASSUME KInv, NEW t \in Servers, NEW r \in Requests, Receive(t, r)
  PROVE  KInv'
<1> USE DEF KInv, Receive
<1>1. Staged'
  BY RequestFacts DEF Staged, Stages, Trusted, BodyConfirmed
<1>2. Timed'
  BY DEF Timed, Staged
<1>3. Dated'
  BY DEF Dated, Past, Staged
<1>4. ReplacedKeyExpires'
  BY DEF ReplacedKeyExpires, Staged
<1> QED
  BY <1>1, <1>2, <1>3, <1>4

LEMMA ReturnKeys ==
  ASSUME KInv, NEW t \in Servers, Return(t)
  PROVE  KInv'
<1> USE DEF KInv, Return
<1>1. Staged'
  BY DEF Staged, Stages, Trusted, BodyConfirmed
<1>2. Timed'
  BY DEF Timed, Staged
<1>3. Dated'
  BY DEF Dated, Past, Staged
<1>4. ReplacedKeyExpires'
  BY DEF ReplacedKeyExpires, Staged
<1> QED
  BY <1>1, <1>2, <1>3, <1>4

LEMMA LookupKeys ==
  ASSUME KInv, NEW t \in Servers, Lookup(t)
  PROVE  KInv'
<1> USE DEF KInv, Lookup
<1> DEFINE r == request[t]
           entry == cache[r.keyId]
<1>1. /\ r \in Requests /\ r.keyId \in KeyIds /\ r.by \in Nat
      /\ stage[t] = "lookup" /\ BodyConfirmed(r)
      /\ entry.issue \in Nat /\ entry.expiry \in Nat
  BY RequestFacts DEF Staged, Trusted, Timed
<1>2. \/ /\ stage' = [stage EXCEPT ![t] = "verified"]
         /\ entry.issue > 0 /\ entry.expiry > now[t] /\ r.by = entry.issue
      \/ stage' = [stage EXCEPT ![t] = "rejected"]
      \/ stage' = [stage EXCEPT ![t] = "fetch"]
  <2>1. CASE Usable(t, entry)
    <3>1. entry.issue > 0 /\ entry.expiry > now[t]
      BY <1>1, <2>1 DEF Usable
    <3>2. stage' = [stage EXCEPT ![t] = Verdict(t, entry.issue)]
      BY <2>1
    <3> QED
      BY <3>1, <3>2 DEF Verdict
  <2>2. CASE ~Usable(t, entry)
    BY <2>2
  <2> QED
    BY <2>1, <2>2
<1> HIDE DEF r, entry
<1>3. UNCHANGED <<clock, issue, retired, cache, request, now, pem>>
  BY DEF Lookup
<1> HIDE DEF Lookup
<1>4. Staged'
  BY <1>1, <1>2, <1>3 DEF Staged, Stages, Trusted, BodyConfirmed, r
<1>5. Timed'
  BY <1>2, <1>3 DEF Timed, Staged
<1>6. Dated'
  BY <1>2, <1>3 DEF Dated, Past, Staged
<1>7. ReplacedKeyExpires'
  <2> SUFFICES ASSUME NEW u \in Servers, At(u, "verified")',
                      request[u].by < issue[request[u].keyId]
               PROVE  LET age == now[u] - retired[request[u].keyId][request[u].by]
                      IN age <= 0 \/ age < KeyCacheTtl
    BY <1>3 DEF ReplacedKeyExpires
  <2>1. CASE stage[u] = "verified"
    BY <2>1 DEF ReplacedKeyExpires
  <2>2. CASE stage[u] # "verified"
    <3>1. /\ u = t /\ entry.issue > 0 /\ entry.expiry > now[t]
          /\ r.by = entry.issue
      BY <1>2, <2>2 DEF Staged
    <3>2. Past(entry.issue, r.keyId)
      BY <3>1 DEF Past, r
    <3>3. entry.expiry <= retired[r.keyId][r.by] + KeyCacheTtl
      BY <1>1, <3>1, <3>2 DEF Dated, entry
    <3>4. retired[r.keyId][r.by] \in Nat /\ KeyCacheTtl \in Nat
      BY <1>1, <3>1, IssueFacts DEF entry
    <3>5. now[t] \in Nat
      BY DEF Timed
    <3> QED
      BY <1>1, <3>1, <3>3, <3>4, <3>5 DEF r
  <2> QED
    BY <2>1, <2>2
<1> QED
  BY <1>4, <1>5, <1>6, <1>7

LEMMA FetchKeys ==
  ASSUME KInv, NEW t \in Servers, Fetch(t) \/ FetchFails(t)
  PROVE  KInv'
<1> USE DEF KInv
<1> DEFINE k == request[t].keyId
<1>1. /\ request[t] \in Requests /\ k \in KeyIds /\ stage[t] = "fetch"
      /\ issue[k] \in Nat /\ issue[k] > 0
  BY RequestFacts, IssueFacts DEF Staged, Fetch, FetchFails
<1> HIDE DEF k
<1>2. CASE Fetch(t)
  <2>1. /\ pem' = [pem EXCEPT ![t] = issue[k]]
        /\ stage' = [stage EXCEPT ![t] = "store"]
        /\ UNCHANGED <<clock, issue, retired, cache, request, now>>
    BY <1>2 DEF Fetch, k
  <2>2. Staged'
    BY <1>1, <2>1 DEF Staged, Stages, Trusted, BodyConfirmed
  <2>3. Timed'
    BY <1>1, <2>1 DEF Timed, Staged, k
  <2>4. Dated'
    <3>1. ASSUME NEW u \in Servers, stage'[u] = "store",
                 Past(pem'[u], request[u].keyId)
          PROVE  now[u] <= retired[request[u].keyId][pem'[u]]
      <4>1. CASE u = t
        BY <1>1, <2>1, <3>1, <4>1 DEF Past, Timed, k
      <4>2. CASE u # t
        BY <2>1, <3>1, <4>2 DEF Dated, Staged, Timed
      <4> QED
        BY <4>1, <4>2
    <3> QED
      BY <2>1, <3>1 DEF Dated, Past
  <2>5. ReplacedKeyExpires'
    BY <2>1 DEF ReplacedKeyExpires, Staged
  <2> QED
    BY <2>2, <2>3, <2>4, <2>5
<1>3. CASE FetchFails(t)
  <2>1. /\ stage' = [stage EXCEPT ![t] = "rejected"]
        /\ UNCHANGED <<clock, issue, retired, cache, request, now, pem>>
    BY <1>3 DEF FetchFails
  <2>2. Staged'
    BY <1>1, <2>1 DEF Staged, Stages, Trusted, BodyConfirmed
  <2>3. Timed' /\ Dated'
    BY <2>1 DEF Timed, Dated, Past, Staged
  <2>4. ReplacedKeyExpires'
    BY <2>1 DEF ReplacedKeyExpires, Staged
  <2> QED
    BY <2>2, <2>3, <2>4
<1> QED
  BY <1>2, <1>3

LEMMA StoreKeys ==
  ASSUME KInv, NEW t \in Servers, Store(t)
  PROVE  KInv'
<1> USE DEF KInv, Store
<1> DEFINE r == request[t]
<1>1. /\ r \in Requests /\ r.keyId \in KeyIds /\ r.by \in Nat
      /\ stage[t] = "store" /\ BodyConfirmed(r)
      /\ pem[t] \in Nat /\ pem[t] > 0 /\ pem[t] <= issue[r.keyId]
      /\ now[t] \in Nat /\ KeyCacheTtl \in Nat
  BY RequestFacts, TimesAssumption DEF Staged, Trusted, Timed
<1>2. \/ stage' = [stage EXCEPT ![t] = "verified"] /\ r.by = pem[t]
      \/ stage' = [stage EXCEPT ![t] = "rejected"]
  BY <1>1 DEF Verdict
<1>3. /\ cache' = [cache EXCEPT ![r.keyId] =
                     [issue |-> pem[t], expiry |-> now[t] + KeyCacheTtl]]
      /\ UNCHANGED <<clock, issue, retired, request, now, pem>>
  BY DEF Expiry
<1> HIDE DEF r, Store
<1>4. Staged'
  BY <1>1, <1>2, <1>3 DEF Staged, Stages, Trusted, BodyConfirmed, r
<1>5. Timed'
  BY <1>1, <1>2, <1>3 DEF Timed, Staged
<1>6. Dated'
  <2>1. ASSUME NEW k \in KeyIds, Past(cache'[k].issue, k)
        PROVE  cache'[k].expiry <= retired[k][cache'[k].issue] + KeyCacheTtl
    <3>1. CASE k # r.keyId
      BY <1>3, <2>1, <3>1 DEF Dated, Timed
    <3>2. CASE k = r.keyId
      <4>1. cache'[k].issue = pem[t] /\ cache'[k].expiry = now[t] + KeyCacheTtl
        BY <1>1, <1>3, <3>2 DEF Timed
      <4>2. now[t] <= retired[k][pem[t]]
        BY <1>1, <2>1, <3>2, <4>1 DEF Dated, r
      <4>3. retired[k][pem[t]] \in Nat
        BY <1>1, <3>2, IssueFacts
      <4> QED
        BY <1>1, <4>1, <4>2, <4>3
    <3> QED
      BY <3>1, <3>2
  <2>2. ASSUME NEW u \in Servers, stage'[u] = "store",
               Past(pem[u], request[u].keyId)
        PROVE  now[u] <= retired[request[u].keyId][pem[u]]
    BY <1>2, <2>2 DEF Dated, Staged
  <2> QED
    BY <1>3, <2>1, <2>2 DEF Dated, Past
<1>7. ReplacedKeyExpires'
  <2> SUFFICES ASSUME NEW u \in Servers, At(u, "verified")',
                      request[u].by < issue[request[u].keyId]
               PROVE  LET age == now[u] - retired[request[u].keyId][request[u].by]
                      IN age <= 0 \/ age < KeyCacheTtl
    BY <1>3 DEF ReplacedKeyExpires
  <2>1. CASE stage[u] = "verified"
    BY <2>1 DEF ReplacedKeyExpires
  <2>2. CASE stage[u] # "verified"
    <3>1. u = t /\ r.by = pem[t]
      BY <1>2, <2>2 DEF Staged
    <3>2. now[t] <= retired[r.keyId][r.by]
      BY <1>1, <3>1 DEF Dated, Past, r
    <3>3. retired[r.keyId][r.by] \in Nat
      BY <1>1, <3>1, IssueFacts
    <3> QED
      BY <1>1, <3>1, <3>2, <3>3 DEF r
  <2> QED
    BY <2>1, <2>2
<1> QED
  BY <1>4, <1>5, <1>6, <1>7

LEMMA WorldKeys ==
  ASSUME KInv, Tick \/ \E k \in KeyIds : Rotate(k)
  PROVE  KInv'
<1> USE DEF KInv
<1>1. CASE Tick
  <2> USE DEF Tick
  <2>1. Staged'
    BY <1>1 DEF Staged, BodyConfirmed
  <2>2. Timed'
    BY <1>1, TimesAssumption DEF Timed
  <2>3. Dated' /\ ReplacedKeyExpires'
    BY <1>1 DEF Dated, Past, ReplacedKeyExpires
  <2> QED
    BY <2>1, <2>2, <2>3
<1>2. ASSUME NEW k \in KeyIds, Rotate(k) PROVE KInv'
  <2>1. /\ issue' = [issue EXCEPT ![k] = issue[k] + 1] /\ issue[k] < MaxIssues
        /\ retired' = [retired EXCEPT ![k] =
                         [retired[k] EXCEPT ![issue[k]] = clock]]
        /\ UNCHANGED <<clock, cache, stage, request, now, pem>>
    BY <1>2 DEF Rotate
  <2>2. /\ issue[k] \in 1 .. MaxIssues /\ MaxIssues \in Nat
        /\ KeyCacheTtl \in Nat
    BY TimesAssumption DEF Timed
  <2>3. Staged'
    BY <2>1 DEF Staged, BodyConfirmed
  <2>4. Timed'
    <3>1. \A j \in KeyIds : issue'[j] = issue[j] \/ (j = k /\ issue'[j] = issue[j] + 1)
      BY <2>1 DEF Timed
    <3>2. issue' \in [KeyIds -> Nat \ {0}] /\ \A j \in KeyIds : issue'[j] <= MaxIssues
      BY <2>1, <2>2 DEF Timed
    <3>3. retired' \in [KeyIds -> [1 .. MaxIssues -> Nat]]
      BY <2>1, <2>2 DEF Timed
    <3>4. \A j \in KeyIds : /\ cache'[j].issue <= issue'[j]
                            /\ cache'[j].expiry <= clock' + KeyCacheTtl
      BY <2>1, <3>1, IssueFacts
    <3>5. ASSUME NEW t \in Servers, stage[t] = "store"
          PROVE  pem[t] > 0 /\ pem[t] <= issue'[request[t].keyId]
      <4>1. /\ request[t].keyId \in KeyIds /\ pem[t] \in Nat
            /\ pem[t] > 0 /\ pem[t] <= issue[request[t].keyId]
        BY <3>5, RequestFacts DEF Timed, Staged
      <4> QED
        BY <3>1, <4>1, IssueFacts
    <3> QED
      BY <2>1, <3>2, <3>3, <3>4, <3>5 DEF Timed
  <2>5. Dated'
    <3>1. ASSUME NEW j \in KeyIds, Past(cache[j].issue, j)'
          PROVE  cache[j].expiry <= retired'[j][cache[j].issue] + KeyCacheTtl
      <4> DEFINE v == cache[j].issue
      <4>1. v \in Nat /\ v > 0 /\ v < issue'[j] /\ v <= issue[j]
        BY <2>1, <3>1, IssueFacts DEF Past
      <4> HIDE DEF v
      <4>2. CASE j = k /\ v = issue[k]
        <5>1. retired'[j][v] = clock
          BY <2>1, <2>2, <4>2 DEF Timed
        <5> QED
          BY <5>1, IssueFacts DEF v
      <4>3. CASE ~(j = k /\ v = issue[k])
        <5>1. Past(v, j)
          BY <2>1, <2>2, <4>1, <4>3 DEF Past, Timed
        <5>2. retired'[j][v] = retired[j][v]
          <6>1. retired \in [KeyIds -> [1 .. MaxIssues -> Nat]]
            BY DEF Timed
          <6>2. v \in 1 .. MaxIssues
            BY <4>1, IssueFacts DEF v
          <6> QED
            BY <2>1, <4>3, <6>1, <6>2
        <5> QED
          BY <5>1, <5>2 DEF Dated, v
      <4> QED
        BY <4>2, <4>3
    <3>2. ASSUME NEW t \in Servers, stage[t] = "store",
                 Past(pem[t], request[t].keyId)'
          PROVE  now[t] <= retired'[request[t].keyId][pem[t]]
      <4> DEFINE v == pem[t]
                 j == request[t].keyId
      <4>1. /\ j \in KeyIds /\ v \in Nat /\ v > 0 /\ v < issue'[j]
            /\ v <= issue[j] /\ now[t] <= clock
        BY <2>1, <3>2, RequestFacts DEF Past, Staged, Timed
      <4> HIDE DEF v, j
      <4>2. CASE j = k /\ v = issue[k]
        BY <2>1, <2>2, <4>1, <4>2 DEF Timed, v, j
      <4>3. CASE ~(j = k /\ v = issue[k])
        <5>1. Past(v, j)
          BY <2>1, <2>2, <4>1, <4>3 DEF Past, Timed
        <5>2. retired'[j][v] = retired[j][v]
          BY <2>1, <4>1, <4>3, IssueFacts DEF Timed
        <5> QED
          BY <3>2, <5>1, <5>2 DEF Dated, v, j
      <4> QED
        BY <4>2, <4>3
    <3> QED
      BY <2>1, <3>1, <3>2 DEF Dated, Past
  <2>6. ReplacedKeyExpires'
    <3> SUFFICES ASSUME NEW t \in Servers, stage[t] = "verified",
                        request[t].by < issue'[request[t].keyId]
                 PROVE  LET age == now[t] - retired'[request[t].keyId][request[t].by]
                        IN age <= 0 \/ age < KeyCacheTtl
      BY <2>1 DEF ReplacedKeyExpires
    <3> DEFINE v == request[t].by
               j == request[t].keyId
    <3>1. /\ j \in KeyIds /\ v \in Nat /\ v > 0 /\ v < issue'[j]
          /\ now[t] \in Nat /\ now[t] <= clock /\ clock \in Nat
      BY RequestFacts DEF Staged, Timed
    <3> HIDE DEF v, j
    <3>2. CASE j = k /\ v = issue[k]
      <4>1. retired'[j][v] = clock
        BY <2>1, <2>2, <3>2 DEF Timed
      <4> QED
        BY <3>1, <4>1 DEF v, j
    <3>3. CASE ~(j = k /\ v = issue[k])
      <4>1. v < issue[j]
        BY <2>1, <2>2, <3>1, <3>3 DEF Timed
      <4>2. retired'[j][v] = retired[j][v]
        BY <2>1, <3>1, <3>3, <4>1, IssueFacts DEF Timed
      <4> QED
        BY <4>1, <4>2 DEF ReplacedKeyExpires, v, j
    <3> QED
      BY <3>2, <3>3
  <2> QED
    BY <2>3, <2>4, <2>5, <2>6
<1> QED
  BY <1>1, <1>2

LEMMA RestartKeys ==
  ASSUME KInv, Restart
  PROVE  KInv'
<1> USE DEF KInv, Restart
<1>1. Staged'
  BY DEF Staged, Stages, Trusted
<1>2. Timed'
  BY TimesAssumption DEF Timed, NoEntry
<1>3. Dated' /\ ReplacedKeyExpires'
  BY DEF Dated, Past, NoEntry, ReplacedKeyExpires
<1> QED
  BY <1>1, <1>2, <1>3

-----------------------------------------------------------------------------
(* The service                                                              *)

\* What was proved about the file provider, for the threads of the service.
File == INSTANCE FileStorageProofs WITH
  Users <- Servers \cup {App}, Keys <- {"installedAppId", "other"},
  Values <- AppIds, NoValue <- NoId

LEMMA SameFile ==
  /\ Storage!Init <=> File!Init
  /\ \A u \in Servers \cup {App} : Storage!Busy(u) <=> File!Busy(u)
  /\ Storage!Crash <=> File!Crash
  /\ Storage!Calls = File!Calls
  /\ \A u \in Servers \cup {App}, c \in File!Calls :
       Storage!Begin(u, c) <=> File!Begin(u, c)
<1>1. /\ Storage!Empty = File!Empty /\ Storage!Contents = File!Contents
      /\ Storage!NoCall = File!NoCall /\ Storage!NoResult = File!NoResult
      /\ Storage!Calls = File!Calls
  BY DEF Storage!Empty, File!Empty, Storage!Contents, File!Contents,
     Storage!NoCall, File!NoCall, Storage!NoResult, File!NoResult,
     Storage!Calls, File!Calls
<1>2. Storage!Init <=> File!Init
  BY <1>1 DEF Storage!Init, File!Init
<1>3. Storage!Crash <=> File!Crash
  BY <1>1 DEF Storage!Crash, File!Crash
<1>4. ASSUME NEW u \in Servers \cup {App}, NEW c \in File!Calls
      PROVE  Storage!Begin(u, c) <=> File!Begin(u, c)
  BY DEF Storage!Begin, File!Begin, Storage!At, File!At, Storage!Goto,
     File!Goto
<1>5. ASSUME NEW u \in Servers \cup {App}
      PROVE  Storage!Busy(u) <=> File!Busy(u)
  <2>1. Storage!Lock(u) <=> File!Lock(u)
    BY <1>1 DEF Storage!Lock, File!Lock, Storage!At, File!At, Storage!Goto,
       File!Goto, Storage!Got, File!Got, Storage!Written, File!Written
  <2>2. Storage!Load(u) <=> File!Load(u)
    BY <1>1 DEF Storage!Load, File!Load, Storage!At, File!At, Storage!Goto,
       File!Goto, Storage!Got, File!Got, Storage!Written, File!Written
  <2>3. Storage!Open(u) <=> File!Open(u)
    BY <1>1 DEF Storage!Open, File!Open, Storage!At, File!At, Storage!Goto,
       File!Goto, Storage!Got, File!Got, Storage!Written, File!Written
  <2>4. Storage!OpenFails(u) <=> File!OpenFails(u)
    BY <1>1 DEF Storage!OpenFails, File!OpenFails, Storage!At, File!At,
       Storage!Goto, File!Goto, Storage!Got, File!Got, Storage!Written,
       File!Written
  <2>5. Storage!Write(u) <=> File!Write(u)
    BY <1>1 DEF Storage!Write, File!Write, Storage!At, File!At, Storage!Goto,
       File!Goto, Storage!Got, File!Got, Storage!Written, File!Written
  <2>6. Storage!WriteFails(u) <=> File!WriteFails(u)
    BY <1>1 DEF Storage!WriteFails, File!WriteFails, Storage!At, File!At,
       Storage!Goto, File!Goto, Storage!Got, File!Got, Storage!Written,
       File!Written
  <2>7. Storage!Return(u) <=> File!Return(u)
    BY <1>1 DEF Storage!Return, File!Return, Storage!At, File!At,
       Storage!Goto, File!Goto, Storage!Got, File!Got, Storage!Written,
       File!Written
  <2> QED
    BY <2>1, <2>2, <2>3, <2>4, <2>5, <2>6, <2>7 DEF Storage!Busy, File!Busy
<1> QED
  BY <1>1, <1>2, <1>3, <1>4, <1>5

LEMMA KeysStep == KInv /\ [ServiceNext]_serviceVars => KInv'
<1> SUFFICES ASSUME KInv, [ServiceNext]_serviceVars PROVE KInv'
  OBVIOUS
<1>1. CASE UNCHANGED vars
  BY <1>1 DEF vars, KInv, Staged, Timed, Dated, Past, ReplacedKeyExpires,
     BodyConfirmed
<1>2. ASSUME NEW t \in Servers, Handle(t)
      PROVE  KInv'
  BY <1>2, ReceiveKeys, ReturnKeys, LookupKeys, FetchKeys, StoreKeys
     DEF Handle, Arrive, Verifying, Verify, Refuse, Install, Uninstall,
         Acknowledge
<1>3. CASE CrashAndRestart
  BY <1>3, RestartKeys DEF CrashAndRestart
<1>4. CASE World
  BY <1>4, WorldKeys DEF World
<1> QED
  BY <1>1, <1>2, <1>3, <1>4 DEF ServiceNext, StorageStep, AppCall, serviceVars

\* A key that was replaced is out of use KeyCacheTtl later, for any number of
\* threads, keys and replacements (src/webhook_signature.cpp).
THEOREM KeysExpire == ServiceSpec => []ReplacedKeyExpires
<1>1. ServiceInit => KInv
  BY InitKeys DEF ServiceInit
<1>2. KInv => ReplacedKeyExpires
  BY DEF KInv
<1> QED
  BY <1>1, <1>2, KeysStep, PTL DEF ServiceSpec

LEMMA InstallCall ==
  ASSUME Staged, NEW t \in Servers, Install(t)
  PROVE  [do |-> "set", key |-> "installedAppId", value |-> request[t].app]
           \in File!Calls
<1>1. request[t] \in Requests /\ request[t].kind = "INSTALL"
  BY DEF Staged, Install
<1>2. request[t].app \in AppIds
  BY <1>1, AppIdsAssumption
<1> QED
  BY <1>2 DEF File!Calls

LEMMA FileStep ==
  KInv /\ [ServiceNext]_serviceVars => [File!Next]_(File!vars)
<1> SUFFICES ASSUME KInv, [ServiceNext]_serviceVars
             PROVE  [File!Next]_(File!vars)
  OBVIOUS
<1>1. CASE UNCHANGED storageVars
  BY <1>1 DEF storageVars, File!vars
<1>2. ASSUME NEW t \in Servers, Handle(t)
      PROVE  File!Next \/ UNCHANGED storageVars
  <2>1. CASE Install(t)
    BY <2>1, InstallCall, SameFile DEF KInv, Install, File!Next
  <2>2. CASE Uninstall(t)
    <3>1. [do |-> "remove", key |-> "installedAppId", value |-> NoId]
            \in File!Calls
      BY DEF File!Calls
    <3> QED
      BY <2>2, <3>1, SameFile DEF Uninstall, File!Next
  <2>3. CASE ~Install(t) /\ ~Uninstall(t)
    BY <1>2, <2>3 DEF Handle, Arrive, Verifying, Refuse, Acknowledge
  <2> QED
    BY <2>1, <2>2, <2>3
<1>3. ASSUME NEW u \in Servers \cup {App}, StorageStep(u)
      PROVE  File!Next
  BY <1>3, SameFile DEF StorageStep, File!Next
<1>4. CASE AppCall
  <2>1. PICK c \in AppCalls : Storage!Begin(App, c)
    BY <1>4 DEF AppCall
  <2>2. c \in File!Calls
    BY AppCallsAssumption, SameFile
  <2> QED
    BY <2>1, <2>2, SameFile DEF File!Next
<1>5. CASE CrashAndRestart
  BY <1>5, SameFile DEF CrashAndRestart, File!Next
<1>6. CASE World
  BY <1>6 DEF World, storageVars, File!vars
<1> QED
  BY <1>1, <1>2, <1>3, <1>4, <1>5, <1>6 DEF ServiceNext, serviceVars,
     storageVars, File!vars

LEMMA FileInit == ServiceInit => File!Init
BY SameFile DEF ServiceInit

LEMMA FileSpec == ServiceSpec => File!Spec
<1>1. ServiceInit => KInv
  BY InitKeys DEF ServiceInit
<1> QED
  BY <1>1, KeysStep, FileInit, FileStep, PTL DEF ServiceSpec, File!Spec

\* The contract of one instance is that of the other.
LEMMA SameContract ==
  /\ File!Contract!Init <=> Storage!Contract!Init
  /\ [File!Contract!Next]_(File!Contract!vars)
       <=> [Storage!Contract!Next]_(Storage!Contract!vars)
<1>1. /\ File!Contract!Empty = Storage!Contract!Empty
      /\ File!Contract!Contents = Storage!Contract!Contents
      /\ File!Contract!NoCall = Storage!Contract!NoCall
      /\ File!Contract!NoResult = Storage!Contract!NoResult
      /\ File!Contract!Calls = Storage!Contract!Calls
  BY DEF File!Contract!Empty, Storage!Contract!Empty, File!Contract!Contents,
     Storage!Contract!Contents, File!Contract!NoCall, Storage!Contract!NoCall,
     File!Contract!NoResult, Storage!Contract!NoResult, File!Contract!Calls,
     Storage!Contract!Calls
<1>2. /\ File!Stored = Storage!Stored /\ File!Stored' = Storage!Stored'
      /\ File!NoCall = Storage!NoCall
  BY DEF File!Stored, Storage!Stored, File!At, Storage!At, File!NoCall,
     Storage!NoCall
<1>3. File!Contract!Init <=> Storage!Contract!Init
  BY <1>1, <1>2 DEF File!Contract!Init, Storage!Contract!Init
<1>4. ASSUME NEW u \in Servers \cup {App}, NEW c \in File!Contract!Calls
      PROVE  File!Contract!Call(u, c) <=> Storage!Contract!Call(u, c)
  BY <1>1, <1>2 DEF File!Contract!Call, Storage!Contract!Call
<1>5. ASSUME NEW u \in Servers \cup {App}
      PROVE  /\ File!Contract!Effect(u) <=> Storage!Contract!Effect(u)
             /\ File!Contract!Fail(u) <=> Storage!Contract!Fail(u)
             /\ File!Contract!Return(u) <=> Storage!Contract!Return(u)
  <2>1. File!Contract!Effect(u) <=> Storage!Contract!Effect(u)
    BY <1>1, <1>2 DEF File!Contract!Effect, Storage!Contract!Effect,
       File!Contract!After, Storage!Contract!After, File!Contract!Got,
       Storage!Contract!Got, File!Contract!Written, Storage!Contract!Written
  <2>2. File!Contract!Fail(u) <=> Storage!Contract!Fail(u)
    BY <1>1, <1>2 DEF File!Contract!Fail, Storage!Contract!Fail,
       File!Contract!Written, Storage!Contract!Written
  <2>3. File!Contract!Return(u) <=> Storage!Contract!Return(u)
    BY <1>1, <1>2 DEF File!Contract!Return, Storage!Contract!Return
  <2> QED
    BY <2>1, <2>2, <2>3
<1>6. File!Contract!Crash <=> Storage!Contract!Crash
  BY <1>1, <1>2 DEF File!Contract!Crash, Storage!Contract!Crash
<1>7. File!Contract!Next <=> Storage!Contract!Next
  BY <1>1, <1>4, <1>5, <1>6 DEF File!Contract!Next, Storage!Contract!Next
<1>8. File!Contract!vars = Storage!Contract!vars /\ File!Contract!vars' = Storage!Contract!vars'
  BY <1>2 DEF File!Contract!vars, Storage!Contract!vars
<1> QED
  BY <1>3, <1>7, <1>8

\* The threads of the service, the application and any number of crashes use
\* the file provider within its contract (src/storage.cpp).
THEOREM StorageCorrect == ServiceSpec => StorageKeepsContract
<1>1. File!Spec => File!ImplementsContract
  BY File!Implements
<1> QED
  BY <1>1, FileSpec, SameContract, PTL
     DEF StorageKeepsContract, Storage!ImplementsContract,
         Storage!Contract!Spec, File!ImplementsContract, File!Contract!Spec

-----------------------------------------------------------------------------
(* Ids                                                                      *)

Id == "installedAppId"

LEMMA NoIdVouched == IsVouched(NoId)
BY DEF IsVouched

LEMMA VerifiedIsVouched ==
  ASSUME Staged, NEW t \in Servers, Install(t)
  PROVE  IsVouched(request[t].app)
<1>1. /\ request[t] \in Requests /\ request[t].kind = "INSTALL"
      /\ request[t].by > 0 /\ BodyConfirmed(request[t])
  BY DEF Staged, Install, Trusted
<1>2. request[t].digest # "wrong"
  BY <1>1 DEF BodyConfirmed
<1> QED
  BY <1>1, <1>2 DEF IsVouched, Vouched

LEMMA FileTypes ==
  ASSUME File!TypeOK
  PROVE  /\ file \in [{Id, "other"} -> AppIds \cup {NoId}]
         /\ call \in [Servers \cup {App} -> File!Calls \cup {File!NoCall}]
         /\ loaded \in [Servers \cup {App} ->
                          [{Id, "other"} -> AppIds \cup {NoId}]]
BY DEF File!TypeOK, File!Contents, Id

\* One step of a call keeps what is in the file, in memory and on the way.
LEMMA BusyKeeps ==
  ASSUME File!TypeOK, Kept, NEW u \in Servers \cup {App}, File!Busy(u),
         installedAppId' = installedAppId
  PROVE  Kept'
<1> USE FileTypes, NoIdVouched DEF Kept, Id, IsVouched
<1> USE DEF File!At, File!Goto
<1>1. CASE File!Lock(u)
  BY <1>1 DEF File!Lock, Vouched
<1>2. CASE File!Load(u)
  <2>1. loaded' = [loaded EXCEPT ![u] = file] /\ UNCHANGED <<file, call>>
    BY <1>2 DEF File!Load
  <2> QED
    BY <2>1 DEF Vouched
<1>3. CASE File!Open(u)
  BY <1>3 DEF File!Open, File!Empty, Vouched
<1>4. CASE File!OpenFails(u) \/ File!WriteFails(u)
  BY <1>4 DEF File!OpenFails, File!WriteFails, Vouched
<1>5. CASE File!Write(u)
  BY <1>5 DEF File!Write, Vouched
<1>6. CASE File!Return(u)
  BY <1>6 DEF File!Return, File!Empty, File!NoCall, Vouched
<1> QED
  BY <1>1, <1>2, <1>3, <1>4, <1>5, <1>6 DEF File!Busy

LEMMA InstallKeeps ==
  ASSUME Staged, File!TypeOK, Kept, NEW t \in Servers, Install(t)
  PROVE  Kept'
<1>1. /\ installedAppId' = request[t].app
      /\ call' = [call EXCEPT ![t] = [do |-> "set", key |-> Id,
                                      value |-> request[t].app]]
      /\ UNCHANGED <<file, loaded>>
  BY DEF Install, Storage!Begin, Id
<1>2. IsVouched(request[t].app)
  BY VerifiedIsVouched
<1> QED
  BY <1>1, <1>2, FileTypes DEF Kept, Id, IsVouched, Vouched

LEMMA UninstallKeeps ==
  ASSUME File!TypeOK, Kept, NEW t \in Servers, Uninstall(t)
  PROVE  Kept'
<1>1. /\ installedAppId' = NoId
      /\ call' = [call EXCEPT ![t] = [do |-> "remove", key |-> Id,
                                      value |-> NoId]]
      /\ UNCHANGED <<file, loaded>>
  BY DEF Uninstall, Storage!Begin, Id
<1> QED
  BY <1>1, NoIdVouched, FileTypes DEF Kept, Id, IsVouched, Vouched

LEMMA AppKeeps ==
  ASSUME File!TypeOK, Kept, AppCall
  PROVE  Kept'
<1>1. PICK c \in AppCalls : Storage!Begin(App, c)
  BY DEF AppCall
<1>2. c.key = "other" /\ App \notin Servers
  BY AppCallsAssumption, AppIdsAssumption
<1>3. /\ call' = [call EXCEPT ![App] = c]
      /\ UNCHANGED <<file, loaded, installedAppId>>
  BY <1>1 DEF Storage!Begin, AppCall, vars
<1> QED
  BY <1>2, <1>3, FileTypes DEF Kept, Id, IsVouched, Vouched

LEMMA CrashKeeps ==
  ASSUME File!TypeOK, Kept, CrashAndRestart
  PROVE  Kept'
<1>1. /\ installedAppId' = file[Id] /\ file' = file
      /\ call' = [u \in Servers \cup {App} |-> File!NoCall]
      /\ loaded' = [u \in Servers \cup {App} |-> File!Empty]
  BY SameFile DEF CrashAndRestart, File!Crash, Id
<1> QED
  BY <1>1, NoIdVouched DEF Kept, Id, IsVouched, Vouched, File!NoCall, File!Empty

OInv == KInv /\ File!IInv /\ Kept

LEMMA IdsStep == OInv /\ [ServiceNext]_serviceVars => OInv'
<1> SUFFICES ASSUME OInv, [ServiceNext]_serviceVars PROVE OInv'
  OBVIOUS
<1>1. KInv' /\ File!IInv'
  BY KeysStep, FileStep, File!Inductive DEF OInv
<1>2. Staged /\ File!TypeOK /\ Kept
  BY DEF OInv, KInv, File!IInv
<1>3. ASSUME UNCHANGED <<storageVars, installedAppId>>
      PROVE  Kept'
  BY <1>2, <1>3 DEF storageVars, Kept, IsVouched, Vouched
<1>4. ASSUME NEW t \in Servers, Handle(t)
      PROVE  Kept' \/ UNCHANGED <<storageVars, installedAppId>>
  BY <1>2, <1>4, InstallKeeps, UninstallKeeps
     DEF Handle, Arrive, Verifying, Refuse, Acknowledge
<1>5. ASSUME NEW u \in Servers \cup {App}, StorageStep(u)
      PROVE  Kept'
  BY <1>2, <1>5, BusyKeeps, SameFile DEF StorageStep
<1>6. ASSUME AppCall PROVE Kept'
  BY <1>2, <1>6, AppKeeps
<1>7. ASSUME CrashAndRestart PROVE Kept'
  BY <1>2, <1>7, CrashKeeps
<1>8. ASSUME World PROVE UNCHANGED <<storageVars, installedAppId>>
  BY <1>8 DEF World
<1>9. Kept'
  BY <1>3, <1>4, <1>5, <1>6, <1>7, <1>8 DEF ServiceNext, serviceVars
<1> QED
  BY <1>1, <1>9 DEF OInv

LEMMA InitIds == ServiceInit => OInv
<1> SUFFICES ASSUME ServiceInit PROVE OInv
  OBVIOUS
<1>1. KInv /\ File!IInv
  BY InitKeys, FileInit, File!InitTyped DEF ServiceInit
<1>2. /\ installedAppId = NoId /\ file[Id] = NoId
      /\ call = [u \in Servers \cup {App} |-> File!NoCall]
      /\ loaded = [u \in Servers \cup {App} |-> File!Empty]
  BY FileInit DEF ServiceInit, Storage!Empty, File!Init, Id
<1>3. Kept
  BY <1>2, NoIdVouched DEF Kept, Id, IsVouched, File!NoCall, File!Empty
<1> QED
  BY <1>1, <1>3 DEF OInv

\* Whatever threads, writes and crashes interleave, an id that no key vouches
\* for reaches neither memory nor the file (src/webhook.cpp, src/storage.cpp).
THEOREM IdsAreVouched == ServiceSpec => []OnlyVouchedIds
<1>1. OInv => OnlyVouchedIds
  BY DEF OInv, Kept, OnlyVouchedIds, IsVouched
<1> QED
  BY <1>1, InitIds, IdsStep, PTL DEF ServiceSpec
=============================================================================
