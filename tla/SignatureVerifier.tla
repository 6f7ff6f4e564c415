--------------------------- MODULE SignatureVerifier ---------------------------
(***************************************************************************)
(* DefaultWebhookSignatureVerifier (src/webhook_signature.cpp): verify()   *)
(* checks a request, and resolveKey() gets the public key for it from a    *)
(* cache that the server's threads share, or from the key server with the  *)
(* cache unlocked.  The cryptography is abstract: a key is the number of   *)
(* its issue, and a signature is right if its issue is that of the key.    *)
(* Time is counted in ticks.                                               *)
(***************************************************************************)
EXTENDS Integers

CONSTANTS
  Servers,        \* threads that verify requests
  KeyIds,
  Requests,       \* the requests that arrive
  NoRequest,
  PerSecond,      \* ticks in a second
  MaxClockSkew,   \* the limit for the Date header in seconds, 0 for none
  KeyCacheTtl,    \* in ticks
  MaxClock,       \* bound: ticks
  MaxIssues       \* bound: issues of a key

ASSUME RequestsAssumption ==
  /\ NoRequest \notin Requests
  /\ \A r \in Requests : r.keyId \in KeyIds /\ r.date \in Int /\ r.by \in Nat
ASSUME TimesAssumption ==
  /\ PerSecond \in Nat \ {0} /\ MaxClockSkew \in Nat /\ KeyCacheTtl \in Nat
  /\ MaxClock \in Nat /\ MaxIssues \in Nat \ {0}

VARIABLES
  clock,
  issue,      \* the key server's current key for each id
  retired,    \* history: when each issue of a key was replaced
  cache,      \* _cache: issue and expiry for each id, issue 0 for no entry
  stage,      \* progress of each thread's verify()
  request,    \* its request
  now,        \* the time that resolveKey() took first
  pem         \* the key it fetched

vars == <<clock, issue, retired, cache, stage, request, now, pem>>

NoEntry == [issue |-> 0, expiry |-> 0]

Init ==
  /\ clock = 0 /\ issue = [k \in KeyIds |-> 1]
  /\ retired = [k \in KeyIds |-> [v \in 1 .. MaxIssues |-> 0]]
  /\ cache = [k \in KeyIds |-> NoEntry]
  /\ stage = [t \in Servers |-> "idle"]
  /\ request = [t \in Servers |-> NoRequest]
  /\ now = [t \in Servers |-> 0] /\ pem = [t \in Servers |-> 0]

At(t, s) == stage[t] = s
Goto(t, s) == stage' = [stage EXCEPT ![t] = s]

\* A request has a usable Authorization or Signature header ...
HeaderUsable(r) == r.header = "ok" /\ r.algorithm \in {"none", "rsa-sha256"}

\* ... a body that its Digest header confirms, where there is one or one is
\* signed ...
BodyConfirmed(r) == r.digest = "right" \/ (r.digest = "missing" /\ ~r.digestSigned)

\* ... a Date near enough, to the whole second, if that is asked for ...
Distance(a, b) == IF a > b THEN a - b ELSE b - a
DateNear(r) ==
  MaxClockSkew > 0 =>
    \/ r.dated = "missing"
    \/ r.dated = "ok" /\ Distance(clock, r.date) \div PerSecond <= MaxClockSkew

\* ... all headers that are signed, and a signature in base64.
Signable(r) == r.complete /\ r.base64

\* verify(), up to the key; resolveKey() takes the time before anything else ...
Receive(t, r) ==
  /\ At(t, "idle") /\ request' = [request EXCEPT ![t] = r]
  /\ now' = [now EXCEPT ![t] = clock]
  /\ Goto(t, IF /\ HeaderUsable(r) /\ BodyConfirmed(r) /\ DateNear(r)
                /\ Signable(r)
             THEN "lookup" ELSE "rejected")
  /\ UNCHANGED <<clock, issue, retired, cache, pem>>

\* Variant of Verdict that forgets to look at the result.
VerdictNone(t, key) == "verified"

\* rsaSha256Verify() with a key.
Verdict(t, key) == IF request[t].by = key THEN "verified" ELSE "rejected"

\* Variant of Usable that trusts an entry for good.
UsableForever(t, entry) == entry.issue # 0

Usable(t, entry) == entry.issue # 0 /\ entry.expiry > now[t]

\* ... and looks into the cache.
Lookup(t) ==
  /\ At(t, "lookup")
  /\ LET entry == cache[request[t].keyId] IN
     Goto(t, IF Usable(t, entry) THEN Verdict(t, entry.issue) ELSE "fetch")
  /\ UNCHANGED <<clock, issue, retired, cache, request, now, pem>>

\* The key server answers; two threads may ask at once.
Fetch(t) ==
  /\ At(t, "fetch") /\ pem' = [pem EXCEPT ![t] = issue[request[t].keyId]]
  /\ Goto(t, "store")
  /\ UNCHANGED <<clock, issue, retired, cache, request, now>>

\* No answer, or an empty one, is not cached.
FetchFails(t) ==
  /\ At(t, "fetch") /\ Goto(t, "rejected")
  /\ UNCHANGED <<clock, issue, retired, cache, request, now, pem>>

\* Variant of Expiry that counts the lifetime from the answer on.
ExpiryFromAnswer(t) == clock + KeyCacheTtl

\* The lifetime of a key counts from before its fetch.
Expiry(t) == now[t] + KeyCacheTtl

Store(t) ==
  /\ At(t, "store") /\ Goto(t, Verdict(t, pem[t]))
  /\ cache' = [cache EXCEPT ![request[t].keyId] =
                 [issue |-> pem[t], expiry |-> Expiry(t)]]
  /\ UNCHANGED <<clock, issue, retired, request, now, pem>>

\* verify() returns.
Return(t) ==
  /\ stage[t] \in {"verified", "rejected"} /\ Goto(t, "idle")
  /\ request' = [request EXCEPT ![t] = NoRequest]
  /\ now' = [now EXCEPT ![t] = 0] /\ pem' = [pem EXCEPT ![t] = 0]
  /\ UNCHANGED <<clock, issue, retired, cache>>

Verify(t) ==
  Lookup(t) \/ Fetch(t) \/ FetchFails(t) \/ Store(t)

Tick ==
  /\ clock < MaxClock /\ clock' = clock + 1
  /\ UNCHANGED <<issue, retired, cache, stage, request, now, pem>>

\* The key server replaces a key.
Rotate(k) ==
  /\ issue[k] < MaxIssues /\ issue' = [issue EXCEPT ![k] = @ + 1]
  /\ retired' = [retired EXCEPT ![k][issue[k]] = clock]
  /\ UNCHANGED <<clock, cache, stage, request, now, pem>>

\* The process dies, and its cache with it.
Restart ==
  /\ cache' = [k \in KeyIds |-> NoEntry]
  /\ stage' = [t \in Servers |-> "idle"]
  /\ request' = [t \in Servers |-> NoRequest]
  /\ now' = [t \in Servers |-> 0] /\ pem' = [t \in Servers |-> 0]
  /\ UNCHANGED <<clock, issue, retired>>

Next ==
  \/ \E t \in Servers : Verify(t) \/ Return(t) \/ \E r \in Requests : Receive(t, r)
  \/ Tick \/ Restart \/ \E k \in KeyIds : Rotate(k)

Spec == Init /\ [][Next]_vars

-----------------------------------------------------------------------------
(* Properties                                                               *)

Stages == {"idle", "lookup", "fetch", "store", "verified", "rejected"}
Entries == [issue : 0 .. MaxIssues, expiry : Nat]

TypeOK ==
  /\ clock \in 0 .. MaxClock /\ issue \in [KeyIds -> 1 .. MaxIssues]
  /\ retired \in [KeyIds -> [1 .. MaxIssues -> 0 .. MaxClock]]
  /\ cache \in [KeyIds -> Entries] /\ stage \in [Servers -> Stages]
  /\ request \in [Servers -> Requests \cup {NoRequest}]
  /\ \A t \in Servers : stage[t] # "idle" => request[t] \in Requests
  /\ now \in [Servers -> 0 .. MaxClock] /\ pem \in [Servers -> 0 .. MaxIssues]

\* A signature by a key that the server has replaced is not accepted by a
\* verification that starts KeyCacheTtl after the replacement, whatever threads
\* looked up, fetched and stored keys meanwhile and in whatever order
\* (webhook_signature.cpp:509-527).
ReplacedKeyExpires ==
  \A t \in Servers :
    At(t, "verified") =>
      LET r == request[t]
          age == now[t] - retired[r.keyId][r.by]
      IN r.by < issue[r.keyId] => age <= 0 \/ age < KeyCacheTtl
=============================================================================
