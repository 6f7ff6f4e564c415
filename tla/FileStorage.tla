------------------------------ MODULE FileStorage ------------------------------
(***************************************************************************)
(* FileStorageProvider (src/storage.cpp): a map of strings in one JSON     *)
(* file that every call reads completely and every change rewrites in      *)
(* place, under the mutex of the provider.  The file outlives the process; *)
(* a file that is missing, or no JSON object, counts as empty.             *)
(***************************************************************************)
EXTENDS Naturals

CONSTANTS
  Users,      \* threads that call the provider
  Keys, Values, NoValue,
  MaxFaults   \* bound: writes that fail and crashes

VARIABLES
  file,       \* the values in the file, none of them while it is truncated
  holders,    \* the users that hold _mutex
  step,       \* progress of each user's call
  call,       \* the call of each user
  loaded,     \* what load() returned to it
  result,     \* what the call is about to return
  faults

vars == <<file, holders, step, call, loaded, result, faults>>

Contents == [Keys -> Values \cup {NoValue}]
Empty == [k \in Keys |-> NoValue]
Calls ==
  [do : {"get", "remove"}, key : Keys, value : {NoValue}]
    \cup [do : {"set"}, key : Keys, value : Values]
NoCall == [do |-> "none", key |-> "none", value |-> NoValue]
Got(v) == [did |-> "get", ok |-> TRUE, value |-> v]
Written(ok) == [did |-> "write", ok |-> ok, value |-> NoValue]
NoResult == [did |-> "none", ok |-> FALSE, value |-> NoValue]

Init ==
  /\ file \in Contents /\ holders = {}
  /\ step = [u \in Users |-> "idle"] /\ call = [u \in Users |-> NoCall]
  /\ loaded = [u \in Users |-> Empty]
  /\ result = [u \in Users |-> NoResult] /\ faults = 0

At(u, s) == step[u] = s
Goto(u, s) == step' = [step EXCEPT ![u] = s]

\* getValue(), setValue() or removeValue() is called.
Begin(u, c) ==
  /\ At(u, "idle") /\ Goto(u, "lock") /\ call' = [call EXCEPT ![u] = c]
  /\ UNCHANGED <<file, holders, loaded, result, faults>>

\* Variant of Lock that does not wait.
LockAtOnce(u) ==
  /\ At(u, "lock") /\ holders' = holders \cup {u} /\ Goto(u, "load")
  /\ UNCHANGED <<file, call, loaded, result, faults>>

Lock(u) ==
  /\ At(u, "lock") /\ holders = {} /\ holders' = {u} /\ Goto(u, "load")
  /\ UNCHANGED <<file, call, loaded, result, faults>>

\* Every call starts with load(); removeValue() of a missing key saves nothing.
Load(u) ==
  /\ At(u, "load") /\ loaded' = [loaded EXCEPT ![u] = file]
  /\ LET missing == call[u].do = "remove" /\ file[call[u].key] = NoValue IN
     /\ Goto(u, IF call[u].do = "get" \/ missing THEN "return" ELSE "open")
     /\ result' = CASE call[u].do = "get" ->
                         [result EXCEPT ![u] = Got(file[call[u].key])]
                    [] missing -> [result EXCEPT ![u] = Written(TRUE)]
                    [] OTHER -> result
  /\ UNCHANGED <<file, holders, call, faults>>

\* save(): the ofstream truncates the file ...
Open(u) ==
  /\ At(u, "open") /\ file' = Empty /\ Goto(u, "write")
  /\ UNCHANGED <<holders, call, loaded, result, faults>>

\* ... or cannot open it, and leaves it alone.
OpenFails(u) ==
  /\ At(u, "open") /\ faults < MaxFaults /\ faults' = faults + 1
  /\ result' = [result EXCEPT ![u] = Written(FALSE)] /\ Goto(u, "return")
  /\ UNCHANGED <<file, holders, call, loaded>>

\* Variant of Write that saves the one value.
WriteOnlyKey(u) ==
  /\ At(u, "write")
  /\ file' = [Empty EXCEPT ![call[u].key] = call[u].value]
  /\ result' = [result EXCEPT ![u] = Written(TRUE)] /\ Goto(u, "return")
  /\ UNCHANGED <<holders, call, loaded, faults>>

\* The whole map is written, with the one key changed.
Write(u) ==
  /\ At(u, "write")
  /\ file' = [loaded[u] EXCEPT ![call[u].key] = call[u].value]
  /\ result' = [result EXCEPT ![u] = Written(TRUE)] /\ Goto(u, "return")
  /\ UNCHANGED <<holders, call, loaded, faults>>

\* The disk is full, or dump() throws on a value that is no UTF-8: the file is
\* left truncated.
WriteFails(u) ==
  /\ At(u, "write") /\ faults < MaxFaults /\ faults' = faults + 1
  /\ result' = [result EXCEPT ![u] = Written(FALSE)] /\ Goto(u, "return")
  /\ UNCHANGED <<file, holders, call, loaded>>

\* The lock_guard goes with the call.
Return(u) ==
  /\ At(u, "return") /\ holders' = holders \ {u} /\ Goto(u, "idle")
  /\ call' = [call EXCEPT ![u] = NoCall] /\ loaded' = [loaded EXCEPT ![u] = Empty]
  /\ result' = [result EXCEPT ![u] = NoResult]
  /\ UNCHANGED <<file, faults>>

Busy(u) ==
  \/ Lock(u) \/ Load(u) \/ Open(u) \/ OpenFails(u) \/ Write(u)
  \/ WriteFails(u) \/ Return(u)

\* The process dies and is started again with the file as it is.
Crash ==
  /\ faults < MaxFaults /\ faults' = faults + 1 /\ holders' = {}
  /\ step' = [u \in Users |-> "idle"] /\ call' = [u \in Users |-> NoCall]
  /\ loaded' = [u \in Users |-> Empty]
  /\ result' = [u \in Users |-> NoResult]
  /\ UNCHANGED <<file>>

Next == Crash \/ \E u \in Users : Busy(u) \/ \E c \in Calls : Begin(u, c)

Spec == Init /\ [][Next]_vars

-----------------------------------------------------------------------------
(* Properties                                                               *)

Locked == {"load", "open", "write", "return"}

\* Types; the mutex is held from load() to the return, so that a file is
\* truncated for one writer only.
TypeOK ==
  /\ file \in Contents
  /\ holders \subseteq Users /\ \A u, v \in holders : u = v
  /\ step \in [Users -> {"idle", "lock"} \cup Locked]
  /\ \A u \in Users : step[u] \in Locked <=> u \in holders
  /\ call \in [Users -> Calls \cup {NoCall}]
  /\ \A u \in Users : step[u] = "idle" <=> call[u] = NoCall
  /\ loaded \in [Users -> Contents] /\ faults \in Nat
  /\ result \in [Users -> [did : {"get", "write", "none"}, ok : BOOLEAN,
                           value : Values \cup {NoValue}]]
  /\ \A u \in Users : result[u] # NoResult <=> At(u, "return")

\* A call counts as done from the moment it read or wrote the file; while the
\* file is truncated, what is stored is what its writer has loaded.
Stored ==
  IF \E u \in Users : At(u, "write")
  THEN loaded[CHOOSE u \in Users : At(u, "write")] ELSE file

Contract == INSTANCE StorageContract WITH
  values <- Stored,
  pending <- [u \in Users |->
                IF step[u] \in {"lock", "load", "open", "write"} THEN call[u]
                ELSE NoCall]

\* The file provider keeps the contract: calls of several threads take effect
\* one at a time, each on all that the earlier ones stored, a failed or
\* interrupted write loses all or nothing, and nothing else loses anything
\* (storage.cpp:23-91).
ImplementsContract == Contract!Spec
=============================================================================
