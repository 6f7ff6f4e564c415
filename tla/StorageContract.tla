---------------------------- MODULE StorageContract ----------------------------
(***************************************************************************)
(* What an IStorageProvider promises its users (include/storage.h): every  *)
(* call takes effect at once, somewhere between its start and its return.  *)
(* A write that fails or is cut short by a crash may cost everything that  *)
(* was stored, because the file provider rewrites its file in place; what  *)
(* is stored is safe while nobody writes.                                  *)
(***************************************************************************)
CONSTANTS
  Users,    \* threads that call the provider
  Keys,
  Values,
  NoValue   \* an empty optional

VARIABLES
  values,   \* what is stored
  pending,  \* the call of each user that has not taken effect
  result    \* what the call of each user is about to return

vars == <<values, pending, result>>

Contents == [Keys -> Values \cup {NoValue}]
Empty == [k \in Keys |-> NoValue]

\* A call; get and remove carry no value.
Calls ==
  [do : {"get", "remove"}, key : Keys, value : {NoValue}]
    \cup [do : {"set"}, key : Keys, value : Values]
NoCall == [do |-> "none", key |-> "none", value |-> NoValue]

\* What a user can have been told: a value, or whether the write succeeded.
Got(v) == [did |-> "get", ok |-> TRUE, value |-> v]
Written(ok) == [did |-> "write", ok |-> ok, value |-> NoValue]
NoResult == [did |-> "none", ok |-> FALSE, value |-> NoValue]

Init ==
  /\ values \in Contents
  /\ pending = [u \in Users |-> NoCall]
  /\ result = [u \in Users |-> NoResult]

\* The contents after a call.
After(call, contents) ==
  IF call.do = "get" THEN contents
  ELSE [contents EXCEPT ![call.key] = call.value]

Call(u, call) ==
  /\ pending[u] = NoCall /\ result[u] = NoResult
  /\ pending' = [pending EXCEPT ![u] = call]
  /\ result' = result /\ values' = values

Effect(u) ==
  /\ pending[u] # NoCall /\ pending' = [pending EXCEPT ![u] = NoCall]
  /\ values' = After(pending[u], values)
  /\ result' = [result EXCEPT ![u] =
                  IF pending[u].do = "get" THEN Got(values[pending[u].key])
                  ELSE Written(TRUE)]

\* A write that fails returns FALSE; what was stored stays, or all of it goes.
Fail(u) ==
  /\ pending[u].do \in {"set", "remove"}
  /\ pending' = [pending EXCEPT ![u] = NoCall]
  /\ values' \in {values, Empty}
  /\ result' = [result EXCEPT ![u] = Written(FALSE)]

Return(u) ==
  /\ result[u] # NoResult /\ result' = [result EXCEPT ![u] = NoResult]
  /\ UNCHANGED <<values, pending>>

\* The process dies; only a write under way can be the end of the contents.
Crash ==
  /\ pending' = [u \in Users |-> NoCall]
  /\ result' = [u \in Users |-> NoResult]
  /\ \/ values' = values
     \/ /\ \E u \in Users : pending[u].do \in {"set", "remove"}
        /\ values' = Empty

Next ==
  \/ \E u \in Users :
       Effect(u) \/ Fail(u) \/ Return(u) \/ \E call \in Calls : Call(u, call)
  \/ Crash

Spec == Init /\ [][Next]_vars
=============================================================================
