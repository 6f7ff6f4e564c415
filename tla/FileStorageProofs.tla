--------------------------- MODULE FileStorageProofs ---------------------------
(***************************************************************************)
(* FileStorage implements StorageContract, for any sets of users, keys and *)
(* values and any number of failing writes and crashes.  The argument: the *)
(* mutex lets one user at a time be between load() and the return, so that *)
(* what this user has loaded is what the file holds until it opens it.     *)
(***************************************************************************)
EXTENDS FileStorage, TLAPS

Writes == {"set", "remove"}

\* What a user between load() and the end of its write has loaded and called,
\* and what is in the file meanwhile.
Fresh ==
  /\ \A u \in Users : At(u, "open") => loaded[u] = file
  /\ \A u \in Users : At(u, "write") => file = Empty
  /\ \A u \in Users : step[u] \in {"open", "write"} => call[u].do \in Writes

IInv == TypeOK /\ Fresh

-----------------------------------------------------------------------------

LEMMA EmptyTyped == Empty \in Contents
BY DEF Empty, Contents

LEMMA InitTyped == Init => IInv
<1> SUFFICES ASSUME Init PROVE IInv
  OBVIOUS
<1>1. TypeOK
  BY EmptyTyped DEF Init, TypeOK, Locked, At, NoResult
<1>2. Fresh
  BY <1>1 DEF Init, Fresh, At
<1> QED
  BY <1>1, <1>2 DEF IInv

LEMMA CallFacts ==
  ASSUME NEW c \in Calls
  PROVE  /\ c.do \in {"get", "set", "remove"} /\ c.key \in Keys
         /\ c.value \in Values \cup {NoValue} /\ c # NoCall
         /\ c.do # "set" => c.value = NoValue
BY DEF Calls, NoCall

LEMMA SaveTyped ==
  ASSUME NEW contents \in Contents, NEW c \in Calls
  PROVE  [contents EXCEPT ![c.key] = c.value] \in Contents
BY CallFacts DEF Contents

\* The results, apart from those of nobody.
LEMMA ResultFacts ==
  /\ \A v : Got(v) # NoResult
  /\ \A ok : Written(ok) # NoResult
BY DEF Got, Written, NoResult

\* The user at work is the one that holds the mutex, and has called.
LEMMA AtWork ==
  ASSUME TypeOK, NEW u \in Users, step[u] \in Locked
  PROVE  /\ holders = {u} /\ call[u] \in Calls
         /\ \A v \in Users : step[v] \in Locked => v = u
BY DEF TypeOK, Locked

-----------------------------------------------------------------------------
(* The invariant                                                            *)

LEMMA BeginTyped ==
  ASSUME IInv, NEW u \in Users, NEW c \in Calls, Begin(u, c)
  PROVE  IInv'
<1> USE DEF Begin, At, Goto, Locked, IInv
<1>1. TypeOK'
  BY CallFacts DEF TypeOK
<1>2. Fresh'
  BY DEF TypeOK, Fresh, Empty
<1> QED
  BY <1>1, <1>2

LEMMA LockTyped ==
  ASSUME IInv, NEW u \in Users, Lock(u)
  PROVE  IInv'
<1> USE DEF Lock, At, Goto, Locked, IInv
<1>1. TypeOK'
  BY DEF TypeOK
<1>2. Fresh'
  BY DEF TypeOK, Fresh, Empty
<1> QED
  BY <1>1, <1>2

LEMMA LoadTyped ==
  ASSUME IInv, NEW u \in Users, Load(u)
  PROVE  IInv'
<1> USE DEF Locked, IInv
<1> DEFINE c == call[u]
           missing == c.do = "remove" /\ file[c.key] = NoValue
<1>a. /\ step[u] = "load" /\ loaded' = [loaded EXCEPT ![u] = file]
      /\ UNCHANGED <<file, holders, call, faults>>
  BY DEF Load, At
<1>1. c \in Calls /\ \A v \in Users : step[v] \in Locked => v = u
  BY <1>a, AtWork
<1>2. file[c.key] \in Values \cup {NoValue}
  BY <1>1, CallFacts DEF TypeOK, Contents
<1>3. CASE c.do = "get"
  <2>1. result' = [result EXCEPT ![u] = Got(file[c.key])]
        /\ step' = [step EXCEPT ![u] = "return"]
    BY <1>3 DEF Load, Goto
  <2>2. TypeOK'
    BY <1>a, <1>1, <1>2, <2>1, ResultFacts DEF TypeOK, Got, At
  <2>3. Fresh'
    BY <1>a, <1>1, <2>1 DEF TypeOK, Fresh, Empty, At
  <2> QED
    BY <2>2, <2>3
<1>4. CASE c.do # "get" /\ missing
  <2>1. result' = [result EXCEPT ![u] = Written(TRUE)]
        /\ step' = [step EXCEPT ![u] = "return"]
    BY <1>4 DEF Load, Goto
  <2>2. TypeOK'
    BY <1>a, <1>1, <1>2, <2>1, ResultFacts DEF TypeOK, Written, At
  <2>3. Fresh'
    BY <1>a, <1>1, <2>1 DEF TypeOK, Fresh, Empty, At
  <2> QED
    BY <2>2, <2>3
<1>5. CASE c.do # "get" /\ ~missing
  <2>1. result' = result /\ step' = [step EXCEPT ![u] = "open"]
    BY <1>5 DEF Load, Goto
  <2>2. TypeOK'
    BY <1>a, <1>1, <2>1 DEF TypeOK, At
  <2>3. Fresh'
    BY <1>a, <1>1, <1>5, <2>1, CallFacts DEF TypeOK, Fresh, Empty, Writes, At
  <2> QED
    BY <2>2, <2>3
<1> QED
  BY <1>3, <1>4, <1>5

LEMMA OpenTyped ==
  ASSUME IInv, NEW u \in Users, Open(u) \/ OpenFails(u)
  PROVE  IInv'
<1> USE DEF Open, OpenFails, At, Goto, Locked, IInv
<1>1. \A v \in Users : step[v] \in Locked => v = u
  BY AtWork
<1>2. CASE Open(u)
  <2>1. TypeOK'
    BY <1>1, <1>2, EmptyTyped DEF TypeOK
  <2>2. Fresh'
    BY <1>1, <1>2 DEF TypeOK, Fresh, Empty
  <2> QED
    BY <2>1, <2>2
<1>3. CASE OpenFails(u)
  <2>1. TypeOK'
    BY <1>1, <1>3, ResultFacts DEF TypeOK, Written
  <2>2. Fresh'
    BY <1>1, <1>3 DEF TypeOK, Fresh, Empty
  <2> QED
    BY <2>1, <2>2
<1> QED
  BY <1>2, <1>3

LEMMA WriteTyped ==
  ASSUME IInv, NEW u \in Users, Write(u) \/ WriteFails(u)
  PROVE  IInv'
<1> USE DEF Write, WriteFails, At, Goto, Locked, IInv
<1>1. call[u] \in Calls /\ \A v \in Users : step[v] \in Locked => v = u
  BY AtWork
<1>2. CASE Write(u)
  <2>1. file' \in Contents
    BY <1>1, <1>2, SaveTyped DEF TypeOK
  <2>2. TypeOK'
    BY <1>1, <1>2, <2>1, ResultFacts DEF TypeOK, Written
  <2>3. Fresh'
    BY <1>1, <1>2 DEF TypeOK, Fresh, Empty
  <2> QED
    BY <2>2, <2>3
<1>3. CASE WriteFails(u)
  <2>1. TypeOK'
    BY <1>1, <1>3, ResultFacts DEF TypeOK, Written
  <2>2. Fresh'
    BY <1>1, <1>3 DEF TypeOK, Fresh, Empty
  <2> QED
    BY <2>1, <2>2
<1> QED
  BY <1>2, <1>3

LEMMA ReturnTyped ==
  ASSUME IInv, NEW u \in Users, Return(u)
  PROVE  IInv'
<1> USE DEF Return, At, Goto, Locked, IInv
<1>1. \A v \in Users : step[v] \in Locked => v = u
  BY AtWork
<1>2. TypeOK'
  BY <1>1, EmptyTyped DEF TypeOK, NoResult
<1>3. Fresh'
  BY <1>1 DEF TypeOK, Fresh, Empty
<1> QED
  BY <1>2, <1>3

LEMMA CrashTyped ==
  ASSUME IInv, Crash
  PROVE  IInv'
<1> USE DEF Crash, At, Locked, IInv
<1>1. TypeOK'
  BY EmptyTyped DEF TypeOK, NoResult
<1>2. Fresh'
  BY DEF TypeOK, Fresh
<1> QED
  BY <1>1, <1>2

LEMMA Inductive == IInv /\ [Next]_vars => IInv'
<1> SUFFICES ASSUME IInv, [Next]_vars PROVE IInv'
  OBVIOUS
<1>1. CASE UNCHANGED vars
  BY <1>1 DEF vars, IInv, TypeOK, Fresh, At, Empty
<1>2. CASE Next
  BY <1>2, BeginTyped, LockTyped, LoadTyped, OpenTyped, WriteTyped, ReturnTyped,
     CrashTyped DEF Next, Busy
<1> QED
  BY <1>1, <1>2

\* Types hold, for every number of threads, and a file is truncated for one
\* writer only.
THEOREM TypeCorrect == Spec => []TypeOK
<1>1. IInv => TypeOK
  BY DEF IInv
<1> QED
  BY <1>1, InitTyped, Inductive, PTL DEF Spec

-----------------------------------------------------------------------------
(* The refinement                                                           *)

\* A call waits until it read or wrote the file.
Waits == {"lock", "load", "open", "write"}
Pending ==
  [u \in Users |-> IF step[u] \in Waits THEN call[u] ELSE NoCall]

LEMMA SameTerms ==
  /\ Contract!Calls = Calls /\ Contract!NoCall = NoCall
  /\ Contract!Empty = Empty /\ Contract!NoResult = NoResult
  /\ \A v : Contract!Got(v) = Got(v)
  /\ \A ok : Contract!Written(ok) = Written(ok)
BY DEF Contract!Calls, Calls, Contract!NoCall, NoCall, Contract!Empty, Empty,
   Contract!NoResult, NoResult, Contract!Got, Got, Contract!Written, Written

\* What is stored is in the memory of the one that writes, or in the file.
LEMMA StoredByWriter ==
  ASSUME TypeOK, NEW u \in Users, At(u, "write")
  PROVE  Stored = loaded[u]
BY AtWork DEF Stored, At, Locked

LEMMA StoredInFile ==
  ASSUME \A u \in Users : ~At(u, "write")
  PROVE  Stored = file
BY DEF Stored

\* The contract's actions in the terms of this module.
LEMMA Mapped ==
  /\ \A u \in Users, c \in Calls :
       /\ Pending[u] = NoCall /\ result[u] = NoResult
       /\ Pending' = [Pending EXCEPT ![u] = c] /\ result' = result
       /\ Stored' = Stored
       => Contract!Call(u, c)
  /\ \A u \in Users :
       /\ Pending[u] # NoCall /\ Pending' = [Pending EXCEPT ![u] = NoCall]
       /\ Stored' = (IF Pending[u].do = "get" THEN Stored
                     ELSE [Stored EXCEPT ![Pending[u].key] = Pending[u].value])
       /\ result' = [result EXCEPT ![u] =
                       IF Pending[u].do = "get" THEN Got(Stored[Pending[u].key])
                       ELSE Written(TRUE)]
       => Contract!Effect(u)
  /\ \A u \in Users :
       /\ Pending[u].do \in Writes
       /\ Pending' = [Pending EXCEPT ![u] = NoCall]
       /\ Stored' \in {Stored, Empty}
       /\ result' = [result EXCEPT ![u] = Written(FALSE)]
       => Contract!Fail(u)
  /\ \A u \in Users :
       /\ result[u] # NoResult /\ result' = [result EXCEPT ![u] = NoResult]
       /\ Pending' = Pending /\ Stored' = Stored
       => Contract!Return(u)
BY SameTerms DEF Contract!Call, Contract!Effect, Contract!Fail, Contract!Return,
   Contract!After, Pending, Waits, Writes

LEMMA BeginMaps ==
  ASSUME IInv, NEW u \in Users, NEW c \in Calls, Begin(u, c)
  PROVE  Contract!Call(u, c)
<1> USE DEF Begin, At, Goto, IInv
<1>1. Pending[u] = NoCall /\ result[u] = NoResult
  BY DEF TypeOK, Pending, Waits
<1>2. Pending' = [Pending EXCEPT ![u] = c]
  BY DEF TypeOK, Pending, Waits
<1>3. Stored' = Stored
  <2>1. \A v \in Users : step'[v] = "write" <=> step[v] = "write"
    BY DEF TypeOK
  <2> QED
    BY <2>1 DEF Stored
<1> QED
  BY <1>1, <1>2, <1>3, Mapped

\* Steps that neither read nor write leave the contract where it is.
LEMMA LockMaps ==
  ASSUME IInv, NEW u \in Users, Lock(u)
  PROVE  UNCHANGED <<Stored, Pending, result>>
<1> USE DEF Lock, At, Goto, IInv
<1>1. \A v \in Users : step'[v] = "write" <=> step[v] = "write"
  BY DEF TypeOK
<1>2. Stored' = Stored
  BY <1>1 DEF Stored
<1>3. Pending' = Pending
  BY DEF TypeOK, Pending, Waits
<1> QED
  BY <1>2, <1>3

LEMMA OpenMaps ==
  ASSUME IInv, NEW u \in Users, Open(u)
  PROVE  UNCHANGED <<Stored, Pending, result>>
<1> USE DEF Open, At, Goto, IInv
<1>1. /\ step'[u] = "write" /\ \A v \in Users : step[v] # "write"
      /\ \A v \in Users : step'[v] = "write" => v = u
  BY AtWork DEF TypeOK, Locked
<1>2. Stored = file /\ loaded[u] = file
  BY <1>1, StoredInFile DEF Fresh
<1>3. Stored' = loaded'[u]
  BY <1>1 DEF Stored
<1>4. Pending' = Pending
  BY DEF TypeOK, Pending, Waits
<1> QED
  BY <1>2, <1>3, <1>4

LEMMA LoadMaps ==
  ASSUME IInv, NEW u \in Users, Load(u)
  PROVE  UNCHANGED <<Stored, Pending, result>> \/ Contract!Effect(u)
<1> USE DEF At, Goto, IInv
<1> DEFINE c == call[u]
           missing == c.do = "remove" /\ file[c.key] = NoValue
<1>1. /\ step[u] = "load" /\ UNCHANGED <<file, holders, call, faults>>
      /\ c \in Calls /\ \A v \in Users : step[v] # "write"
      /\ \A v \in Users : step'[v] # "write"
  BY AtWork DEF Load, TypeOK, Locked
<1>2. Stored = file /\ Stored' = file
  BY <1>1 DEF Stored
<1>3. Pending[u] = c /\ c # NoCall
  BY <1>1, CallFacts DEF Pending, Waits
<1>4. CASE c.do = "get"
  <2>1. /\ result' = [result EXCEPT ![u] = Got(file[c.key])]
        /\ step' = [step EXCEPT ![u] = "return"]
    BY <1>4 DEF Load
  <2>2. Pending' = [Pending EXCEPT ![u] = NoCall]
    BY <1>1, <2>1 DEF TypeOK, Pending, Waits
  <2> QED
    BY <1>2, <1>3, <1>4, <2>1, <2>2, Mapped
<1>5. CASE c.do # "get" /\ missing
  <2>1. /\ result' = [result EXCEPT ![u] = Written(TRUE)]
        /\ step' = [step EXCEPT ![u] = "return"]
    BY <1>5 DEF Load
  <2>2. Pending' = [Pending EXCEPT ![u] = NoCall]
    BY <1>1, <2>1 DEF TypeOK, Pending, Waits
  <2>3. file = [file EXCEPT ![c.key] = c.value]
    BY <1>1, <1>5, CallFacts DEF TypeOK, Contents
  <2> QED
    BY <1>2, <1>3, <1>5, <2>1, <2>2, <2>3, Mapped
<1>6. CASE c.do # "get" /\ ~missing
  <2>1. result' = result /\ step' = [step EXCEPT ![u] = "open"]
    BY <1>6 DEF Load
  <2>2. Pending' = Pending
    BY <1>1, <2>1 DEF TypeOK, Pending, Waits
  <2> QED
    BY <1>2, <2>1, <2>2
<1> QED
  BY <1>4, <1>5, <1>6

LEMMA OpenFailsMaps ==
  ASSUME IInv, NEW u \in Users, OpenFails(u)
  PROVE  Contract!Fail(u)
<1> USE DEF OpenFails, At, Goto, IInv
<1>1. /\ \A v \in Users : step[v] # "write" /\ step'[v] # "write"
      /\ call[u].do \in Writes
  BY AtWork DEF TypeOK, Locked, Fresh
<1>2. Stored' = Stored
  BY <1>1 DEF Stored
<1>3. Pending[u] = call[u] /\ Pending' = [Pending EXCEPT ![u] = NoCall]
  BY DEF TypeOK, Pending, Waits
<1> QED
  BY <1>1, <1>2, <1>3, Mapped

LEMMA WriteMaps ==
  ASSUME IInv, NEW u \in Users, Write(u)
  PROVE  Contract!Effect(u)
<1> USE DEF Write, At, Goto, IInv
<1>1. /\ call[u] \in Calls /\ call[u].do \in Writes
      /\ \A v \in Users : step'[v] # "write"
  BY AtWork DEF TypeOK, Locked, Fresh
<1>2. Stored = loaded[u] /\ Stored' = file'
  <2>1. Stored = loaded[u]
    BY StoredByWriter
  <2> QED
    BY <1>1, <2>1 DEF Stored
<1>3. Pending[u] = call[u] /\ Pending' = [Pending EXCEPT ![u] = NoCall]
  BY DEF TypeOK, Pending, Waits
<1>4. call[u] # NoCall /\ call[u].do # "get"
  BY <1>1, CallFacts DEF Writes
<1> QED
  BY <1>2, <1>3, <1>4, Mapped

LEMMA WriteFailsMaps ==
  ASSUME IInv, NEW u \in Users, WriteFails(u)
  PROVE  Contract!Fail(u)
<1> USE DEF WriteFails, At, Goto, IInv
<1>1. /\ call[u].do \in Writes /\ file = Empty
      /\ \A v \in Users : step'[v] # "write"
  BY AtWork DEF TypeOK, Locked, Fresh
<1>2. Stored' = Empty
  BY <1>1 DEF Stored
<1>3. Pending[u] = call[u] /\ Pending' = [Pending EXCEPT ![u] = NoCall]
  BY DEF TypeOK, Pending, Waits
<1> QED
  BY <1>1, <1>2, <1>3, Mapped

LEMMA ReturnMaps ==
  ASSUME IInv, NEW u \in Users, Return(u)
  PROVE  Contract!Return(u)
<1> USE DEF Return, At, Goto, IInv
<1>0. /\ step[u] = "return" /\ step' = [step EXCEPT ![u] = "idle"]
      /\ step \in [Users -> {"idle", "lock"} \cup Locked]
  BY DEF TypeOK
<1>1. \A v \in Users : step[v] # "write" /\ step'[v] # "write"
  BY <1>0, AtWork DEF Locked
<1>2. Stored' = Stored
  BY <1>1 DEF Stored
<1>3. Pending' = Pending
  <2>1. ASSUME NEW v \in Users
        PROVE  (IF step'[v] \in Waits THEN call'[v] ELSE NoCall)
                 = (IF step[v] \in Waits THEN call[v] ELSE NoCall)
    BY DEF TypeOK, Waits
  <2> QED
    BY <2>1 DEF Pending
<1>4. result[u] # NoResult
  BY <1>0 DEF TypeOK
<1> QED
  BY <1>2, <1>3, <1>4, Mapped

LEMMA CrashMaps ==
  ASSUME IInv, Crash
  PROVE  Contract!Crash
<1> USE DEF Crash, At, IInv
<1>1. Stored' = file /\ Pending' = [u \in Users |-> NoCall]
  BY DEF Stored, Pending, Waits
<1>2. CASE \E u \in Users : step[u] = "write"
  <2>1. PICK u \in Users : step[u] = "write"
    BY <1>2
  <2>2. Pending[u].do \in Writes /\ file = Empty
    BY <2>1 DEF Fresh, Pending, Waits
  <2> QED
    BY <1>1, <2>2, SameTerms DEF Contract!Crash, Pending, Waits, Writes
<1>3. CASE \A u \in Users : step[u] # "write"
  <2>1. Stored = file
    BY <1>3, StoredInFile
  <2> QED
    BY <1>1, <2>1, SameTerms DEF Contract!Crash, Pending, Waits
<1> QED
  BY <1>2, <1>3

LEMMA StepMaps ==
  IInv /\ [Next]_vars => [Contract!Next]_<<Stored, Pending, result>>
<1> SUFFICES ASSUME IInv, [Next]_vars
             PROVE  [Contract!Next]_<<Stored, Pending, result>>
  OBVIOUS
<1>1. CASE UNCHANGED vars
  BY <1>1 DEF vars, Stored, Pending, At
<1>2. ASSUME NEW u \in Users, NEW c \in Calls, Begin(u, c)
      PROVE  Contract!Next
  BY <1>2, BeginMaps, SameTerms DEF Contract!Next
<1>3. ASSUME NEW u \in Users, Busy(u)
      PROVE  Contract!Next \/ UNCHANGED <<Stored, Pending, result>>
  BY <1>3, LockMaps, LoadMaps, OpenMaps, OpenFailsMaps, WriteMaps,
     WriteFailsMaps, ReturnMaps DEF Busy, Contract!Next
<1>4. CASE Crash
  BY <1>4, CrashMaps DEF Contract!Next
<1> QED
  BY <1>1, <1>2, <1>3, <1>4 DEF Next

LEMMA InitMaps == Init => Contract!Init
BY SameTerms DEF Init, Contract!Init, Contract!Contents, Contents, Stored, At,
   Contract!NoCall, NoCall

\* The provider keeps the contract for every number of threads, keys, failing
\* writes and crashes (src/storage.cpp).
THEOREM Implements == Spec => ImplementsContract
<1>1. IInv /\ [Next]_vars => [Contract!Next]_(Contract!vars)
  BY StepMaps DEF Contract!vars, Pending, Waits
<1> QED
  BY <1>1, InitTyped, Inductive, InitMaps, PTL
     DEF Spec, ImplementsContract, Contract!Spec
=============================================================================
