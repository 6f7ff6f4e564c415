---------------------------- MODULE WebhookService ----------------------------
(***************************************************************************)
(* Inbound webhooks of a Client with external tokens: handleWebhook()      *)
(* verifies a request (SignatureVerifier) and only then processWebhook()   *)
(* (src/webhook.cpp) changes the id of the installed app, in memory and in *)
(* the storage (FileStorage), where it outlives the process.  Requests are *)
(* handled by several threads of the server at once, and the application   *)
(* keeps a value of its own in the same file.                              *)
(***************************************************************************)
EXTENDS SignatureVerifier

CONSTANTS
  App,        \* a thread of the application
  AppCalls,   \* what it asks of the storage
  OwnValue,   \* its value in the file
  AppIds, NoId,
  MaxFaults   \* bound: writes that fail and crashes

ASSUME AppIdsAssumption ==
  /\ \A r \in Requests : r.kind = "INSTALL" => r.app \in AppIds
  /\ OwnValue \in AppIds /\ App \notin Servers

VARIABLES
  installedAppId,   \* _installedAppId
  file, holders, step, call, loaded, result, faults  \* see FileStorage

storageVars == <<file, holders, step, call, loaded, result, faults>>
serviceVars == <<vars, installedAppId, storageVars>>

Storage == INSTANCE FileStorage WITH
  Users <- Servers \cup {App}, Keys <- {"installedAppId", "other"},
  Values <- AppIds, NoValue <- NoId

ASSUME AppCallsAssumption ==
  \A c \in AppCalls : c \in Storage!Calls /\ c.key = "other"

\* A Client on a file that has no installed app, and the application's value.
ServiceInit ==
  /\ Init /\ Storage!Init /\ installedAppId = NoId
  /\ file = [Storage!Empty EXCEPT !["other"] = OwnValue]

\* A request arrives at an idle thread.
Arrive(t, r) ==
  /\ Storage!At(t, "idle") /\ Receive(t, r)
  /\ UNCHANGED <<installedAppId, storageVars>>

Verifying(t) ==
  /\ Verify(t)
  /\ UNCHANGED <<installedAppId, storageVars>>

\* 401, and nothing is processed.
Refuse(t) ==
  /\ At(t, "rejected") /\ Return(t)
  /\ UNCHANGED <<installedAppId, storageVars>>

\* INSTALL and UPDATE record a non-empty id, and then store it ...
Install(t) ==
  /\ At(t, "verified") /\ request[t].kind = "INSTALL"
  /\ installedAppId' = request[t].app
  /\ Storage!Begin(t, [do |-> "set", key |-> "installedAppId",
                       value |-> request[t].app])
  /\ Return(t)

\* ... and UNINSTALL forgets both.
Uninstall(t) ==
  /\ At(t, "verified") /\ request[t].kind = "UNINSTALL"
  /\ installedAppId' = NoId
  /\ Storage!Begin(t, [do |-> "remove", key |-> "installedAppId", value |-> NoId])
  /\ Return(t)

\* PING, CONFIRMATION, CONFIGURATION, EVENT, OAUTH_CALLBACK, a kind that is
\* unknown and a body that is no message change nothing here (what EVENT does,
\* LiveUpdates has); nor does an INSTALL without an id.
Acknowledge(t) ==
  /\ At(t, "verified") /\ request[t].kind = "other" /\ Return(t)
  /\ UNCHANGED <<installedAppId, storageVars>>

\* The thread goes through its call of the storage provider.
StorageStep(u) == Storage!Busy(u) /\ UNCHANGED <<vars, installedAppId>>

\* The application reads and writes its own value.
AppCall ==
  /\ \E c \in AppCalls : Storage!Begin(App, c)
  /\ UNCHANGED <<vars, installedAppId>>

\* A crash at any point; the next Client starts from the file.
CrashAndRestart ==
  /\ Storage!Crash /\ Restart /\ installedAppId' = file["installedAppId"]

\* Time passes, and the key server replaces keys.
World ==
  /\ Tick \/ \E k \in KeyIds : Rotate(k)
  /\ UNCHANGED <<installedAppId, storageVars>>

Handle(t) ==
  \/ Verifying(t) \/ Refuse(t) \/ Install(t) \/ Uninstall(t) \/ Acknowledge(t)
  \/ \E r \in Requests : Arrive(t, r)

ServiceNext ==
  \/ \E t \in Servers : Handle(t)
  \/ \E u \in Servers \cup {App} : StorageStep(u)
  \/ AppCall \/ CrashAndRestart \/ World

ServiceSpec == ServiceInit /\ [][ServiceNext]_serviceVars

-----------------------------------------------------------------------------
(* Properties                                                               *)

\* The ids that a request delivers whose signature some issue of its key made
\* and whose body is the one that was signed.
Vouched ==
  {r.app : r \in {q \in Requests : q.kind = "INSTALL" /\ q.by > 0
                                   /\ q.digest # "wrong"}}

\* Whatever threads verify, store and crash at once, no other id is ever in
\* memory, on its way to the file, in the file or in a Client that starts from
\* it (webhook.cpp:384-396, :471-506).
OnlyVouchedIds ==
  {installedAppId, file["installedAppId"]} \cup {call[t].value : t \in Servers}
    \subseteq Vouched \cup {NoId}

\* FileStorage keeps its contract under the calls that the handlers make
\* (storage.cpp:23-91).
StorageKeepsContract == Storage!ImplementsContract
=============================================================================
