----------------------------- MODULE Capabilities -----------------------------
(***************************************************************************)
(* The capabilities of one Device, whose components may each have one of   *)
(* any of the generated classes: initFromJson() creates them, statuses and *)
(* events reach them in any order (src/device.cpp, src/capability.cpp).    *)
(* Capability has the parsers and CapabilityTables the classes.            *)
(***************************************************************************)
EXTENDS Capability, CapabilityTables, FiniteSets

CONSTANTS
  Components,   \* ids of components
  Statuses(_),  \* statuses that may arrive for Devices with a capability:
                \* components that have a node that is an object, with the
                \* nodes of capabilities in them
  Events(_),    \* values that events may bring for an attribute
  MaxUpdates    \* bound: statuses and events applied

ASSUME UpdatesAssumption == MaxUpdates \in Nat

Known == DOMAIN Standard \cup DOMAIN Proprietary

\* Every id makes one typed class, whichever factory is asked first, and an
\* attribute has a field of one kind: 36 standard and 107 proprietary classes,
\* as docs/capabilities.md counts them.
ASSUME OneClassPerId ==
  /\ Cardinality(DOMAIN Standard) = 36 /\ Cardinality(DOMAIN Proprietary) = 107
  /\ DOMAIN Standard \cap DOMAIN Proprietary = {}
  /\ \A id \in Known, j, k \in Kinds :
       j # k => AttributesOf(CreateCapability(id), j)
                  \cap AttributesOf(CreateCapability(id), k) = {}

VARIABLES
  caps,    \* _components: the capability for each <<component, capability id>>
  \* history, of each part
  last,     \* the last value of its type delivered for each attribute
  spoiled,  \* attributes for which the last status has a node without a place
            \* for a value
  updates

vars == <<caps, last, spoiled, updates>>

Parts == DOMAIN caps
KindsAt(part) == KindsOf(part[2])

\* initFromJson(): each component lists the capabilities it has.  Here all
\* have the one that is looked at, as a refrigerator's compartments do, and the
\* first update comes after all of them are made.
InitFromJson(id) ==
  caps = [part \in Components \X {id} |-> NewCapability(KindsOf(id))]

Init ==
  /\ \E id \in Known \cup {"a capability of tomorrow"} : InitFromJson(id)
  /\ last = [part \in Parts |-> caps[part].fields]
  /\ spoiled = [part \in Parts |-> {}] /\ updates = 0

\* The new history of a part after the nodes delivered for some attributes.
Delivered(part, nodes) ==
  [a \in DOMAIN KindsAt(part) |->
     LET json == ValueOf(nodes, a) IN
     IF Accepts(KindsAt(part)[a], json) THEN Taken(KindsAt(part)[a], json)
     ELSE last[part][a]]

Updated == updates < MaxUpdates /\ updates' = updates + 1

\* applyStatus(): the status has a node for some components, and in it one for
\* some capabilities, which may be no object.
ApplyStatus(status) ==
  LET Has(part) == /\ part[1] \in DOMAIN status
                   /\ part[2] \in DOMAIN status[part[1]]
      Node(part) == status[part[1]][part[2]]
  IN /\ Updated
     /\ caps' = [part \in Parts |->
                   IF Has(part) THEN UpdateStatus(KindsAt(part), caps[part], Node(part))
                   ELSE caps[part]]
     /\ last' = [part \in Parts |->
                   IF Has(part) /\ Node(part).is = "object"
                   THEN Delivered(part, Node(part).of) ELSE last[part]]
     /\ spoiled' = [part \in Parts |->
                      IF Has(part) /\ Node(part).is = "object"
                      THEN {a \in DOMAIN Node(part).of :
                              Node(part).of[a].is \notin {"object", "null"}}
                      ELSE spoiled[part]]

\* applyDeviceEvent(): one attribute of one capability, which its class may not
\* know.  An exception ends the whole request, past any other Device.
ApplyDeviceEvent(part, attr, json) ==
  /\ Updated
  /\ caps' = [caps EXCEPT ![part] = SetLocalAttribute(KindsAt(part), @, attr, json)]
  /\ last' = [last EXCEPT ![part] =
       IF attr \in spoiled[part] THEN @
       ELSE Delivered(part, [a \in {attr} |-> Object([key \in {"value"} |-> json])])]
  /\ UNCHANGED spoiled

Next ==
  \/ \E id \in {part[2] : part \in Parts} :
       \E status \in Statuses(id) : ApplyStatus(status)
  \/ \E part \in Parts :
       \E a \in DOMAIN KindsAt(part) \cup {"undeclared"} :
         \E json \in Events(a) : ApplyDeviceEvent(part, a, json)

Spec == Init /\ [][Next]_vars

-----------------------------------------------------------------------------
(* Properties                                                               *)

\* Every update merges into the cached status and parses all of it again
\* (capability.cpp:22-35, :73-79), yet a typed field always has the last value
\* of its type that was delivered for its own attribute of its own component: a
\* status that leaves things out, a value of another type, an event about
\* another attribute or component and an emptied list change nothing.  An event
\* counts as delivered unless the last status had a node for its attribute that
\* is neither an object nor null: no other event is lost by an exception.
FieldsHoldLastValue == \A part \in Parts : caps[part].fields = last[part]
=============================================================================
