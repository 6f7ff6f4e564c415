-------------------------- MODULE CapabilitiesProofs --------------------------
(***************************************************************************)
(* Theorems about Capabilities: what the typed fields of a Device hold     *)
(* after any sequence of statuses and events, for any number of components *)
(* and updates, and for any sets of statuses and events: nodes that have   *)
(* no value, a value of another type or are no objects included.           *)
(***************************************************************************)
EXTENDS Capabilities, TLAPS

\* A field's kind is one of the generated parsers', and none of them takes
\* null for a value.
LEMMA KindsTakeNoNull ==
  ASSUME NEW id, NEW a \in DOMAIN KindsOf(id)
  PROVE  ~Accepts(KindsOf(id)[a], Null)
<1>1. KindsOf(id)[a] \in Kinds
  <2>1. PICK k \in Kinds : a \in AttributesOf(CreateCapability(id), k)
    BY DEF KindsOf
  <2>2. KindsOf(id)[a]
          = CHOOSE kind \in Kinds :
              a \in AttributesOf(CreateCapability(id), kind)
    BY DEF KindsOf
  <2> QED
    BY <2>1, <2>2
<1> QED
  BY <1>1 DEF Kinds, Accepts, Null

\* A capability in memory whose typed fields are values, and agree with every
\* cached value that their parser takes.
Parses(kinds, cap) ==
  \A a \in DOMAIN kinds :
    Accepts(kinds[a], ValueOf(cap.status, a))
      => cap.fields[a] = Taken(kinds[a], ValueOf(cap.status, a))

IsCapability(cap) == cap = [status |-> cap.status, fields |-> cap.fields]

Agrees(kinds, cap, values) ==
  /\ IsCapability(cap) /\ Parses(kinds, cap)
  /\ cap.fields = values /\ values = [a \in DOMAIN kinds |-> values[a]]

NoNulls(kinds) == \A a \in DOMAIN kinds : ~Accepts(kinds[a], Null)

\* Values that arrive in the nodes of some attributes, over those before them.
After(kinds, values, nodes) ==
  [a \in DOMAIN kinds |->
     LET json == ValueOf(nodes, a) IN
     IF Accepts(kinds[a], json) THEN Taken(kinds[a], json) ELSE values[a]]

\* The attributes for which setLocalAttribute() throws.
Rejects(cap) == {a \in DOMAIN cap.status : Throws(cap.status, a)}

\* parseStatus() keeps the cached status and parses what its parsers take.
LEMMA ParseStatusFields ==
  ASSUME NEW kinds, NEW cap, IsCapability(cap)
  PROVE  ParseStatus(kinds, cap)
           = [status |-> cap.status,
              fields |-> After(kinds, cap.fields, cap.status)]
<1>1. ASSUME NEW a \in DOMAIN kinds
      PROVE  Parsed(kinds[a], cap.fields[a], ValueOf(cap.status, a))
               = After(kinds, cap.fields, cap.status)[a]
  BY DEF Parsed, After
<1>2. [a \in DOMAIN kinds |->
         Parsed(kinds[a], cap.fields[a], ValueOf(cap.status, a))]
        = After(kinds, cap.fields, cap.status)
  BY <1>1 DEF After
<1> QED
  BY <1>2 DEF ParseStatus, IsCapability

\* A status that is an object replaces the cached one, and its values reach
\* the fields; what it leaves out, they keep.
LEMMA ObjectArrives ==
  ASSUME NEW kinds, NEW cap, NEW values, NEW json,
         Agrees(kinds, cap, values), json.is = "object"
  PROVE  /\ Agrees(kinds, UpdateStatus(kinds, cap, json),
                   After(kinds, values, json.of))
         /\ UpdateStatus(kinds, cap, json).status = json.of
<1> DEFINE new == [status |-> json.of, fields |-> cap.fields]
<1>1. UpdateStatus(kinds, cap, json) = ParseStatus(kinds, new)
  BY DEF UpdateStatus, Agrees, IsCapability
<1>2. ParseStatus(kinds, new)
        = [status |-> json.of, fields |-> After(kinds, values, json.of)]
  BY ParseStatusFields DEF IsCapability, Agrees
<1> QED
  BY <1>1, <1>2 DEF Agrees, IsCapability, Parses, After

\* A status of any other shape is parsed in vain.
LEMMA OtherShapeArrives ==
  ASSUME NEW kinds, NEW cap, NEW values, NEW json,
         Agrees(kinds, cap, values), json.is # "object"
  PROVE  /\ Agrees(kinds, UpdateStatus(kinds, cap, json), values)
         /\ UpdateStatus(kinds, cap, json).status = cap.status
<1>1. UpdateStatus(kinds, cap, json)
        = [status |-> cap.status,
           fields |-> After(kinds, cap.fields, cap.status)]
  BY ParseStatusFields DEF UpdateStatus, Agrees
<1>2. \A a \in DOMAIN kinds :
        After(kinds, cap.fields, cap.status)[a] = values[a]
  BY DEF Agrees, Parses, After
<1>3. After(kinds, cap.fields, cap.status) = values
  BY <1>2 DEF Agrees, After
<1> QED
  BY <1>1, <1>3 DEF Agrees, IsCapability, Parses

\* The node of an event as a status would have it.
EventNode(attr, json) == [a \in {attr} |-> Object([key \in {"value"} |-> json])]

\* The value of a node that has got one.
LEMMA ValueArrives ==
  ASSUME NEW node, NEW json
  PROVE  /\ WithValue(node, json).is = "object"
         /\ "value" \in DOMAIN WithValue(node, json).of
         /\ WithValue(node, json).of["value"] = json
  BY DEF WithValue, Object

\* Statuses that throw for the same attributes have the same ones spoiled.
LEMMA SameRejects ==
  ASSUME NEW f, NEW g, \A a : Throws(f, a) <=> Throws(g, a)
  PROVE  {a \in DOMAIN f : Throws(f, a)} = {a \in DOMAIN g : Throws(g, a)}
<1>1. \A a : a \in {b \in DOMAIN f : Throws(f, b)} <=> Throws(f, a)
  BY DEF Throws
<1>2. \A a : a \in {b \in DOMAIN g : Throws(g, b)} <=> Throws(g, a)
  BY DEF Throws
<1> QED
  BY <1>1, <1>2, Zenon

\* An event reaches the field of its attribute and no other one, although all
\* fields are parsed again, and makes no node one that cannot take a value.
LEMMA EventArrives ==
  ASSUME NEW kinds, NEW cap, NEW values, NEW attr, NEW json,
         NoNulls(kinds), Agrees(kinds, cap, values), ~Throws(cap.status, attr)
  PROVE  /\ Agrees(kinds, SetLocalAttribute(kinds, cap, attr, json),
                   After(kinds, values, EventNode(attr, json)))
         /\ Rejects(SetLocalAttribute(kinds, cap, attr, json)) = Rejects(cap)
<1> DEFINE node == IF attr \in DOMAIN cap.status THEN cap.status[attr] ELSE Null
           status == [a \in DOMAIN cap.status \cup {attr} |->
                        IF a = attr THEN WithValue(node, json) ELSE cap.status[a]]
           new == [status |-> status, fields |-> cap.fields]
           event == EventNode(attr, json)
<1>1. SetLocalAttribute(kinds, cap, attr, json) = ParseStatus(kinds, new)
  BY DEF SetLocalAttribute, Agrees, IsCapability
<1>2. ParseStatus(kinds, new)
        = [status |-> status, fields |-> After(kinds, cap.fields, status)]
  BY ParseStatusFields DEF IsCapability
<1>3. \A a : ValueOf(status, a)
               = IF a = attr THEN json ELSE ValueOf(cap.status, a)
  BY ValueArrives DEF ValueOf
<1>4. \A a : ValueOf(event, a) = IF a = attr THEN json ELSE Null
  BY DEF ValueOf, EventNode, Object
<1>5. ASSUME NEW a \in DOMAIN kinds
      PROVE  After(kinds, cap.fields, status)[a] = After(kinds, values, event)[a]
  <2>1. ~Accepts(kinds[a], Null) /\ cap.fields[a] = values[a]
    BY DEF NoNulls, Agrees
  <2>2. Accepts(kinds[a], ValueOf(cap.status, a))
          => Taken(kinds[a], ValueOf(cap.status, a)) = values[a]
    BY <2>1 DEF Agrees, Parses
  <2>3. /\ After(kinds, cap.fields, status)[a]
             = IF Accepts(kinds[a], ValueOf(status, a))
               THEN Taken(kinds[a], ValueOf(status, a)) ELSE cap.fields[a]
        /\ After(kinds, values, event)[a]
             = IF Accepts(kinds[a], ValueOf(event, a))
               THEN Taken(kinds[a], ValueOf(event, a)) ELSE values[a]
    BY DEF After
  <2> HIDE DEF status, event
  <2> QED
    BY <1>3, <1>4, <2>1, <2>2, <2>3
<1>6. After(kinds, cap.fields, status) = After(kinds, values, event)
  <2> HIDE DEF status, event
  <2> QED
    BY <1>5 DEF After
<1>7. Parses(kinds, [status |-> status,
                     fields |-> After(kinds, cap.fields, status)])
  <2> HIDE DEF status
  <2> QED
    BY DEF Parses, After
<1>8. {a \in DOMAIN status : Throws(status, a)} = Rejects(cap)
  <2>1. ~Throws(status, attr)
    BY ValueArrives DEF Throws
  <2>2. ASSUME NEW a, a # attr PROVE Throws(status, a) <=> Throws(cap.status, a)
    BY <2>2 DEF Throws
  <2>3. \A a : Throws(status, a) <=> Throws(cap.status, a)
    BY <2>1, <2>2
  <2> QED
    BY <2>3, SameRejects DEF Rejects
<1>9. SetLocalAttribute(kinds, cap, attr, json)
        = [status |-> status, fields |-> After(kinds, values, event)]
  BY <1>1, <1>2, <1>6
<1>10. Parses(kinds, [status |-> status, fields |-> After(kinds, values, event)])
  BY <1>6, <1>7
<1> HIDE DEF status
<1> QED
  BY <1>8, <1>9, <1>10 DEF Agrees, IsCapability, After, Rejects

-----------------------------------------------------------------------------
\* Every part's fields agree with its cached status and with the history, and
\* the attributes it cannot take an event for are the spoiled ones.
PartAgrees(part) ==
  /\ Agrees(KindsAt(part), caps[part], last[part])
  /\ Rejects(caps[part]) = spoiled[part]

Inv ==
  /\ caps = [part \in Parts |-> caps[part]]
  /\ last = [part \in Parts |-> last[part]]
  /\ spoiled = [part \in Parts |-> spoiled[part]]
  /\ \A part \in Parts : PartAgrees(part)

\* New fields hold the defaults, and nothing is cached.
LEMMA InvInit == Init => Inv
<1> SUFFICES ASSUME NEW id, InitFromJson(id),
                    last = [part \in Parts |-> caps[part].fields],
                    spoiled = [part \in Parts |-> {}]
             PROVE  Inv
  BY DEF Init
<1>1. ASSUME NEW part \in Parts PROVE PartAgrees(part)
  <2>1. caps[part] = NewCapability(KindsAt(part))
    BY DEF InitFromJson, Parts, KindsAt
  <2>2. NoNulls(KindsAt(part))
    BY KindsTakeNoNull DEF NoNulls, KindsAt
  <2>3. \A a : ValueOf(caps[part].status, a) = Null
    BY <2>1 DEF NewCapability, ValueOf
  <2>4. Parses(KindsAt(part), caps[part])
    BY <2>2, <2>3 DEF Parses, NoNulls
  <2> QED
    BY <2>1, <2>4 DEF NewCapability, Agrees, IsCapability, PartAgrees, Rejects
<1> QED
  BY <1>1 DEF InitFromJson, Parts, Inv

\* applyStatus(), whatever the status holds.
LEMMA ApplyStatusKeeps ==
  ASSUME Inv, NEW status, ApplyStatus(status)
  PROVE  Inv'
<1>1. Parts' = Parts /\ \A part \in Parts : KindsAt(part)' = KindsAt(part)
  BY DEF ApplyStatus, Parts, KindsAt
<1>2. ASSUME NEW part \in Parts
      PROVE  /\ Agrees(KindsAt(part), caps'[part], last'[part])
             /\ Rejects(caps'[part]) = spoiled'[part]
  <2>1. PartAgrees(part)
    BY DEF Inv
  <2> DEFINE node == status[part[1]][part[2]]
  <2>2. CASE ~(part[1] \in DOMAIN status /\ part[2] \in DOMAIN status[part[1]])
    BY <2>1, <2>2 DEF ApplyStatus, PartAgrees
  <2>3. CASE /\ part[1] \in DOMAIN status /\ part[2] \in DOMAIN status[part[1]]
             /\ node.is = "object"
    <3>1. /\ caps'[part] = UpdateStatus(KindsAt(part), caps[part], node)
          /\ last'[part] = After(KindsAt(part), last[part], node.of)
          /\ spoiled'[part] = {a \in DOMAIN node.of : Throws(node.of, a)}
      BY <2>3 DEF ApplyStatus, Delivered, After, Throws
    <3> QED
      BY <2>1, <2>3, <3>1, ObjectArrives DEF PartAgrees, Rejects
  <2>4. CASE /\ part[1] \in DOMAIN status /\ part[2] \in DOMAIN status[part[1]]
             /\ node.is # "object"
    <3>1. /\ caps'[part] = UpdateStatus(KindsAt(part), caps[part], node)
          /\ last'[part] = last[part] /\ spoiled'[part] = spoiled[part]
      BY <2>4 DEF ApplyStatus
    <3>2. /\ Agrees(KindsAt(part), caps'[part], last[part])
          /\ caps'[part].status = caps[part].status
      BY <2>1, <2>4, <3>1, OtherShapeArrives DEF PartAgrees
    <3> QED
      BY <2>1, <3>1, <3>2 DEF PartAgrees, Rejects
  <2> QED
    BY <2>2, <2>3, <2>4
<1>3. /\ caps' = [part \in Parts |-> caps'[part]]
      /\ last' = [part \in Parts |-> last'[part]]
      /\ spoiled' = [part \in Parts |-> spoiled'[part]]
  BY DEF ApplyStatus
<1> QED
  BY <1>1, <1>2, <1>3 DEF Inv, PartAgrees

\* applyDeviceEvent(), whatever its attribute and value.
LEMMA ApplyDeviceEventKeeps ==
  ASSUME Inv, NEW part \in Parts, NEW attr, NEW json,
         ApplyDeviceEvent(part, attr, json)
  PROVE  Inv'
<1>1. Parts' = Parts /\ \A p \in Parts : KindsAt(p)' = KindsAt(p)
  BY DEF ApplyDeviceEvent, Inv, Parts, KindsAt
<1>2. ASSUME NEW p \in Parts
      PROVE  /\ Agrees(KindsAt(p), caps'[p], last'[p])
             /\ Rejects(caps'[p]) = spoiled'[p]
  <2>1. NoNulls(KindsAt(p)) /\ PartAgrees(p)
    BY KindsTakeNoNull DEF NoNulls, KindsAt, Inv
  <2>2. CASE p # part
    BY <2>1, <2>2 DEF ApplyDeviceEvent, Inv, PartAgrees
  <2>3. CASE p = part /\ attr \in spoiled[p]
    <3>1. Throws(caps[p].status, attr)
      BY <2>1, <2>3 DEF PartAgrees, Rejects
    <3>2. caps'[p] = caps[p] /\ last'[p] = last[p] /\ spoiled' = spoiled
      BY <2>3, <3>1 DEF ApplyDeviceEvent, SetLocalAttribute, Inv, Parts
    <3> QED
      BY <2>1, <3>2 DEF PartAgrees
  <2>4. CASE p = part /\ attr \notin spoiled[p]
    <3>1. ~Throws(caps[p].status, attr)
      BY <2>1, <2>4 DEF PartAgrees, Rejects, Throws
    <3>2. /\ caps'[p] = SetLocalAttribute(KindsAt(p), caps[p], attr, json)
          /\ last'[p] = After(KindsAt(p), last[p], EventNode(attr, json))
          /\ spoiled' = spoiled
      BY <2>4 DEF ApplyDeviceEvent, Delivered, After, EventNode, Inv, Parts
    <3> QED
      BY <2>1, <3>1, <3>2, EventArrives DEF PartAgrees
  <2> QED
    BY <2>2, <2>3, <2>4
<1>3. /\ caps' = [p \in Parts |-> caps'[p]]
      /\ last' = [p \in Parts |-> last'[p]]
      /\ spoiled' = [p \in Parts |-> spoiled'[p]]
  BY DEF ApplyDeviceEvent, Inv, Parts
<1> QED
  BY <1>1, <1>2, <1>3 DEF Inv, PartAgrees

\* All updates of Next are instances of the two kinds.
LEMMA InvStep == Inv /\ [Next]_vars => Inv'
<1> SUFFICES ASSUME Inv, [Next]_vars PROVE Inv'
  OBVIOUS
<1>1. CASE Next
  BY <1>1, ApplyStatusKeeps, ApplyDeviceEventKeeps DEF Next
<1>2. CASE UNCHANGED vars
  BY <1>2 DEF vars, Inv, Parts, KindsAt, PartAgrees
<1> QED
  BY <1>1, <1>2

\* A typed field holds the last value of its type that was delivered for its
\* own attribute of its own component, after any number of updates, for any set
\* of components and whatever statuses and events there may be; and an event is
\* delivered unless the last status had a node for its attribute that cannot
\* take a value (capability.cpp:22-35, :73-79).
THEOREM FieldsAreLastValues == Spec => []FieldsHoldLastValue
<1>1. Inv => FieldsHoldLastValue
  BY DEF Inv, PartAgrees, Agrees, FieldsHoldLastValue
<1> QED
  BY <1>1, InvInit, InvStep, PTL DEF Spec
=============================================================================
