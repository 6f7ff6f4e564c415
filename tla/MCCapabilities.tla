---------------------------- MODULE MCCapabilities ----------------------------
(* Instances of Capabilities for TLC. *)
EXTENDS Capabilities

String(s) == [is |-> "string", of |-> s]
Number(tenths) == [is |-> "number", of |-> tenths]
Array(items) == [is |-> "array", of |-> items]
Valued(json) == Object([key \in {"value"} |-> json])

\* A value of each shape that the parsers tell apart.
Samples ==
  {String("on"), Number(215), Number(-7), [is |-> "boolean", of |-> TRUE],
   Array(<<>>), Array(<<Number(10)>>), Array(<<String("a"), Null, String("b")>>),
   Null}

\* A value that a field of the kind takes.
Sample(kind) == CHOOSE json \in Samples : Accepts(kind, json)

\* Nodes of an attribute: with a value of its kind or of another, without one,
\* null, and no object at all.
Nodes(kind) ==
  {Valued(Sample(kind)), Valued(Array(<<>>)), Valued(Null),
   Object([key \in {} |-> Null]), Null, String("on")}

\* A status of some components, with the same node for each.
StatusOf(components, id, node) == [c \in components |-> [i \in {id} |-> node]]

\* All attributes or none for one or for all components, or one attribute of one.
SampleStatuses(id) ==
  LET kinds == KindsOf(id)
      one == CHOOSE c \in Components : TRUE
      all == Object([a \in DOMAIN kinds |-> Valued(Sample(kinds[a]))])
      Single(a) == {Object([b \in {a} |-> node]) : node \in Nodes(kinds[a])}
  IN {StatusOf(cs, id, node) : cs \in {{one}, Components}, node \in {all, Null}}
       \cup {StatusOf({one}, id, node) : node \in UNION {Single(a) : a \in DOMAIN kinds}}

SampleEvents(attr) == IF attr = "undeclared" THEN {String("on")} ELSE Samples
=============================================================================
