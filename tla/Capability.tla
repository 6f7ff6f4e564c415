------------------------------ MODULE Capability ------------------------------
(***************************************************************************)
(* How a typed capability turns SmartThings' JSON into its typed fields    *)
(* (src/capability.cpp and the parseStatus() of every generated class).    *)
(*                                                                         *)
(* A JSON value is a record [is, of]: its kind and its payload, which for  *)
(* an object maps keys to JSON.  A status maps attributes to their nodes,  *)
(* which should be objects with a "value" and may be anything.  A          *)
(* capability in memory is a record [status, fields].                      *)
(***************************************************************************)
EXTENDS Integers, Sequences

Null == [is |-> "null", of |-> "null"]

Object(members) == [is |-> "object", of |-> members]

\* attributeValue(): the "value" in the attribute's node, or null.
ValueOf(status, attr) ==
  IF /\ attr \in DOMAIN status /\ status[attr].is = "object"
     /\ "value" \in DOMAIN status[attr].of
  THEN status[attr].of["value"] ELSE Null

\* The strings among the items of an array, as attributeStringArray() keeps them.
Strings(items) ==
  LET IsString(item) == item.is = "string" IN SelectSeq(items, IsString)

\* What each kind of generated parser takes for a value: attributeString(),
\* attributeNumber() with or without the cast to int, attributeBool(), a
\* non-empty attributeStringArray(), or any JSON that is not null.
Accepts(kind, json) ==
  CASE kind = "str" -> json.is = "string"
    [] kind \in {"int", "num"} -> json.is = "number"
    [] kind = "bool" -> json.is = "boolean"
    [] kind = "strs" -> json.is = "array" /\ Strings(json.of) # <<>>
    [] kind = "json" -> json.is # "null"

\* Numbers are counted in tenths, and the cast to int rounds towards zero.
Truncated(n) == IF n < 0 THEN -(((-n) \div 10) * 10) ELSE (n \div 10) * 10

Taken(kind, json) ==
  CASE kind = "int" -> Truncated(json.of)
    [] kind = "strs" -> Strings(json.of)
    [] kind = "json" -> json
    [] OTHER -> json.of

\* What a field holds before its first value.
Default(kind) ==
  CASE kind = "str" -> ""
    [] kind \in {"int", "num"} -> 0
    [] kind = "bool" -> FALSE
    [] kind = "strs" -> <<>>
    [] kind = "json" -> Null

\* Variant of Parsed whose getters fall back to the default of the type.
ParsedOrDefault(kind, old, json) ==
  IF Accepts(kind, json) THEN Taken(kind, json) ELSE Default(kind)

\* The new content of a field: the value, or what it held if there is none of
\* its type.
Parsed(kind, old, json) ==
  IF Accepts(kind, json) THEN Taken(kind, json) ELSE old

\* parseStatus(): every field of the capability is parsed again.  kinds maps
\* its attributes to the kinds of their fields.
ParseStatus(kinds, cap) ==
  [cap EXCEPT !.fields =
     [a \in DOMAIN kinds |->
        Parsed(kinds[a], cap.fields[a], ValueOf(cap.status, a))]]

\* updateStatus(): a status that is no object is ignored, but parsed again.
UpdateStatus(kinds, cap, json) ==
  ParseStatus(kinds, IF json.is = "object" THEN [cap EXCEPT !.status = json.of]
                     ELSE cap)

\* A node with its "value" replaced; a missing or null one becomes an object.
WithValue(node, json) ==
  LET members == IF node.is = "object" THEN node.of ELSE [key \in {} |-> Null]
  IN Object([key \in DOMAIN members \cup {"value"} |->
               IF key = "value" THEN json ELSE members[key]])

\* The node of an attribute has no place for a value: operator[] throws.
Throws(status, attr) ==
  attr \in DOMAIN status /\ status[attr].is \notin {"object", "null"}

\* setLocalAttribute(), which applyAttributeEvent() is.  When it throws, nothing
\* is changed and parseStatus() is not reached.
SetLocalAttribute(kinds, cap, attr, json) ==
  LET node == IF attr \in DOMAIN cap.status THEN cap.status[attr] ELSE Null
  IN IF Throws(cap.status, attr) THEN cap
     ELSE ParseStatus(kinds,
            [cap EXCEPT !.status =
               [a \in DOMAIN cap.status \cup {attr} |->
                  IF a = attr THEN WithValue(node, json) ELSE cap.status[a]]])

\* A capability as its constructor leaves it.
NewCapability(kinds) ==
  [status |-> [a \in {} |-> Null], fields |-> [a \in DOMAIN kinds |-> Default(kinds[a])]]
=============================================================================
