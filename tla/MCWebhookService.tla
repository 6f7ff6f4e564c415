--------------------------- MODULE MCWebhookService ---------------------------
(* Requests for TLC: good ones by the first and by the second issue of the   *)
(* key, one by no issue of it, and one with a body that was changed; their   *)
(* dates are too far from some ticks of the clock.  The base64 codec that    *)
(* signatures go through is evaluated on many texts.                         *)
EXTENDS WebhookService, TLC, SequencesExt

CONSTANTS t1, t2, k1, a1, a2

Good(kind, app, by, date) ==
  [kind |-> kind, app |-> app, by |-> by, keyId |-> k1, header |-> "ok",
   algorithm |-> "rsa-sha256", digestSigned |-> TRUE, digest |-> "right",
   dated |-> "ok", date |-> date, complete |-> TRUE, base64 |-> TRUE]

SomeRequests ==
  {Good("INSTALL", a1, 1, 1), Good("UNINSTALL", NoId, 2, 3),
   Good("other", NoId, 1, -1),
   Good("INSTALL", a2, 0, 3),
   [Good("INSTALL", a2, 1, 1) EXCEPT !.digest = "wrong"]}

\* The application reads its value.
ReadOwn == {[do |-> "get", key |-> "other", value |-> NoId]}

ServerSymmetry == Permutations(Servers)

-----------------------------------------------------------------------------
B64 == INSTANCE Base64

\* Bytes of all bit patterns at both ends, and enough of them to overflow the
\* int of decode() several times.
SomeBytes == BoundedSeq({0, 90, 255}, 7) \cup {<<b, c>> : b, c \in 0 .. 255}
Tail8 == <<255, 254, 129, 90, 7, 0, 255, 128>>

\* decode() recovers what encode() was given, also without the padding and with
\* a line break in the text (base64.h).
ASSUME DecodeInvertsEncode ==
  \A bytes \in SomeBytes \cup {b \o Tail8 : b \in BoundedSeq({0, 129, 255}, 3)} :
    LET text == B64!Encode(bytes)
        NotPad(c) == c # B64!Equals
        half == Len(text) \div 2
    IN \A t \in {text, SelectSeq(text, NotPad),
                 SubSeq(text, 1, half) \o <<13, 10>>
                   \o SubSeq(text, half + 1, Len(text))} :
         B64!Decode(t) = [valid |-> TRUE, bytes |-> bytes]

\* decode() accepts the texts that mean something, and says what: any order of
\* characters, spaces, padding and others ("A", "Q", "/", " ", "=", "-").
ASSUME DecodeMeansTheBits ==
  \A text \in BoundedSeq({65, 81, 47, 32, 61, 45}, 5)
                \cup BoundedSeq({65, 47, 103}, 8) :
    B64!Decode(text) = B64!Meaning(text)
=============================================================================
