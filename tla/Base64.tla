-------------------------------- MODULE Base64 --------------------------------
(***************************************************************************)
(* encode() and decode() of src/base64.cpp.  A character is its ASCII      *)
(* code, a text or a byte string a sequence of numbers.  decode() shifts   *)
(* its input through an int that it never masks.                           *)
(***************************************************************************)
EXTENDS Integers, Sequences, SequencesExt

\* ALPHABET: "A".."Z", "a".."z", "0".."9", "+", "/".
Alphabet ==
  [v \in 0 .. 63 |-> CASE v < 26 -> 65 + v
                       [] v \in 26 .. 51 -> 97 + (v - 26)
                       [] v \in 52 .. 61 -> 48 + (v - 52)
                       [] v = 62 -> 43
                       [] v = 63 -> 47]

DecodeChar(c) ==
  CASE c \in 65 .. 90 -> c - 65
    [] c \in 97 .. 122 -> c - 97 + 26
    [] c \in 48 .. 57 -> c - 48 + 52
    [] c = 43 -> 62
    [] c = 47 -> 63
    [] OTHER -> -1

Spaces == {9, 10, 13, 32}
Equals == 61

\* Each group of three bytes becomes four characters; a group that lacks bytes
\* is filled with zeros, and padded instead of the characters it lacks.
Encode(bytes) ==
  LET n == Len(bytes)
      Byte(i) == IF i <= n THEN bytes[i] ELSE 0
      Quad(b0, b1, b2) ==
        <<b0 \div 4, (b0 % 4) * 16 + b1 \div 16, (b1 % 16) * 4 + b2 \div 64,
          b2 % 64>>
      Group(g) == Quad(Byte(3 * g + 1), Byte(3 * g + 2), Byte(3 * g + 3))
  IN [k \in 1 .. 4 * ((n + 2) \div 3) |->
        LET g == (k - 1) \div 4
            j == ((k - 1) % 4) + 1
        IN IF j - 1 > n - 3 * g THEN Equals ELSE Alphabet[Group(g)[j]]]

\* accumulator << 6 in 32 bits: the upper six go, and the next is the sign.
Shifted(accumulator) ==
  LET low == accumulator % 2^26
  IN (IF low < 2^25 THEN low ELSE low - 2^26) * 64

\* decode() of one more character; an invalid one ends it.
DecodeNext(s, c) ==
  LET accumulator == Shifted(s.accumulator) + DecodeChar(c)
      bits == s.bits + 6
  IN CASE ~s.valid \/ c \in Spaces -> s
       [] s.valid /\ c = Equals -> [s EXCEPT !.padding = TRUE]
       [] s.valid /\ c \notin Spaces \cup {Equals}
            /\ (DecodeChar(c) < 0 \/ s.padding) -> [s EXCEPT !.valid = FALSE]
       [] OTHER ->
            [s EXCEPT !.accumulator = accumulator, !.bits = bits % 8,
               !.output = IF bits < 8 THEN @
                          ELSE Append(@, (accumulator \div 2^(bits - 8)) % 256)]

NoBytes == [valid |-> FALSE, bytes |-> <<>>]

\* Bits that are left over must be zero.
Decode(text) ==
  LET start == [accumulator |-> 0, bits |-> 0, padding |-> FALSE,
                valid |-> TRUE, output |-> <<>>]
      end == FoldLeft(DecodeNext, start, text)
  IN IF end.valid /\ end.accumulator % 2^end.bits = 0
     THEN [valid |-> TRUE, bytes |-> end.output] ELSE NoBytes

-----------------------------------------------------------------------------
(* Reference definitions, on sequences of bits                              *)

BitsOf(v, width) == [i \in 1 .. width |-> (v \div 2^(width - i)) % 2]
ValueOfBits(bs) ==
  LET Add(v, b) == 2 * v + b IN FoldLeft(Add, 0, bs)
Glued(values, width) ==
  [i \in 1 .. width * Len(values) |->
     BitsOf(values[(i - 1) \div width + 1], width)[((i - 1) % width) + 1]]
Cut(bs, width) ==
  [i \in 1 .. Len(bs) \div width |->
     ValueOfBits(SubSeq(bs, width * (i - 1) + 1, width * i))]

\* A text of the alphabet with nothing but "=" after a "=", spaces apart, means
\* the whole bytes in its bits, if the rest of them is zero.
Meaning(text) ==
  LET Dense(c) == c \notin Spaces
      Data(c) == c # Equals
      dense == SelectSeq(text, Dense)
      data == SelectSeq(dense, Data)
      bs == Glued([i \in 1 .. Len(data) |-> DecodeChar(data[i])], 6)
      rest == SubSeq(bs, 8 * (Len(bs) \div 8) + 1, Len(bs))
  IN IF /\ \A i \in 1 .. Len(data) : data[i] = dense[i] /\ DecodeChar(data[i]) >= 0
        /\ \A i \in 1 .. Len(rest) : rest[i] = 0
     THEN [valid |-> TRUE, bytes |-> Cut(bs, 8)] ELSE NoBytes
=============================================================================
