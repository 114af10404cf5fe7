---------------------------- MODULE Utf8Decoder ----------------------------
(***************************************************************************)
(* Decoding bytes that arrive in pieces (lib/src/utf8_stream_decoder.cpp). *)
(* Bytes and code points are abstracted to classes.  A byte below 80 is    *)
(* named by its character; any other by the range of the encoding that it  *)
(* is in: C2 stands for the first bytes C2..DF, E1 for E1..EC, EE, EF, and *)
(* F1 for F1..F3; 80, 90 and A0 for 80..8F, 90..9F and A0..BF; FF for C0,  *)
(* C1 and F5..FF.                                                          *)
(***************************************************************************)
EXTENDS Naturals, Sequences

First2 == {"C2"}
First3 == {"E0", "E1", "ED"}
First4 == {"F0", "F1", "F4"}
Next3  == {"80", "90", "A0"}       \* all bytes that continue a code point
HighBytes == First2 \cup First3 \cup First4 \cup Next3 \cup {"FF"}

Replacement == "replacement"       \* U+FFFD
Encoded     == "encoded"           \* a code point that takes several bytes

NewDecoder == [units |-> 0, bounds |-> Next3]

Start(units, bounds) == [decoder |-> [units |-> units, bounds |-> bounds], output |-> <<>>]

(* A code point resets the decoder. *)
Output(before, c) == [decoder |-> NewDecoder, output |-> Append(before, c)]

DecodeFirst(before, b) ==
  LET Pend(units, bounds) == [Start(units, bounds) EXCEPT !.output = before]
  IN  CASE b \in First2 -> Pend(1, Next3)
        [] b = "E0"     -> Pend(2, {"A0"})
        [] b = "ED"     -> Pend(2, {"80", "90"})
        [] b = "E1"     -> Pend(2, Next3)
        [] b = "F0"     -> Pend(3, {"90", "A0"})
        [] b = "F4"     -> Pend(3, {"80"})
        [] b = "F1"     -> Pend(3, Next3)
        [] b \in Next3 \cup {"FF"} -> Output(before, Replacement)
        [] OTHER        -> Output(before, b)

(* Mutant: the bounds of the second byte hold for the third one too. *)
DecodeByte_KeepBounds(d, b) ==
  IF d.units = 0 THEN DecodeFirst(<<>>, b)
  ELSE IF b \notin d.bounds THEN DecodeFirst(<<Replacement>>, b)
  ELSE IF d.units = 1 THEN Output(<<>>, Encoded)
  ELSE Start(d.units - 1, d.bounds)

(* A byte that does not continue what is pending ends it and is decoded as *)
(* the first one of something new.                                         *)
DecodeByte(d, b) ==
  IF d.units = 0 THEN DecodeFirst(<<>>, b)
  ELSE IF b \notin d.bounds THEN DecodeFirst(<<Replacement>>, b)
  ELSE IF d.units = 1 THEN Output(<<>>, Encoded)
  ELSE Start(d.units - 1, Next3)

(* The well formed sequences of several bytes (table 3-7 of Unicode). *)
WellFormed ==
  {<<"C2", x>> : x \in Next3}
  \cup {<<"E0", "A0", y>> : y \in Next3} \cup {<<"E1", x, y>> : x, y \in Next3}
  \cup {<<"ED", x, y>> : x \in {"80", "90"}, y \in Next3}
  \cup {<<"F0", x, y, z>> : x \in {"90", "A0"}, y, z \in Next3}
  \cup {<<"F1", x, y, z>> : x, y, z \in Next3}
  \cup {<<"F4", "80", y, z>> : y, z \in Next3}

Prefixes == UNION {{SubSeq(s, 1, n) : n \in 0 .. Len(s) - 1} : s \in WellFormed}
=============================================================================
