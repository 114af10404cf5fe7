---------------------------- MODULE EscapeParser ----------------------------
(***************************************************************************)
(* The parser of escape sequences (lib/src/escape_sequence_parser.cpp), in *)
(* both its uses: on the output of a program, and on the input of the      *)
(* terminal ttx runs in, where a read that ends within a sequence may mean *)
(* that a key was pressed.  Bytes arrive one at a time, through the        *)
(* decoder of UTF-8: a sequence may be split anywhere.                     *)
(*                                                                         *)
(* Characters are abstracted to one or two of each class that the parser   *)
(* tells apart, and a number to whether there is one.                      *)
(***************************************************************************)
EXTENDS Utf8Decoder

CONSTANTS
  Bytes,       \* the bytes that arrive
  Modes,       \* "application", "input", and "kitty": input with the kitty key protocol
  Avoid,       \* situations that are left out, see Awkward
  MaxLength    \* bound on the parts of a sequence

VARIABLES
  mode,        \* m_mode, and whether the kitty key protocol is used
  decoder,     \* the Utf8StreamDecoder
  pending,     \* the bytes it has taken since the last code point
  parser,      \* the EscapeSequenceParser
  fresh,       \* a parser that is made anew whenever a sequence starts
  string       \* history: the text that has arrived of the string it is in, or that has just ended

vars == <<mode, decoder, pending, parser, fresh, string>>

Executable       == {"LF", "BEL"}
Intermediate     == {"#"}
Digits           == {"1"}
Separators       == {";", ":"}
Param            == Digits \cup Separators
Private          == {"?"}
CsiTerminator    == {"[", "\\", "]", "P", "_", "X", "O", "m"}
EscapeTerminator == Param \cup Private \cup {"O", "\\", "m"}
Printable        == Intermediate \cup Param \cup Private \cup CsiTerminator
                    \cup {"DEL", Encoded, Replacement}

CsiStates    == {"CsiEntry", "CsiParam", "CsiIntermediate", "CsiIgnore"}
DcsStates    == {"DcsEntry", "DcsParam", "DcsIntermediate", "DcsPassthrough", "DcsIgnore"}
StringStates == DcsStates \cup {"OscString", "ApcString", "SosPmString"}
States       == {"Ground", "Escape", "EscapeIntermediate", "Ss3"} \cup CsiStates \cup StringStates

(* `broken` says that the last character of an empty string was removed. *)
NewParser ==
  [last |-> "Ground", next |-> "Ground", exit |-> "none", intermediate |-> <<>>,
   number |-> FALSE, params |-> <<>>, colon |-> FALSE, data |-> <<>>, legacy |-> FALSE,
   prev |-> "NUL", out |-> <<>>, broken |-> FALSE]

-----------------------------------------------------------------------------
(***************************************************************************)
(* The actions of the parser.                                              *)
(***************************************************************************)
Emit(p, kind, fields) == [p EXCEPT !.out = Append(@, <<kind>> \o fields)]

(* Mutant: the separator before is not forgotten. *)
Clear_KeepColon(p) == [p EXCEPT !.legacy = FALSE, !.number = FALSE, !.params = <<>>,
                                !.intermediate = <<>>]

Clear(p) == [p EXCEPT !.legacy = FALSE, !.number = FALSE, !.params = <<>>, !.colon = FALSE,
                      !.intermediate = <<>>]

Collect(p, c) == [p EXCEPT !.intermediate = Append(@, c)]
Put(p, c)     == [p EXCEPT !.data = Append(@, c)]

AddParam(p) ==
  [p EXCEPT !.params = Append(@, <<IF p.colon THEN "sub" ELSE "param", p.number>>), !.colon = FALSE]

TakeParam(p, c) ==
  IF c \in Digits THEN [p EXCEPT !.number = TRUE]
  ELSE [AddParam(p) EXCEPT !.number = FALSE, !.colon = (c = ":")]

DispatchEscape(p, c) ==
  IF c = "\\" THEN p
  ELSE [Emit(p, "Escape", <<p.intermediate, c>>) EXCEPT !.intermediate = <<>>]

DispatchCsi(p, c) ==
  [Emit(p, "CSI", <<p.intermediate, p.params, c>>) EXCEPT !.intermediate = <<>>, !.params = <<>>]

(* Mutant: the last character is dropped after a bell, too. *)
DropEscape_Always(p) ==
  IF p.data = <<>> THEN [p EXCEPT !.broken = TRUE]
  ELSE [p EXCEPT !.data = SubSeq(@, 1, Len(@) - 1)]

(* The ESC of the terminator is part of the data by now; a bell is not. *)
DropEscape(p) ==
  IF p.legacy THEN p
  ELSE IF p.data = <<>> THEN [p EXCEPT !.broken = TRUE]
  ELSE [p EXCEPT !.data = SubSeq(@, 1, Len(@) - 1)]

EndDcs(p) ==
  LET q == DropEscape(p)
  IN  [Emit(q, "DCS", <<q.intermediate, q.params, q.data>>) EXCEPT
         !.intermediate = <<>>, !.params = <<>>, !.data = <<>>]
EndOsc(p) == [Emit(p, "OSC", <<p.data, p.legacy>>) EXCEPT !.data = <<>>]
EndApc(p) == LET q == DropEscape(p) IN [Emit(q, "APC", <<q.data>>) EXCEPT !.data = <<>>]

(* m_on_state_exit *)
OnExit(p) ==
  CASE p.exit = "none"  -> p
    [] p.exit = "param" -> IF p.number THEN AddParam(p) ELSE p
    [] p.exit = "dcs"   -> EndDcs(p)
    [] p.exit = "osc"   -> EndOsc(p)
    [] p.exit = "apc"   -> EndApc(p)

Transition(p, state) == [OnExit(p) EXCEPT !.exit = "none", !.next = state]

Execute(p, c) ==
  LET q == Emit(p, "control", <<c, p.next = "Escape">>)
  IN  IF mode = "application" THEN q ELSE Transition(q, "Ground")

(* What is done on entry to a state, when its first character arrives. *)
Enter(p, state, OnEntry(_)) ==
  [(IF p.last # state THEN OnEntry(p) ELSE p) EXCEPT !.last = state]

Nothing(p)    == p
ParamEntry(p) == [p EXCEPT !.exit = "param"]
DcsEntry(p)   == [p EXCEPT !.exit = "dcs"]
OscEntry(p)   == [p EXCEPT !.exit = "osc", !.legacy = FALSE]
ApcEntry(p)   == [p EXCEPT !.exit = "apc", !.legacy = FALSE]

-----------------------------------------------------------------------------
(***************************************************************************)
(* The states.                                                             *)
(***************************************************************************)
Ground(p, c) ==
  CASE c \in Executable -> Execute(p, c)
    [] c \in Printable  -> Emit(p, "print", <<c>>)
    [] OTHER            -> p

EscapeState(p, c) ==
  CASE c \in Executable                 -> Execute(p, c)
    [] c = "["                          -> Transition(p, "CsiEntry")
    [] c = "O" /\ mode # "application"  -> Transition(p, "Ss3")
    [] c = "P"                          -> Transition(p, "DcsEntry")
    [] c = "]"                          -> Transition(p, "OscString")
    [] mode # "application" /\ c \notin Executable \cup {"[", "O", "P", "]"} -> Execute(p, c)
    [] mode = "application" /\ c \in EscapeTerminator
                                        -> Transition(DispatchEscape(p, c), "Ground")
    [] mode = "application" /\ c \in Intermediate
                                        -> Transition(Collect(p, c), "EscapeIntermediate")
    [] mode = "application" /\ c = "_"  -> Transition(p, "ApcString")
    [] mode = "application" /\ c = "X"  -> Transition(p, "SosPmString")
    [] OTHER                            -> p

EscapeIntermediate(p, c) ==
  CASE c \in Executable   -> Execute(p, c)
    [] c \in Intermediate -> Collect(p, c)
    [] c \in Param \cup Private \cup CsiTerminator -> Transition(DispatchEscape(p, c), "Ground")
    [] OTHER              -> p

CsiEntry(p, c) ==
  CASE c \in Executable    -> Execute(p, c)
    [] c \in CsiTerminator -> Transition(DispatchCsi(p, c), "Ground")
    [] c \in Intermediate  -> Transition(Collect(p, c), "CsiIntermediate")
    [] c \in Param         -> Transition(TakeParam(p, c), "CsiParam")
    [] c \in Private       -> Transition(Collect(p, c), "CsiParam")
    [] OTHER               -> p

CsiIntermediate(p, c) ==
  CASE c \in Executable    -> Execute(p, c)
    [] c \in Intermediate  -> Collect(p, c)
    [] c \in CsiTerminator -> Transition(DispatchCsi(p, c), "Ground")
    [] c \in Param \cup Private -> Transition(p, "CsiIgnore")
    [] OTHER               -> p

CsiParam(p, c) ==
  CASE c \in Executable    -> Execute(p, c)
    [] c \in Intermediate  -> Transition(Collect(p, c), "CsiIntermediate")
    [] c \in CsiTerminator -> DispatchCsi(Transition(p, "Ground"), c)
    [] c \in Param         -> TakeParam(p, c)
    [] c \in Private       -> Transition(p, "CsiIgnore")
    [] OTHER               -> p

CsiIgnore(p, c) ==
  CASE c \in Executable    -> Execute(p, c)
    [] c \in CsiTerminator -> Transition(p, "Ground")
    [] OTHER               -> p

DcsStart(p, c) ==
  CASE c \in Intermediate  -> Transition(Collect(p, c), "DcsIntermediate")
    [] c \in Param         -> Transition(TakeParam(p, c), "DcsParam")
    [] c \in Private       -> Transition(Collect(p, c), "DcsParam")
    [] c \in CsiTerminator -> Transition(p, "DcsPassthrough")
    [] OTHER               -> p

DcsParam(p, c) ==
  CASE c \in Param         -> TakeParam(p, c)
    [] c \in Private       -> Transition(p, "DcsIgnore")
    [] c \in Intermediate  -> Transition(Collect(p, c), "DcsIntermediate")
    [] c \in CsiTerminator -> Transition(p, "DcsPassthrough")
    [] OTHER               -> p

DcsIntermediate(p, c) ==
  CASE c \in Param \cup Private -> Transition(p, "DcsIgnore")
    [] c \in Intermediate  -> Collect(p, c)
    [] c \in CsiTerminator -> Transition(Collect(p, c), "DcsPassthrough")
    [] OTHER               -> p

(* The end of a string: a bell, or ESC \. *)
EndsString(p, c)  == c = "BEL" \/ (c = "\\" /\ p.prev = "ESC")

LeaveString(p, c) == Transition([p EXCEPT !.legacy = (c = "BEL")], "Ground")

DcsPassthrough(p, c) == IF EndsString(p, c) THEN LeaveString(p, c)
                        ELSE IF c = "DEL" THEN p ELSE Put(p, c)
OscString(p, c)      == IF EndsString(p, c) THEN LeaveString(p, c)
                        ELSE IF c \in Printable THEN Put(p, c) ELSE p
ApcString(p, c)      == IF EndsString(p, c) THEN LeaveString(p, c) ELSE Put(p, c)
IgnoredString(p, c)  == IF EndsString(p, c) THEN LeaveString(p, c) ELSE p

(* SS3 x is CSI x *)
Ss3(p, c) == Transition(Emit(p, "CSI", <<<<>>, <<>>, c>>), "Ground")

Handle(p, c) ==
  CASE p.next = "Ground"             -> Ground(Enter(p, "Ground", Nothing), c)
    [] p.next = "Escape"             -> EscapeState(Enter(p, "Escape", Clear), c)
    [] p.next = "EscapeIntermediate" -> EscapeIntermediate(Enter(p, "EscapeIntermediate", Nothing), c)
    [] p.next = "CsiEntry"           -> CsiEntry(Enter(p, "CsiEntry", Clear), c)
    [] p.next = "CsiParam"           -> CsiParam(Enter(p, "CsiParam", ParamEntry), c)
    [] p.next = "CsiIntermediate"    -> CsiIntermediate(Enter(p, "CsiIntermediate", Nothing), c)
    [] p.next = "CsiIgnore"          -> CsiIgnore(Enter(p, "CsiIgnore", Nothing), c)
    [] p.next = "Ss3"                -> Ss3(Enter(p, "Ss3", Nothing), c)
    [] p.next = "DcsEntry"           -> DcsStart(Enter(p, "DcsEntry", Clear), c)
    [] p.next = "DcsParam"           -> DcsParam(Enter(p, "DcsParam", ParamEntry), c)
    [] p.next = "DcsIntermediate"    -> DcsIntermediate(Enter(p, "DcsIntermediate", Nothing), c)
    [] p.next = "DcsPassthrough"     -> DcsPassthrough(Enter(p, "DcsPassthrough", DcsEntry), c)
    [] p.next = "OscString"          -> OscString(Enter(p, "OscString", OscEntry), c)
    [] p.next = "ApcString"          -> ApcString(Enter(p, "ApcString", ApcEntry), c)
    [] p.next \in {"DcsIgnore", "SosPmString"} -> IgnoredString(Enter(p, p.next, Nothing), c)

(* on_input: ESC within a string may be the start of its terminator. *)
OnInput(p, c) ==
  LET q == CASE c = "CAN" -> Transition(Execute(p, c), "Ground")
             [] c = "ESC" /\ p.next \notin StringStates ->
                  IF mode # "application" /\ p.next = "Escape"
                  THEN Transition(Execute(p, c), "Ground")
                  ELSE Transition(p, "Escape")
             [] OTHER -> Handle(p, c)
  IN  [q EXCEPT !.prev = c]

(* At the end of a read, what has begun is taken for a key: escape, alt+P  *)
(* and alt+].                                                              *)
Flush(p) ==
  LET Key(c, alt) == Emit(Transition(p, "Ground"), "control", <<c, alt>>)
  IN  CASE p.next = "Escape"    -> Key("ESC", FALSE)
        [] p.next \in DcsStates -> Key("P", TRUE)
        [] p.next = "OscString" -> Key("]", TRUE)
        [] OTHER                -> p

(* The results of one call. *)
Parse(p, c, flush) ==
  LET q == OnInput([p EXCEPT !.out = <<>>], c) IN IF flush THEN Flush(q) ELSE q

-----------------------------------------------------------------------------
(***************************************************************************)
(* Situations the runs leave out because the code goes wrong in them.      *)
(*   "intermediate"  ESC or CAN right after the first intermediate         *)
(*                   character of an escape sequence: it is kept           *)
(*   "dcs"           a DCS that ends before its final character: its       *)
(*                   terminator is ignored or taken for that character     *)
(*   "cancel"        CAN in a string: what has arrived of it is handed on  *)
(*   "cut"           a read ends in a string: so is it here                *)
(* In the last two, the last character of a DCS is removed as if it were   *)
(* the ESC of the terminator, even when there is none.                     *)
(***************************************************************************)
DcsHeader(p) == p.next \in {"DcsEntry", "DcsParam", "DcsIntermediate"}

Awkward(situation, p, c, flush) ==
  CASE situation = "intermediate" -> /\ c \in {"ESC", "CAN"} /\ p.next = "EscapeIntermediate"
                                     /\ p.last = "Escape"
    [] situation = "dcs"    -> DcsHeader(p) /\ (c = "BEL" \/ (c = "\\" /\ p.prev = "ESC"))
    [] situation = "cancel" -> c = "CAN" /\ p.exit \in {"dcs", "osc", "apc"}
    [] situation = "cut"    -> flush /\ Parse(p, c, FALSE).exit \in {"dcs", "osc"}

Sensible(p, c, flush) == \A situation \in Avoid : ~Awkward(situation, p, c, flush)

-----------------------------------------------------------------------------
(***************************************************************************)
(* Bytes arrive.                                                           *)
(***************************************************************************)
Init ==
  /\ mode \in Modes
  /\ decoder = NewDecoder /\ pending = <<>>
  /\ parser = NewParser /\ fresh = NewParser
  /\ string = <<>>

(* A sequence starts with ESC, but for ESC ESC in the input. *)
Starts(p, c) == /\ c = "ESC" /\ p.next \notin StringStates
                /\ ~(mode # "application" /\ p.next = "Escape")

ParseFresh(f, p, c, flush) == Parse(IF Starts(p, c) THEN NewParser ELSE f, c, flush)

(* What counts as text: in an OSC what can be printed, in a DCS all but    *)
(* DEL.                                                                    *)
IsText(state, c) ==
  \/ state = "ApcString"
  \/ state = "OscString" /\ c \in Printable
  \/ state = "DcsPassthrough" /\ c # "DEL"

(* The text of the string when p takes c                                   *)
TextWith(text, p, c) ==
  IF p.next \notin {"DcsPassthrough", "OscString", "ApcString"} THEN <<>>
  ELSE IF EndsString(p, c) \/ ~IsText(p.next, c) THEN text
  ELSE Append(text, c)

(* Nothing is parsed when a byte is only the start of a code point; two    *)
(* are when it shows that what came before it is not one.                  *)
ReadByte(b, last) ==
  LET decoded == DecodeByte(decoder, b)
      text    == decoded.output
      flush   == last /\ mode = "input"
  IN  /\ decoder' = decoded.decoder
      /\ pending' = IF decoded.decoder.units = 0 THEN <<>>
                    ELSE IF text = <<>> THEN Append(pending, b) ELSE <<b>>
      /\ \/ /\ Len(text) = 0
            /\ parser' = [parser EXCEPT !.out = <<>>] /\ fresh' = [fresh EXCEPT !.out = <<>>]
            /\ UNCHANGED string
         \/ /\ Len(text) = 1
            /\ Sensible(parser, text[1], flush)
            /\ parser' = Parse(parser, text[1], flush)
            /\ fresh' = ParseFresh(fresh, parser, text[1], flush)
            /\ string' = TextWith(string, parser, text[1])
         \/ LET p == Parse(parser, text[1], FALSE)
                f == ParseFresh(fresh, parser, text[1], FALSE)
            IN  /\ Len(text) = 2
                /\ Sensible(parser, text[1], FALSE) /\ Sensible(p, text[2], flush)
                /\ parser' = Parse(p, text[2], flush)
                /\ fresh' = ParseFresh(f, p, text[2], flush)
                /\ string' = TextWith(TextWith(string, parser, text[1]), p, text[2])
      /\ Len(parser'.data) + Len(parser'.params) + Len(parser'.intermediate) <= MaxLength
      /\ UNCHANGED mode

Next == \E b \in Bytes, last \in BOOLEAN : ReadByte(b, last)

Spec == Init /\ [][Next]_vars

-----------------------------------------------------------------------------
(***************************************************************************)
(* Properties.                                                             *)
(***************************************************************************)
(* No more is removed from the data of a string than was put there.        *)
TypeOK ==
  /\ mode \in Modes
  /\ decoder \in [units : 0 .. 3, bounds : SUBSET Next3]
  /\ \A p \in {parser, fresh} :
       /\ p.last \in States /\ p.next \in States
       /\ p.exit \in {"none", "param", "dcs", "osc", "apc"}
       /\ p.exit # "none" => p.last = p.next
  /\ ~parser.broken

(* The decoder waits for exactly the bytes that lead on to a well formed   *)
(* sequence, and has output all but the start of one.                      *)
DecoderOK ==
  /\ pending \in Prefixes
  /\ decoder.units = 0 <=> pending = <<>>
  /\ pending # <<>> =>
       /\ decoder.bounds = {b \in HighBytes : Append(pending, b) \in Prefixes \cup WellFormed}
       /\ \A s \in WellFormed :
            Len(pending) < Len(s) /\ SubSeq(s, 1, Len(pending)) = pending =>
              decoder.units = Len(s) - Len(pending)

(* Whatever arrived before, and however it was cut short, a sequence is    *)
(* understood as if it were the first one, by the decoder and by the       *)
(* parser: nothing of what came before its ESC is left in it.              *)
Resynchronised ==
  /\ TypeOK /\ DecoderOK
  /\ parser.out = fresh.out /\ parser.next = fresh.next

(* The text of a string that is handed on, which in a DCS and an APC has   *)
(* taken the ESC of the terminator for a part of it                        *)
HasText(item, text, bell) ==
  LET ended == IF bell THEN text ELSE SubSeq(text, 1, Len(text) - 1)
  IN  /\ item[1] = "OSC" => item[2] = text
      /\ item[1] = "DCS" => item[4] = ended
      /\ item[1] = "APC" => item[2] = ended

(* A string is handed on when its terminator arrives, and not before, with *)
(* all of the text that has arrived since it began and nothing else, and   *)
(* is ended by it: what follows is not taken for a part of it.             *)
Terminator == \/ parser'.prev = "BEL"
              \/ parser'.prev = "\\" /\ parser.prev = "ESC" /\ pending = <<>>
StringsWhole ==
  [][/\ (\E i \in DOMAIN parser'.out : parser'.out[i][1] \in {"DCS", "OSC", "APC"}) => Terminator
     /\ \A i \in DOMAIN parser'.out : HasText(parser'.out[i], string', parser'.prev = "BEL")
     /\ parser.next \in StringStates /\ Terminator /\ decoder'.units = 0 => parser'.next = "Ground"]_vars
=============================================================================
