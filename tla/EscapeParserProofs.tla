------------------------- MODULE EscapeParserProofs -------------------------
(***************************************************************************)
(* Proofs about EscapeParser, for any bytes and strings of any length, as  *)
(* long as the situations that lead to known faults are left out (Avoid).  *)
(*                                                                         *)
(* The argument.  When ESC starts a sequence, what the one before has left *)
(* in the parser is cleared on entry to the state "Escape", unless that is *)
(* the state it was in last, and then nothing was left (Fine).  From there *)
(* on the parser and one that is made anew are the same; in between they   *)
(* differ only in what no state looks at (Twins).                          *)
(***************************************************************************)
EXTENDS EscapeParser, SequenceTheorems, TLAPS

-----------------------------------------------------------------------------
(* The parser and what its actions change *)

Chars == Bytes \cup {Encoded, Replacement}

Shape(p) ==
  p = [last |-> p.last, next |-> p.next, exit |-> p.exit, intermediate |-> p.intermediate,
       number |-> p.number, params |-> p.params, colon |-> p.colon, data |-> p.data,
       legacy |-> p.legacy, prev |-> p.prev, out |-> p.out, broken |-> p.broken]

Strings == {"DCS", "OSC", "APC"}

\* What the parser has output, none of it a string
Quiet(out) == \E S : out \in Seq(S) /\ \A e \in S : e[1] \notin Strings

\* Nothing of a sequence is left in the parser.
Clean(p) == /\ p.legacy = FALSE /\ p.number = FALSE /\ p.params = <<>> /\ p.colon = FALSE
            /\ p.intermediate = <<>>

\* Where the parser is, and the string it collects, are the same.
Same(p, q) ==
  /\ Shape(q)
  /\ q.last = p.last /\ q.next = p.next /\ q.exit = p.exit
  /\ q.data = p.data /\ q.prev = p.prev
Unbroken(p, q) == p.broken = FALSE => q.broken = FALSE
Quieter(p, q) == Quiet(p.out) => Quiet(q.out)
Touched(p, q) == Same(p, q) /\ Unbroken(p, q) /\ Quieter(p, q)

LEMMA QuietAppend ==
  ASSUME NEW out, Quiet(out), NEW e, e[1] \notin Strings
  PROVE  Quiet(Append(out, e))
<1>1. PICK S : out \in Seq(S) /\ \A x \in S : x[1] \notin Strings
  BY DEF Quiet
<1> DEFINE T == S \cup {e}
<1>2. out \in Seq(T)
  BY <1>1
<1>3. Append(out, e) \in Seq(T)
  BY <1>2
<1>4. \A x \in T : x[1] \notin Strings
  BY <1>1
<1>5. QED
  BY <1>3, <1>4 DEF Quiet

LEMMA QuietEmpty == Quiet(<<>>)
<1>1. <<>> \in Seq({})
  OBVIOUS
<1> DEFINE none == {}
<1>2. <<>> \in Seq(none) /\ \A e \in none : e[1] \notin Strings
  BY <1>1
<1> HIDE DEF none
<1>3. QED
  BY <1>2 DEF Quiet

LEMMA EmitTouches ==
  ASSUME NEW p, Shape(p), NEW kind, kind \notin Strings, NEW S, NEW fields \in Seq(S)
  PROVE  /\ Touched(p, Emit(p, kind, fields))
         /\ Clean(p) => Clean(Emit(p, kind, fields))
<1> DEFINE e == <<kind>> \o fields
           q == Emit(p, kind, fields)
<1>1. e[1] = kind
  <2>1. <<kind>> \in Seq({kind} \cup S) /\ fields \in Seq({kind} \cup S) /\ Len(<<kind>>) = 1
    OBVIOUS
  <2>2. QED
    BY <2>1
<1> HIDE DEF e
<1>2. q = [p EXCEPT !.out = Append(p.out, e)]
  BY DEF Emit, e
<1> HIDE DEF q
<1>3. Same(p, q)
  BY <1>2 DEF Same, Shape
<1>4. Unbroken(p, q)
  BY <1>2 DEF Unbroken, Shape
<1>5. q.out = Append(p.out, e)
  BY <1>2 DEF Shape
<1>6. Quieter(p, q)
  BY <1>1, <1>5, QuietAppend DEF Quieter
<1>7. Clean(p) => Clean(q)
  BY <1>2 DEF Clean, Shape
<1>8. QED
  BY <1>3, <1>4, <1>6, <1>7 DEF Touched, q

LEMMA TouchedIf ==
  ASSUME NEW p, NEW q, Same(p, q), q.broken = p.broken, q.out = p.out
  PROVE  Touched(p, q)
BY DEF Touched, Unbroken, Quieter

LEMMA CollectTouches ==
  ASSUME NEW p, Shape(p), NEW c
  PROVE  Touched(p, Collect(p, c))
<1> DEFINE q == Collect(p, c)
<1>1. q = [p EXCEPT !.intermediate = Append(@, c)]
  BY DEF Collect
<1> HIDE DEF q
<1>2. Same(p, q)
  BY <1>1 DEF Same, Shape
<1>3. q.broken = p.broken /\ q.out = p.out
  BY <1>1 DEF Shape
<1>4. QED
  BY <1>2, <1>3, TouchedIf DEF q

LEMMA AddParamTouches ==
  ASSUME NEW p, Shape(p)
  PROVE  Touched(p, AddParam(p)) /\ AddParam(p).out = p.out
<1> DEFINE q == AddParam(p)
           more == Append(p.params, <<IF p.colon THEN "sub" ELSE "param", p.number>>)
<1>1. q = [p EXCEPT !.params = more, !.colon = FALSE]
  BY DEF AddParam
<1> HIDE DEF q, more
<1>2. Same(p, q)
  BY <1>1 DEF Same, Shape
<1>3. q.broken = p.broken /\ q.out = p.out
  BY <1>1 DEF Shape
<1>4. QED
  BY <1>2, <1>3, TouchedIf DEF q

LEMMA TakeParamTouches ==
  ASSUME NEW p, Shape(p), NEW c
  PROVE  Touched(p, TakeParam(p, c))
BY DEF Touched, Same, Unbroken, Quieter, AddParam, TakeParam, Shape

LEMMA TouchedTwice ==
  ASSUME NEW p, NEW q, NEW r, Touched(p, q), Touched(q, r)
  PROVE  Touched(p, r)
BY DEF Touched, Same, Unbroken, Quieter

LEMMA TouchedNothing ==
  ASSUME NEW p, Shape(p)
  PROVE  Touched(p, p)
BY DEF Touched, Same, Unbroken, Quieter

LEMMA DispatchCsiTouches ==
  ASSUME NEW p, Shape(p), NEW c
  PROVE  Touched(p, DispatchCsi(p, c))
<1> DEFINE q == Emit(p, "CSI", <<p.intermediate, p.params, c>>)
           r == [q EXCEPT !.intermediate = <<>>, !.params = <<>>]
<1>1. <<p.intermediate, p.params, c>> \in Seq({p.intermediate, p.params, c})
  OBVIOUS
<1>2. Touched(p, q)
  BY <1>1, EmitTouches DEF Strings
<1> HIDE DEF q
<1>3. Touched(q, r)
  <2>1. Shape(q) /\ r = [q EXCEPT !.intermediate = <<>>, !.params = <<>>]
    BY <1>2 DEF Touched, Same
  <2> HIDE DEF r
  <2>2. Same(q, r)
    BY <2>1 DEF Same, Shape
  <2>3. r.broken = q.broken /\ r.out = q.out
    BY <2>1 DEF Shape
  <2>4. QED
    BY <2>2, <2>3, TouchedIf
<1>4. QED
  BY <1>2, <1>3, TouchedTwice DEF DispatchCsi, q

LEMMA DispatchEscapeTouches ==
  ASSUME NEW p, Shape(p), NEW c
  PROVE  /\ Touched(p, DispatchEscape(p, c))
         /\ Clean(p) => Clean(DispatchEscape(p, c))
<1> DEFINE q == Emit(p, "Escape", <<p.intermediate, c>>)
           r == [q EXCEPT !.intermediate = <<>>]
<1>1. <<p.intermediate, c>> \in Seq({p.intermediate, c})
  OBVIOUS
<1>2. Touched(p, q) /\ (Clean(p) => Clean(q))
  BY <1>1, EmitTouches DEF Strings
<1> HIDE DEF q
<1>3. Touched(q, r)
  BY <1>2 DEF Touched, Same, Unbroken, Quieter, Shape
<1>4. Clean(q) => Clean(r)
  BY <1>2 DEF Touched, Same, Shape, Clean
<1>5. Touched(p, r) /\ (Clean(p) => Clean(r))
  BY <1>2, <1>3, <1>4, TouchedTwice
<1>6. CASE c = "\\"
  BY <1>6, TouchedNothing DEF DispatchEscape
<1>7. CASE c # "\\"
  BY <1>5, <1>7 DEF DispatchEscape, q
<1>8. QED
  BY <1>6, <1>7

-----------------------------------------------------------------------------
(* Leaving a state, and entering it *)

Handed == {"dcs", "osc", "apc"}
Collecting == {"DcsPassthrough", "OscString", "ApcString"}

\* p leaves its state, and what it has collected is as it was.
Left(p, q, state) ==
  /\ Shape(q)
  /\ q.last = p.last /\ q.next = state /\ q.exit = "none"
  /\ q.data = p.data /\ q.prev = p.prev /\ q.out = p.out

LEMMA TransitionLeaves ==
  ASSUME NEW p, Shape(p), p.exit \in {"none", "param"}, NEW state
  PROVE  /\ Left(p, Transition(p, state), state) /\ Unbroken(p, Transition(p, state))
         /\ p.exit = "none" /\ Clean(p) => Clean(Transition(p, state))
<1> DEFINE r == OnExit(p)
           q == Transition(p, state)
<1>1. Touched(p, r) /\ r.out = p.out /\ (p.exit = "none" => r = p)
  BY TouchedNothing, AddParamTouches DEF OnExit
<1>2. q = [r EXCEPT !.exit = "none", !.next = state]
  BY DEF Transition
<1> HIDE DEF r, q
<1>3. Shape(r) /\ r.last = p.last /\ r.data = p.data /\ r.prev = p.prev /\ Unbroken(p, r)
  BY <1>1 DEF Touched, Same
<1>4. Left(p, q, state)
  BY <1>1, <1>2, <1>3 DEF Left, Shape
<1>5. q.broken = r.broken
  BY <1>2, <1>3 DEF Shape
<1>6. Unbroken(p, q)
  BY <1>3, <1>5 DEF Unbroken
<1>7. Clean(r) => Clean(q)
  BY <1>2, <1>3 DEF Clean, Shape
<1>8. QED
  BY <1>1, <1>4, <1>6, <1>7 DEF q

HandedOn(p, q, state) ==
  /\ Shape(q) /\ q.last = p.last /\ q.next = state /\ q.exit = "none"
  /\ q.data = <<>> /\ q.prev = p.prev /\ q.broken = FALSE

\* A string that ends is handed on, without the ESC of its terminator.
LEMMA TransitionHandsOn ==
  ASSUME NEW p, Shape(p), p.exit \in Handed, p.broken = FALSE, NEW state,
         p.exit # "osc" => p.legacy \/ p.data # <<>>
  PROVE  HandedOn(p, Transition(p, state), state)
<1> DEFINE dropped == DropEscape(p)
           r == OnExit(p)
           q == Transition(p, state)
<1>1. p.exit # "osc" => dropped = p \/ dropped = [p EXCEPT !.data = SubSeq(@, 1, Len(@) - 1)]
  BY DEF DropEscape
<1>2. p.exit # "osc" => Shape(dropped) /\ dropped.last = p.last /\ dropped.prev = p.prev
  BY <1>1 DEF Shape
<1>3. p.exit # "osc" => dropped.broken = FALSE
  BY <1>1 DEF Shape
<1>4. PICK s, out2 :
          /\ s \in {p, dropped} /\ (s = dropped => s = p \/ p.exit # "osc")
          /\ \/ r = [[s EXCEPT !.out = out2] EXCEPT
                       !.intermediate = <<>>, !.params = <<>>, !.data = <<>>]
             \/ r = [[s EXCEPT !.out = out2] EXCEPT !.data = <<>>]
  <2>1. CASE p.exit = "dcs"
    <3>1. r = [[dropped EXCEPT !.out = Append(@, <<"DCS">> \o <<dropped.intermediate, dropped.params, dropped.data>>)]
                 EXCEPT !.intermediate = <<>>, !.params = <<>>, !.data = <<>>]
      BY <2>1 DEF OnExit, EndDcs, Emit
    <3>2. QED
      BY <2>1, <3>1
  <2>2. CASE p.exit = "osc"
    <3>1. r = [[p EXCEPT !.out = Append(@, <<"OSC">> \o <<p.data, p.legacy>>)] EXCEPT !.data = <<>>]
      BY <2>2 DEF OnExit, EndOsc, Emit
    <3>2. QED
      BY <3>1
  <2>3. CASE p.exit = "apc"
    <3>1. r = [[dropped EXCEPT !.out = Append(@, <<"APC">> \o <<dropped.data>>)] EXCEPT !.data = <<>>]
      BY <2>3 DEF OnExit, EndApc, Emit
    <3>2. QED
      BY <2>3, <3>1
  <2>4. QED
    BY <2>1, <2>2, <2>3 DEF Handed
<1>5. q = [r EXCEPT !.exit = "none", !.next = state]
  BY DEF Transition
<1>6. Shape(s) /\ s.last = p.last /\ s.prev = p.prev
  BY <1>2, <1>4
<1>7. s.broken = FALSE
  BY <1>3, <1>4
<1> HIDE DEF dropped, r, q
<1>8. Shape(r) /\ r.last = p.last /\ r.prev = p.prev /\ r.data = <<>>
  BY <1>4, <1>6 DEF Shape
<1>9. r.broken = FALSE
  BY <1>4, <1>6, <1>7 DEF Shape
<1>10. /\ Shape(q) /\ q.last = p.last /\ q.next = state /\ q.exit = "none"
       /\ q.data = <<>> /\ q.prev = p.prev
  BY <1>5, <1>8 DEF Shape
<1>11. q.broken = FALSE
  BY <1>5, <1>8, <1>9 DEF Shape
<1>12. QED
  BY <1>10, <1>11 DEF HandedOn, q

\* The first character in a state
Entered(p, e) ==
  /\ Shape(e)
  /\ e.last = p.next /\ e.next = p.next
  /\ e.data = p.data /\ e.prev = p.prev /\ e.out = p.out

LEMMA EnterNothing ==
  ASSUME NEW p, Shape(p)
  PROVE  LET e == Enter(p, p.next, Nothing)
         IN  Entered(p, e) /\ Unbroken(p, e) /\ e.exit = p.exit
<1> DEFINE e == Enter(p, p.next, Nothing)
<1>1. e = [p EXCEPT !.last = p.next]
  BY DEF Enter, Nothing
<1> HIDE DEF e
<1>2. Entered(p, e) /\ e.exit = p.exit
  BY <1>1 DEF Entered, Shape
<1>3. e.broken = p.broken
  BY <1>1 DEF Shape
<1>4. QED
  BY <1>2, <1>3 DEF Unbroken, e

LEMMA EnterClear ==
  ASSUME NEW p, Shape(p), p.last = p.next => Clean(p)
  PROVE  LET e == Enter(p, p.next, Clear)
         IN  Entered(p, e) /\ Unbroken(p, e) /\ e.exit = p.exit /\ Clean(e)
<1> DEFINE e == Enter(p, p.next, Clear)
           c == IF p.last # p.next THEN Clear(p) ELSE p
<1>1. e = [c EXCEPT !.last = p.next]
  BY DEF Enter
<1>2. /\ Shape(c) /\ c.next = p.next /\ c.data = p.data /\ c.prev = p.prev /\ c.out = p.out
      /\ c.exit = p.exit
  BY DEF Clear, Shape
<1>3. c.broken = p.broken
  BY DEF Clear, Shape
<1>4. Clean(c)
  BY DEF Clear, Shape, Clean
<1> HIDE DEF c, e
<1>5. Entered(p, e) /\ e.exit = p.exit
  BY <1>1, <1>2 DEF Entered, Shape
<1>6. e.broken = c.broken
  BY <1>1, <1>2 DEF Shape
<1>7. Clean(e)
  BY <1>1, <1>2, <1>4 DEF Shape, Clean
<1>8. QED
  BY <1>3, <1>5, <1>6, <1>7 DEF Unbroken, e

LEMMA EnterSequence ==
  ASSUME NEW p, Shape(p)
  PROVE  LET e == Enter(p, p.next, Clear)
         IN  Entered(p, e) /\ Unbroken(p, e) /\ e.exit = p.exit
<1> DEFINE e == Enter(p, p.next, Clear)
           c == IF p.last # p.next THEN Clear(p) ELSE p
<1>1. e = [c EXCEPT !.last = p.next]
  BY DEF Enter
<1>2. /\ Shape(c) /\ c.next = p.next /\ c.data = p.data /\ c.prev = p.prev /\ c.out = p.out
      /\ c.exit = p.exit
  BY DEF Clear, Shape
<1>3. c.broken = p.broken
  BY DEF Clear, Shape
<1> HIDE DEF c, e
<1>4. Entered(p, e) /\ e.exit = p.exit
  BY <1>1, <1>2 DEF Entered, Shape
<1>5. e.broken = c.broken
  BY <1>1, <1>2 DEF Shape
<1>6. QED
  BY <1>3, <1>4, <1>5 DEF Unbroken, e

\* What remembers how the state is to be left
ExitSet(p, e, exit) ==
  /\ Entered(p, e) /\ Unbroken(p, e)
  /\ e.exit = IF p.last = p.next THEN p.exit ELSE exit

LEMMA EnterExit ==
  ASSUME NEW p, Shape(p), NEW c, NEW exit,
         \/ c = p /\ p.last = p.next
         \/ c = [p EXCEPT !.exit = exit] /\ p.last # p.next
         \/ c = [p EXCEPT !.exit = exit, !.legacy = FALSE] /\ p.last # p.next
  PROVE  ExitSet(p, [c EXCEPT !.last = p.next], exit)
<1> DEFINE e == [c EXCEPT !.last = p.next]
<1>1. /\ Shape(c) /\ c.next = p.next /\ c.data = p.data /\ c.prev = p.prev /\ c.out = p.out
      /\ c.exit = IF p.last = p.next THEN p.exit ELSE exit
  BY DEF Shape
<1>2. c.broken = p.broken
  BY DEF Shape
<1>3. Entered(p, e) /\ e.exit = c.exit
  BY <1>1 DEF Entered, Shape
<1>4. e.broken = c.broken
  BY <1>1 DEF Shape
<1>5. QED
  BY <1>1, <1>2, <1>3, <1>4 DEF Unbroken, ExitSet

LEMMA EnterParam ==
  ASSUME NEW p, Shape(p)
  PROVE  LET e == Enter(p, p.next, ParamEntry)
         IN  Entered(p, e) /\ Unbroken(p, e) /\ e.exit \in {p.exit, "param"}
<1> DEFINE c == IF p.last # p.next THEN ParamEntry(p) ELSE p
<1>1. Enter(p, p.next, ParamEntry) = [c EXCEPT !.last = p.next]
  BY DEF Enter
<1>2. \/ c = p /\ p.last = p.next
      \/ c = [p EXCEPT !.exit = "param"] /\ p.last # p.next
  BY DEF ParamEntry
<1> HIDE DEF c
<1>3. ExitSet(p, [c EXCEPT !.last = p.next], "param")
  BY <1>2, EnterExit
<1>4. QED
  BY <1>1, <1>3 DEF ExitSet

LEMMA EnterString ==
  ASSUME NEW p, Shape(p)
  PROVE  /\ ExitSet(p, Enter(p, p.next, DcsEntry), "dcs")
         /\ ExitSet(p, Enter(p, p.next, OscEntry), "osc")
         /\ ExitSet(p, Enter(p, p.next, ApcEntry), "apc")
<1>1. ExitSet(p, Enter(p, p.next, DcsEntry), "dcs")
  <2> DEFINE c == IF p.last # p.next THEN DcsEntry(p) ELSE p
  <2>1. Enter(p, p.next, DcsEntry) = [c EXCEPT !.last = p.next]
    BY DEF Enter
  <2>2. \/ c = p /\ p.last = p.next
        \/ c = [p EXCEPT !.exit = "dcs"] /\ p.last # p.next
    BY DEF DcsEntry
  <2> HIDE DEF c
  <2>3. ExitSet(p, [c EXCEPT !.last = p.next], "dcs")
    BY <2>2, EnterExit
  <2>4. QED
    BY <2>1, <2>3
<1>2. ExitSet(p, Enter(p, p.next, OscEntry), "osc")
  <2> DEFINE c == IF p.last # p.next THEN OscEntry(p) ELSE p
  <2>1. Enter(p, p.next, OscEntry) = [c EXCEPT !.last = p.next]
    BY DEF Enter
  <2>2. \/ c = p /\ p.last = p.next
        \/ c = [p EXCEPT !.exit = "osc", !.legacy = FALSE] /\ p.last # p.next
    BY DEF OscEntry
  <2> HIDE DEF c
  <2>3. ExitSet(p, [c EXCEPT !.last = p.next], "osc")
    BY <2>2, EnterExit
  <2>4. QED
    BY <2>1, <2>3
<1>3. ExitSet(p, Enter(p, p.next, ApcEntry), "apc")
  <2> DEFINE c == IF p.last # p.next THEN ApcEntry(p) ELSE p
  <2>1. Enter(p, p.next, ApcEntry) = [c EXCEPT !.last = p.next]
    BY DEF Enter
  <2>2. \/ c = p /\ p.last = p.next
        \/ c = [p EXCEPT !.exit = "apc", !.legacy = FALSE] /\ p.last # p.next
    BY DEF ApcEntry
  <2> HIDE DEF c
  <2>3. ExitSet(p, [c EXCEPT !.last = p.next], "apc")
    BY <2>2, EnterExit
  <2>4. QED
    BY <2>1, <2>3
<1>4. QED
  BY <1>1, <1>2, <1>3

-----------------------------------------------------------------------------
(* A character in a state that is not a string's *)

\* e stays in its state, or leaves it.  The first character of a string is not ESC.
Steps(e, q, c) ==
  /\ Shape(q)
  /\ q.last = e.last /\ q.data = e.data /\ q.prev = e.prev
  /\ \/ q.next = e.next /\ q.exit = e.exit
     \/ /\ q.next \in States /\ q.exit = "none"
        /\ q.next \in {"DcsPassthrough", "ApcString"} => c # "ESC"
Stepped(e, q, c) == Steps(e, q, c) /\ Unbroken(e, q) /\ Quieter(e, q)

LEMMA SteppedTouched ==
  ASSUME NEW e, NEW q, Touched(e, q), NEW c
  PROVE  Stepped(e, q, c)
BY DEF Stepped, Steps, Touched, Same

LEMMA SteppedTransition ==
  ASSUME NEW e, NEW r, Touched(e, r), e.exit \in {"none", "param"}, NEW c, NEW state \in States,
         state \in {"DcsPassthrough", "ApcString"} => c # "ESC"
  PROVE  Stepped(e, Transition(r, state), c)
<1> DEFINE q == Transition(r, state)
<1>1. Left(r, q, state) /\ Unbroken(r, q)
  BY TransitionLeaves DEF Touched, Same
<1> HIDE DEF q
<1>2. Steps(e, q, c)
  BY <1>1 DEF Steps, Touched, Same, Left
<1>3. Unbroken(e, q)
  BY <1>1 DEF Touched, Unbroken
<1>4. Quieter(e, q)
  BY <1>1 DEF Touched, Quieter, Left
<1>5. QED
  BY <1>2, <1>3, <1>4 DEF Stepped, q

LEMMA SteppedExecute ==
  ASSUME NEW e, Shape(e), e.exit \in {"none", "param"}, NEW c
  PROVE  Stepped(e, Execute(e, c), c)
<1> DEFINE alt == e.next = "Escape"
           q == Emit(e, "control", <<c, alt>>)
<1>1. Touched(e, q)
  <2> HIDE DEF alt
  <2>1. <<c, alt>> \in Seq({c, alt})
    OBVIOUS
  <2>2. QED
    BY <2>1, EmitTouches DEF Strings
<1>2. Touched(e, q)
  BY <1>1
<1> HIDE DEF q
<1>3. Stepped(e, q, c)
  BY <1>2, SteppedTouched
<1>4. Stepped(e, Transition(q, "Ground"), c)
  BY <1>2, SteppedTransition DEF States
<1>5. QED
  BY <1>3, <1>4 DEF Execute, q

LEMMA ExecuteClean ==
  ASSUME NEW e, Shape(e), e.exit = "none", Clean(e), NEW c
  PROVE  Clean(Execute(e, c))
<1> DEFINE alt == e.next = "Escape"
           r == Emit(e, "control", <<c, alt>>)
<1>1. Touched(e, r) /\ Clean(r)
  <2> HIDE DEF alt
  <2>1. <<c, alt>> \in Seq({c, alt})
    OBVIOUS
  <2>2. QED
    BY <2>1, EmitTouches DEF Strings
<1> HIDE DEF r
<1>2. Clean(Transition(r, "Ground"))
  BY <1>1, TransitionLeaves DEF Touched, Same
<1>3. QED
  BY <1>1, <1>2 DEF Execute, r

LEMMA SteppedDispatch ==
  ASSUME NEW e, Shape(e), e.exit \in {"none", "param"}, NEW c
  PROVE  Stepped(e, DispatchCsi(Transition(e, "Ground"), c), c)
<1> DEFINE r == Transition(e, "Ground")
           q == DispatchCsi(r, c)
<1>1. Stepped(e, r, c) /\ Left(e, r, "Ground")
  BY TouchedNothing, TransitionLeaves, SteppedTransition DEF States
<1> HIDE DEF r
<1>2. Touched(r, q)
  BY <1>1, DispatchCsiTouches DEF Left
<1> HIDE DEF q
<1>3. Steps(e, q, c)
  BY <1>1, <1>2 DEF Steps, Touched, Same, Left, States
<1>4. Unbroken(e, q) /\ Quieter(e, q)
  BY <1>1, <1>2 DEF Stepped, Touched, Unbroken, Quieter
<1>5. QED
  BY <1>3, <1>4 DEF Stepped, q, r

-----------------------------------------------------------------------------
(* State by state *)

LEMMA GroundSteps ==
  ASSUME NEW e, Shape(e), e.exit \in {"none", "param"}, NEW c
  PROVE  Stepped(e, Ground(e, c), c)
<1> DEFINE q == Ground(e, c)
<1> SUFFICES Stepped(e, q, c)
  OBVIOUS
<1>1. q = Execute(e, c) \/ q = Emit(e, "print", <<c>>) \/ q = e
  BY DEF Ground
<1> HIDE DEF q
<1>2. CASE q = Execute(e, c)
  BY <1>2, SteppedExecute
<1>3. CASE q = Emit(e, "print", <<c>>)
  <2>1. <<c>> \in Seq({c})
    OBVIOUS
  <2>2. QED
    BY <1>3, <2>1, EmitTouches, SteppedTouched DEF Strings
<1>4. CASE q = e
  BY <1>4, TouchedNothing, SteppedTouched
<1>5. QED
  BY <1>1, <1>2, <1>3, <1>4 DEF q

LEMMA EscapeIntermediateSteps ==
  ASSUME NEW e, Shape(e), e.exit \in {"none", "param"}, NEW c
  PROVE  Stepped(e, EscapeIntermediate(e, c), c)
<1> DEFINE q == EscapeIntermediate(e, c)
<1> SUFFICES Stepped(e, q, c)
  OBVIOUS
<1>1. \/ q = Execute(e, c)
      \/ q = Collect(e, c)
      \/ q = Transition(DispatchEscape(e, c), "Ground")
      \/ q = e
  BY DEF EscapeIntermediate
<1> HIDE DEF q
<1>2. CASE q = Execute(e, c)
  BY <1>2, SteppedExecute
<1>3. CASE q = Collect(e, c)
  BY <1>3, CollectTouches, SteppedTouched
<1>4. CASE q = Transition(DispatchEscape(e, c), "Ground")
  BY <1>4, DispatchEscapeTouches, SteppedTransition DEF States, CsiStates, StringStates, DcsStates
<1>5. CASE q = e
  BY <1>5, TouchedNothing, SteppedTouched
<1>6. QED
  BY <1>1, <1>2, <1>3, <1>4, <1>5 DEF q

LEMMA CsiEntrySteps ==
  ASSUME NEW e, Shape(e), e.exit \in {"none", "param"}, NEW c
  PROVE  Stepped(e, CsiEntry(e, c), c)
<1> DEFINE q == CsiEntry(e, c)
<1> SUFFICES Stepped(e, q, c)
  OBVIOUS
<1>1. \/ q = Execute(e, c)
      \/ q = Transition(DispatchCsi(e, c), "Ground")
      \/ q = Transition(Collect(e, c), "CsiIntermediate")
      \/ q = Transition(TakeParam(e, c), "CsiParam")
      \/ q = Transition(Collect(e, c), "CsiParam")
      \/ q = e
  BY DEF CsiEntry
<1> HIDE DEF q
<1>2. CASE q = Execute(e, c)
  BY <1>2, SteppedExecute
<1>3. CASE q = Transition(DispatchCsi(e, c), "Ground")
  BY <1>3, DispatchCsiTouches, SteppedTransition DEF States, CsiStates, StringStates, DcsStates
<1>4. CASE q = Transition(Collect(e, c), "CsiIntermediate")
  BY <1>4, CollectTouches, SteppedTransition DEF States, CsiStates, StringStates, DcsStates
<1>5. CASE q = Transition(TakeParam(e, c), "CsiParam")
  BY <1>5, TakeParamTouches, SteppedTransition DEF States, CsiStates, StringStates, DcsStates
<1>6. CASE q = Transition(Collect(e, c), "CsiParam")
  BY <1>6, CollectTouches, SteppedTransition DEF States, CsiStates, StringStates, DcsStates
<1>7. CASE q = e
  BY <1>7, TouchedNothing, SteppedTouched
<1>8. QED
  BY <1>1, <1>2, <1>3, <1>4, <1>5, <1>6, <1>7 DEF q

LEMMA CsiIntermediateSteps ==
  ASSUME NEW e, Shape(e), e.exit \in {"none", "param"}, NEW c
  PROVE  Stepped(e, CsiIntermediate(e, c), c)
<1> DEFINE q == CsiIntermediate(e, c)
<1> SUFFICES Stepped(e, q, c)
  OBVIOUS
<1>1. \/ q = Execute(e, c)
      \/ q = Collect(e, c)
      \/ q = Transition(DispatchCsi(e, c), "Ground")
      \/ q = Transition(e, "CsiIgnore")
      \/ q = e
  BY DEF CsiIntermediate
<1> HIDE DEF q
<1>2. CASE q = Execute(e, c)
  BY <1>2, SteppedExecute
<1>3. CASE q = Collect(e, c)
  BY <1>3, CollectTouches, SteppedTouched
<1>4. CASE q = Transition(DispatchCsi(e, c), "Ground")
  BY <1>4, DispatchCsiTouches, SteppedTransition DEF States, CsiStates, StringStates, DcsStates
<1>5. CASE q = Transition(e, "CsiIgnore")
  BY <1>5, TouchedNothing, SteppedTransition DEF States, CsiStates, StringStates, DcsStates
<1>6. CASE q = e
  BY <1>6, TouchedNothing, SteppedTouched
<1>7. QED
  BY <1>1, <1>2, <1>3, <1>4, <1>5, <1>6 DEF q

LEMMA CsiParamSteps ==
  ASSUME NEW e, Shape(e), e.exit \in {"none", "param"}, NEW c
  PROVE  Stepped(e, CsiParam(e, c), c)
<1> DEFINE q == CsiParam(e, c)
<1> SUFFICES Stepped(e, q, c)
  OBVIOUS
<1>1. \/ q = Execute(e, c)
      \/ q = Transition(Collect(e, c), "CsiIntermediate")
      \/ q = DispatchCsi(Transition(e, "Ground"), c)
      \/ q = TakeParam(e, c)
      \/ q = Transition(e, "CsiIgnore")
      \/ q = e
  BY DEF CsiParam
<1> HIDE DEF q
<1>2. CASE q = Execute(e, c)
  BY <1>2, SteppedExecute
<1>3. CASE q = Transition(Collect(e, c), "CsiIntermediate")
  BY <1>3, CollectTouches, SteppedTransition DEF States, CsiStates, StringStates, DcsStates
<1>4. CASE q = DispatchCsi(Transition(e, "Ground"), c)
  BY <1>4, SteppedDispatch
<1>5. CASE q = TakeParam(e, c)
  BY <1>5, TakeParamTouches, SteppedTouched
<1>6. CASE q = Transition(e, "CsiIgnore")
  BY <1>6, TouchedNothing, SteppedTransition DEF States, CsiStates, StringStates, DcsStates
<1>7. CASE q = e
  BY <1>7, TouchedNothing, SteppedTouched
<1>8. QED
  BY <1>1, <1>2, <1>3, <1>4, <1>5, <1>6, <1>7 DEF q

LEMMA CsiIgnoreSteps ==
  ASSUME NEW e, Shape(e), e.exit \in {"none", "param"}, NEW c
  PROVE  Stepped(e, CsiIgnore(e, c), c)
<1> DEFINE q == CsiIgnore(e, c)
<1> SUFFICES Stepped(e, q, c)
  OBVIOUS
<1>1. \/ q = Execute(e, c)
      \/ q = Transition(e, "Ground")
      \/ q = e
  BY DEF CsiIgnore
<1> HIDE DEF q
<1>2. CASE q = Execute(e, c)
  BY <1>2, SteppedExecute
<1>3. CASE q = Transition(e, "Ground")
  BY <1>3, TouchedNothing, SteppedTransition DEF States, CsiStates, StringStates, DcsStates
<1>4. CASE q = e
  BY <1>4, TouchedNothing, SteppedTouched
<1>5. QED
  BY <1>1, <1>2, <1>3, <1>4 DEF q

LEMMA DcsStartSteps ==
  ASSUME NEW e, Shape(e), e.exit \in {"none", "param"}, NEW c
  PROVE  Stepped(e, DcsStart(e, c), c)
<1> DEFINE q == DcsStart(e, c)
<1> SUFFICES Stepped(e, q, c)
  OBVIOUS
<1>1. \/ q = Transition(Collect(e, c), "DcsIntermediate")
      \/ q = Transition(TakeParam(e, c), "DcsParam")
      \/ q = Transition(Collect(e, c), "DcsParam")
      \/ q = Transition(e, "DcsPassthrough") /\ c \in CsiTerminator
      \/ q = e
  BY DEF DcsStart
<1> HIDE DEF q
<1>2. CASE q = Transition(Collect(e, c), "DcsIntermediate")
  BY <1>2, CollectTouches, SteppedTransition DEF States, CsiStates, StringStates, DcsStates
<1>3. CASE q = Transition(TakeParam(e, c), "DcsParam")
  BY <1>3, TakeParamTouches, SteppedTransition DEF States, CsiStates, StringStates, DcsStates
<1>4. CASE q = Transition(Collect(e, c), "DcsParam")
  BY <1>4, CollectTouches, SteppedTransition DEF States, CsiStates, StringStates, DcsStates
<1>5. CASE q = Transition(e, "DcsPassthrough") /\ c \in CsiTerminator
  <2>1. c # "ESC"
    BY <1>5 DEF CsiTerminator
  <2>2. QED
    BY <1>5, <2>1, TouchedNothing, SteppedTransition DEF States, CsiStates, StringStates, DcsStates
<1>6. CASE q = e
  BY <1>6, TouchedNothing, SteppedTouched
<1>7. QED
  BY <1>1, <1>2, <1>3, <1>4, <1>5, <1>6 DEF q

LEMMA DcsParamSteps ==
  ASSUME NEW e, Shape(e), e.exit \in {"none", "param"}, NEW c
  PROVE  Stepped(e, DcsParam(e, c), c)
<1> DEFINE q == DcsParam(e, c)
<1> SUFFICES Stepped(e, q, c)
  OBVIOUS
<1>1. \/ q = TakeParam(e, c)
      \/ q = Transition(e, "DcsIgnore")
      \/ q = Transition(Collect(e, c), "DcsIntermediate")
      \/ q = Transition(e, "DcsPassthrough") /\ c \in CsiTerminator
      \/ q = e
  BY DEF DcsParam
<1> HIDE DEF q
<1>2. CASE q = TakeParam(e, c)
  BY <1>2, TakeParamTouches, SteppedTouched
<1>3. CASE q = Transition(e, "DcsIgnore")
  BY <1>3, TouchedNothing, SteppedTransition DEF States, CsiStates, StringStates, DcsStates
<1>4. CASE q = Transition(Collect(e, c), "DcsIntermediate")
  BY <1>4, CollectTouches, SteppedTransition DEF States, CsiStates, StringStates, DcsStates
<1>5. CASE q = Transition(e, "DcsPassthrough") /\ c \in CsiTerminator
  <2>1. c # "ESC"
    BY <1>5 DEF CsiTerminator
  <2>2. QED
    BY <1>5, <2>1, TouchedNothing, SteppedTransition DEF States, CsiStates, StringStates, DcsStates
<1>6. CASE q = e
  BY <1>6, TouchedNothing, SteppedTouched
<1>7. QED
  BY <1>1, <1>2, <1>3, <1>4, <1>5, <1>6 DEF q

LEMMA DcsIntermediateSteps ==
  ASSUME NEW e, Shape(e), e.exit \in {"none", "param"}, NEW c
  PROVE  Stepped(e, DcsIntermediate(e, c), c)
<1> DEFINE q == DcsIntermediate(e, c)
<1> SUFFICES Stepped(e, q, c)
  OBVIOUS
<1>1. \/ q = Collect(e, c)
      \/ q = Transition(e, "DcsIgnore")
      \/ q = Transition(Collect(e, c), "DcsPassthrough") /\ c \in CsiTerminator
      \/ q = e
  BY DEF DcsIntermediate
<1> HIDE DEF q
<1>2. CASE q = Collect(e, c)
  BY <1>2, CollectTouches, SteppedTouched
<1>3. CASE q = Transition(e, "DcsIgnore")
  BY <1>3, TouchedNothing, SteppedTransition DEF States, CsiStates, StringStates, DcsStates
<1>4. CASE q = Transition(Collect(e, c), "DcsPassthrough") /\ c \in CsiTerminator
  <2>1. c # "ESC"
    BY <1>4 DEF CsiTerminator
  <2>2. QED
    BY <1>4, <2>1, CollectTouches, SteppedTransition DEF States, CsiStates, StringStates, DcsStates
<1>5. CASE q = e
  BY <1>5, TouchedNothing, SteppedTouched
<1>6. QED
  BY <1>1, <1>2, <1>3, <1>4, <1>5 DEF q

LEMMA Ss3Steps ==
  ASSUME NEW e, Shape(e), e.exit \in {"none", "param"}, NEW c
  PROVE  Stepped(e, Ss3(e, c), c)
<1> DEFINE none == <<>>
           q == Emit(e, "CSI", <<none, none, c>>)
<1>1. Touched(e, q)
  <2> HIDE DEF none
  <2>1. <<none, none, c>> \in Seq({none, c})
    OBVIOUS
  <2>2. QED
    BY <2>1, EmitTouches DEF Strings, q
<1> HIDE DEF q
<1>2. Stepped(e, Transition(q, "Ground"), c)
  BY <1>1, SteppedTransition DEF States, CsiStates, StringStates, DcsStates
<1>3. QED
  BY <1>2 DEF Ss3, q

\* From here a sequence goes on with nothing left in the parser, or ends.
LEMMA EscapeSteps ==
  ASSUME NEW e, Shape(e), e.exit = "none", Clean(e), NEW c
  PROVE  /\ Stepped(e, EscapeState(e, c), c)
         /\ Clean(EscapeState(e, c)) \/ EscapeState(e, c).next = "EscapeIntermediate"
<1> DEFINE q == EscapeState(e, c)
<1> SUFFICES Stepped(e, q, c) /\ (Clean(q) \/ q.next = "EscapeIntermediate")
  OBVIOUS
<1>1. \/ q = Execute(e, c)
      \/ q = Transition(e, "CsiEntry") \/ q = Transition(e, "Ss3")
      \/ q = Transition(e, "DcsEntry") \/ q = Transition(e, "OscString")
      \/ q = Transition(e, "SosPmString")
      \/ q = Transition(e, "ApcString") /\ c = "_"
      \/ q = Transition(DispatchEscape(e, c), "Ground")
      \/ q = Transition(Collect(e, c), "EscapeIntermediate")
      \/ q = e
  <2>1. CASE mode = "application"
    <3>1. CASE c \in Executable \cup {"[", "P", "]", "_", "X"}
      BY <2>1, <3>1 DEF EscapeState, EscapeTerminator, Executable, Intermediate, Param, Digits,
                        Separators, Private
    <3>2. CASE c \notin Executable \cup {"[", "P", "]", "_", "X"}
      <4>1. CASE c \in EscapeTerminator
        <5>1. c \notin Intermediate
          BY <4>1 DEF EscapeTerminator, Intermediate, Param, Digits, Separators, Private
        <5>2. q = Transition(DispatchEscape(e, c), "Ground")
          BY <2>1, <3>2, <4>1, <5>1 DEF EscapeState
        <5>3. QED
          BY <5>2
      <4>2. CASE c \in Intermediate /\ c \notin EscapeTerminator
        <5>1. q = Transition(Collect(e, c), "EscapeIntermediate")
          BY <2>1, <3>2, <4>2 DEF EscapeState
        <5>2. QED
          BY <5>1
      <4>3. CASE c \notin Intermediate \cup EscapeTerminator
        <5>1. q = e
          BY <2>1, <3>2, <4>3 DEF EscapeState
        <5>2. QED
          BY <5>1
      <4>4. QED
        BY <4>1, <4>2, <4>3
    <3>3. QED
      BY <3>1, <3>2
  <2>2. CASE mode # "application"
    BY <2>2 DEF EscapeState
  <2>3. QED
    BY <2>1, <2>2
<1> HIDE DEF q
<1>2. CASE q = Execute(e, c)
  BY <1>2, SteppedExecute, ExecuteClean
<1>3. CASE \E state \in {"CsiEntry", "Ss3", "DcsEntry", "OscString", "SosPmString"} :
               q = Transition(e, state)
  <2>1. PICK state \in {"CsiEntry", "Ss3", "DcsEntry", "OscString", "SosPmString"} :
               q = Transition(e, state)
    BY <1>3
  <2>2. state \in States /\ state \notin {"DcsPassthrough", "ApcString"}
    BY DEF States, CsiStates, StringStates, DcsStates
  <2>3. Stepped(e, Transition(e, state), c)
    BY <2>2, TouchedNothing, SteppedTransition
  <2>4. Clean(Transition(e, state))
    BY TransitionLeaves
  <2>5. QED
    BY <2>1, <2>3, <2>4
<1>4. CASE q = Transition(e, "ApcString") /\ c = "_"
  <2>1. Stepped(e, Transition(e, "ApcString"), c)
    BY <1>4, TouchedNothing, SteppedTransition DEF States, StringStates
  <2>2. Clean(Transition(e, "ApcString"))
    BY TransitionLeaves
  <2>3. QED
    BY <1>4, <2>1, <2>2
<1>5. CASE q = Transition(DispatchEscape(e, c), "Ground")
  <2>1. /\ Touched(e, DispatchEscape(e, c)) /\ Clean(DispatchEscape(e, c))
    BY DispatchEscapeTouches
  <2>2. Stepped(e, Transition(DispatchEscape(e, c), "Ground"), c)
    BY <2>1, SteppedTransition DEF States, CsiStates, StringStates, DcsStates
  <2>3. Clean(Transition(DispatchEscape(e, c), "Ground"))
    BY <2>1, TransitionLeaves DEF Touched, Same
  <2>4. QED
    BY <1>5, <2>2, <2>3
<1>6. CASE q = Transition(Collect(e, c), "EscapeIntermediate")
  <2>1. Touched(e, Collect(e, c))
    BY CollectTouches
  <2>2. Stepped(e, q, c)
    BY <1>6, <2>1, SteppedTransition DEF States, CsiStates, StringStates, DcsStates
  <2>3. q.next = "EscapeIntermediate"
    BY <1>6, <2>1, TransitionLeaves DEF Touched, Same, Left
  <2>4. QED
    BY <2>2, <2>3
<1>7. CASE q = e
  BY <1>7, TouchedNothing, SteppedTouched
<1>8. QED
  BY <1>1, <1>2, <1>3, <1>4, <1>5, <1>6, <1>7 DEF q

-----------------------------------------------------------------------------
(* A character in a string *)

\* The parser is where its last and its next state say.
Placed(p) ==
  /\ p.last \in States /\ p.next \in States
  /\ p.exit \in {"none", "param", "dcs", "osc", "apc"}
  /\ p.exit # "none" => p.last = p.next
  /\ p.exit = "param" => p.next \in {"CsiParam", "DcsParam"}
  /\ p.exit = "dcs" => p.next = "DcsPassthrough"
  /\ p.exit = "osc" => p.next = "OscString"
  /\ p.exit = "apc" => p.next = "ApcString"
  /\ p.last = p.next /\ p.next \in Collecting => p.exit \in Handed

\* It has collected something in the states that do only.
Filled(p) == p.data \in Seq(Chars) /\ (p.exit \notin Handed => p.data = <<>>)

\* Nothing is left of a sequence that was cut short.
Spotless(p) == p.last = "Escape" => Clean(p) \/ p.next = "EscapeIntermediate"

\* An ESC in a string is collected, so that the terminator finds it there.
EscapeKept(p, prev) ==
  p.next \in {"DcsPassthrough", "ApcString"} /\ prev = "ESC" => p.data # <<>>

Ready(p) == Shape(p) /\ Placed(p) /\ Filled(p) /\ Spotless(p) /\ p.broken = FALSE
Fine(p) == Ready(p) /\ EscapeKept(p, p.prev)

\* q has taken a character in a string.
InString(e, q, c) ==
  /\ Shape(q) /\ q.last = e.last /\ q.prev = e.prev
  /\ EndsString(e, c) => q.next = "Ground" /\ q.exit = "none" /\ q.data = <<>>
  /\ ~EndsString(e, c) =>
       /\ q.next = e.next /\ q.exit = e.exit /\ q.data \in Seq(Chars)
       /\ EscapeKept(q, c)
       /\ Quieter(e, q)

LEMMA LeaveStringHandsOn ==
  ASSUME NEW e, Shape(e), e.exit \in Handed, e.broken = FALSE, NEW c, EndsString(e, c),
         e.exit # "osc" /\ e.prev = "ESC" => e.data # <<>>
  PROVE  InString(e, LeaveString(e, c), c) /\ LeaveString(e, c).broken = FALSE
<1> DEFINE bell == c = "BEL"
           r == [e EXCEPT !.legacy = bell]
           q == Transition(r, "Ground")
<1>1. /\ Shape(r) /\ r.last = e.last /\ r.exit = e.exit /\ r.data = e.data /\ r.prev = e.prev
  BY DEF Shape
<1>2. r.broken = FALSE
  BY DEF Shape
<1>3. c = "BEL" => r.legacy
  BY DEF Shape
<1> HIDE DEF r
<1>4. r.exit # "osc" => r.legacy \/ r.data # <<>>
  BY <1>1, <1>3 DEF EndsString
<1>5. /\ Shape(q) /\ q.last = r.last /\ q.next = "Ground" /\ q.exit = "none"
      /\ q.data = <<>> /\ q.prev = r.prev /\ q.broken = FALSE
  <2>1. Shape(r) /\ r.exit \in Handed
    BY <1>1
  <2>2. HandedOn(r, q, "Ground")
    BY <2>1, <1>2, <1>4, TransitionHandsOn
  <2>3. QED
    BY <2>2 DEF HandedOn
<1>6. q = LeaveString(e, c)
  BY DEF LeaveString, r
<1> HIDE DEF q
<1>7. InString(e, q, c) /\ q.broken = FALSE
  BY <1>1, <1>5 DEF InString
<1>8. QED
  BY <1>6, <1>7

LEMMA PutCollects ==
  ASSUME NEW e, Shape(e), e.data \in Seq(Chars), NEW c \in Chars, ~EndsString(e, c)
  PROVE  InString(e, Put(e, c), c) /\ Unbroken(e, Put(e, c))
<1> DEFINE data2 == Append(e.data, c)
           q == Put(e, c)
<1>1. q = [e EXCEPT !.data = data2]
  BY DEF Put
<1>2. data2 \in Seq(Chars) /\ data2 # <<>>
  OBVIOUS
<1> HIDE DEF data2, q
<1>3. /\ Shape(q) /\ q.last = e.last /\ q.next = e.next /\ q.exit = e.exit /\ q.prev = e.prev
      /\ q.data = data2 /\ q.out = e.out
  BY <1>1 DEF Shape
<1>4. q.broken = e.broken
  BY <1>1 DEF Shape
<1>5. QED
  BY <1>2, <1>3, <1>4 DEF InString, EscapeKept, Quieter, Unbroken, q

LEMMA NothingCollected ==
  ASSUME NEW e, Shape(e), e.data \in Seq(Chars), NEW c, ~EndsString(e, c), EscapeKept(e, c)
  PROVE  InString(e, e, c)
BY DEF InString, Quieter

LEMMA StringSteps ==
  ASSUME NEW e, Shape(e), e.exit \in Handed, e.broken = FALSE, e.data \in Seq(Chars), NEW c \in Chars,
         e.next # "OscString" /\ e.prev = "ESC" => e.data # <<>>,
         e.exit = "osc" <=> e.next = "OscString"
  PROVE  /\ InString(e, DcsPassthrough(e, c), c) /\ DcsPassthrough(e, c).broken = FALSE
         /\ e.exit = "osc" => InString(e, OscString(e, c), c) /\ OscString(e, c).broken = FALSE
         /\ InString(e, ApcString(e, c), c) /\ ApcString(e, c).broken = FALSE
<1>1. CASE EndsString(e, c)
  <2>1. InString(e, LeaveString(e, c), c) /\ LeaveString(e, c).broken = FALSE
    BY <1>1, LeaveStringHandsOn
  <2>2. QED
    BY <1>1, <2>1 DEF DcsPassthrough, OscString, ApcString
<1>2. CASE ~EndsString(e, c)
  <2>1. InString(e, Put(e, c), c) /\ ~Put(e, c).broken
    BY <1>2, PutCollects DEF Unbroken
  <2>2. c = "DEL" \/ e.exit = "osc" => EscapeKept(e, c)
    BY DEF EscapeKept
  <2>3. c = "DEL" \/ e.exit = "osc" => InString(e, e, c)
    BY <1>2, <2>2, NothingCollected
  <2>4. QED
    BY <1>2, <2>1, <2>3 DEF DcsPassthrough, OscString, ApcString
<1>3. QED
  BY <1>1, <1>2

LEMMA IgnoredSteps ==
  ASSUME NEW e, Shape(e), e.exit = "none", NEW c
  PROVE  /\ Stepped(e, IgnoredString(e, c), c)
         /\ EndsString(e, c) => IgnoredString(e, c).next = "Ground"
<1> DEFINE bell == c = "BEL"
           r == [e EXCEPT !.legacy = bell]
<1>1. Same(e, r)
  BY DEF Same, Shape
<1>2. r.broken = e.broken /\ r.out = e.out
  BY DEF Shape
<1> HIDE DEF r
<1>3. Touched(e, r)
  BY <1>1, <1>2, TouchedIf
<1>4. Stepped(e, Transition(r, "Ground"), c) /\ Transition(r, "Ground").next = "Ground"
  BY <1>3, SteppedTransition, TransitionLeaves DEF States, Touched, Same, Left
<1>5. Stepped(e, e, c)
  BY TouchedNothing, SteppedTouched
<1>6. QED
  BY <1>4, <1>5 DEF IgnoredString, LeaveString, r

-----------------------------------------------------------------------------
(* A character in any state *)

Headers == {"DcsEntry", "DcsParam", "DcsIntermediate"}

Handled(p, q, c) ==
  /\ Ready(q) /\ EscapeKept(q, c) /\ q.prev = p.prev
  /\ p.next \notin Collecting => q.data = <<>>
  /\ (p.next \in Collecting /\ EndsString(p, c)) \/ Quieter(p, q)
  /\ p.next \in StringStates \ Headers /\ EndsString(p, c) => q.next = "Ground"

LEMMA EnteredHandled ==
  ASSUME NEW p, Ready(p), p.next \notin Collecting, NEW e, Entered(p, e), Unbroken(p, e),
         e.exit \in {p.exit, "param"}, e.exit = "param" => e.next \in {"CsiParam", "DcsParam"},
         NEW c, NEW q, Stepped(e, q, c),
         e.next = "Escape" => Clean(q) \/ q.next = "EscapeIntermediate",
         p.next \in StringStates \ Headers /\ EndsString(p, c) => q.next = "Ground"
  PROVE  Handled(p, q, c)
<1>1. /\ p.exit \in {"none", "param"} /\ p.data = <<>> /\ p.next \in States
  BY DEF Ready, Placed, Filled, Handed, Collecting
<1>2. /\ e.last = p.next /\ e.next = p.next /\ e.data = <<>> /\ e.prev = p.prev /\ e.out = p.out
  BY <1>1 DEF Entered
<1>3. /\ Shape(q) /\ q.last = p.next /\ q.data = <<>> /\ q.prev = p.prev
      /\ \/ q.next = p.next /\ q.exit = e.exit
         \/ /\ q.next \in States /\ q.exit = "none"
            /\ q.next \in {"DcsPassthrough", "ApcString"} => c # "ESC"
  BY <1>2 DEF Stepped, Steps
<1>4. Placed(q)
  BY <1>1, <1>2, <1>3 DEF Placed, Collecting
<1>5. <<>> \in Seq(Chars)
  OBVIOUS
<1>6. Filled(q)
  BY <1>3, <1>5 DEF Filled
<1>7. Spotless(q)
  BY <1>2, <1>3 DEF Spotless
<1>8. q.broken = FALSE
  BY DEF Ready, Stepped, Unbroken
<1>9. EscapeKept(q, c)
  BY <1>3 DEF EscapeKept, Collecting
<1>10. Quieter(p, q)
  BY <1>2 DEF Quieter, Stepped
<1>11. Ready(q)
  BY <1>3, <1>4, <1>6, <1>7, <1>8 DEF Ready
<1>12. QED
  BY <1>3, <1>9, <1>10, <1>11 DEF Handled

LEMMA CollectedHandled ==
  ASSUME NEW p, Ready(p), p.next \in Collecting, NEW e, Entered(p, e), e.exit \in Handed,
         e.exit = "dcs" <=> e.next = "DcsPassthrough", e.exit = "osc" <=> e.next = "OscString",
         NEW c, NEW q, InString(e, q, c), q.broken = FALSE
  PROVE  Handled(p, q, c)
<1>1. /\ e.last = p.next /\ e.next = p.next /\ e.data = p.data /\ e.prev = p.prev /\ e.out = p.out
  BY DEF Entered
<1>2. EndsString(e, c) <=> EndsString(p, c)
  BY <1>1 DEF EndsString
<1>3. <<>> \in Seq(Chars)
  OBVIOUS
<1>4. Shape(q) /\ q.last = p.next /\ q.prev = p.prev
  BY <1>1 DEF InString
<1>5. CASE EndsString(p, c)
  <2>1. q.next = "Ground" /\ q.exit = "none" /\ q.data = <<>>
    BY <1>2, <1>5 DEF InString
  <2>2. Placed(q) /\ Filled(q) /\ Spotless(q) /\ EscapeKept(q, c)
    BY <1>3, <1>4, <2>1 DEF Placed, Filled, Spotless, EscapeKept, Collecting, States, StringStates,
                            DcsStates
  <2>3. QED
    BY <1>4, <1>5, <2>1, <2>2 DEF Handled, Ready
<1>6. CASE ~EndsString(p, c)
  <2>1. /\ q.next = p.next /\ q.exit = e.exit /\ q.data \in Seq(Chars)
        /\ EscapeKept(q, c) /\ Quieter(e, q)
    BY <1>1, <1>2, <1>6 DEF InString
  <2>2. Placed(q)
    BY <1>1, <1>4, <2>1 DEF Placed, Collecting, Handed, States, StringStates, DcsStates
  <2>3. Filled(q) /\ Spotless(q)
    BY <1>4, <2>1 DEF Filled, Spotless, Collecting
  <2>4. Quieter(p, q)
    BY <1>1, <2>1 DEF Quieter
  <2>5. QED
    BY <1>4, <1>6, <2>1, <2>2, <2>3, <2>4 DEF Handled, Ready
<1>7. QED
  BY <1>5, <1>6

\* ESC comes to Handle in a string only.
LEMMA HandleFine ==
  ASSUME NEW p, Fine(p), NEW c \in Chars, c = "ESC" => p.next \in StringStates
  PROVE  Handled(p, Handle(p, c), c)
<1> DEFINE q == Handle(p, c)
<1> SUFFICES Handled(p, q, c)
  OBVIOUS
<1>1. /\ Ready(p) /\ Shape(p) /\ Placed(p) /\ Filled(p) /\ Spotless(p) /\ EscapeKept(p, p.prev)
  BY DEF Fine, Ready
<1>2. p.broken = FALSE
  BY DEF Fine, Ready
<1>3. p.exit \notin Handed => p.exit \in {"none", "param"}
  BY <1>1 DEF Placed, Handed
<1>4. p.next \in States
  BY <1>1 DEF Placed
<1>5. p.next \notin Collecting =>
        /\ p.exit \in {"none", "param"}
        /\ p.exit = "param" => p.next \in {"CsiParam", "DcsParam"}
  BY <1>1 DEF Placed, Collecting
<1> DEFINE n == Enter(p, p.next, Nothing)
           s == Enter(p, p.next, Clear)
           m == Enter(p, p.next, ParamEntry)
<1>6. Entered(p, n) /\ Unbroken(p, n) /\ n.exit = p.exit
  BY <1>1, EnterNothing
<1>7. Entered(p, s) /\ Unbroken(p, s) /\ s.exit = p.exit
  BY <1>1, EnterSequence
<1>8. Entered(p, m) /\ Unbroken(p, m) /\ m.exit \in {p.exit, "param"}
  BY <1>1, EnterParam
<1>9. p.next \notin Collecting => EndsString(n, c) = EndsString(p, c)
  BY <1>6 DEF EndsString, Entered
<1> HIDE DEF n, s, m
<1>10. CASE p.next = "Ground"
  <2>1. q = Ground(n, c)
    BY <1>10 DEF Handle, n
  <2>2. Stepped(n, q, c)
    BY <1>5, <1>6, <1>10, <2>1, GroundSteps DEF Entered, Collecting
  <2> HIDE DEF q
  <2>3. QED
    BY <1>1, <1>5, <1>6, <1>10, <2>2, EnteredHandled DEF Entered, Collecting, StringStates, DcsStates
<1>11. CASE p.next = "EscapeIntermediate"
  <2>1. q = EscapeIntermediate(n, c)
    BY <1>11 DEF Handle, n
  <2>2. Stepped(n, q, c)
    BY <1>5, <1>6, <1>11, <2>1, EscapeIntermediateSteps DEF Entered, Collecting
  <2> HIDE DEF q
  <2>3. QED
    BY <1>1, <1>5, <1>6, <1>11, <2>2, EnteredHandled DEF Entered, Collecting, StringStates, DcsStates
<1>12. CASE p.next = "CsiIntermediate"
  <2>1. q = CsiIntermediate(n, c)
    BY <1>12 DEF Handle, n
  <2>2. Stepped(n, q, c)
    BY <1>5, <1>6, <1>12, <2>1, CsiIntermediateSteps DEF Entered, Collecting
  <2> HIDE DEF q
  <2>3. QED
    BY <1>1, <1>5, <1>6, <1>12, <2>2, EnteredHandled DEF Entered, Collecting, StringStates, DcsStates
<1>13. CASE p.next = "CsiIgnore"
  <2>1. q = CsiIgnore(n, c)
    BY <1>13 DEF Handle, n
  <2>2. Stepped(n, q, c)
    BY <1>5, <1>6, <1>13, <2>1, CsiIgnoreSteps DEF Entered, Collecting
  <2> HIDE DEF q
  <2>3. QED
    BY <1>1, <1>5, <1>6, <1>13, <2>2, EnteredHandled DEF Entered, Collecting, StringStates, DcsStates
<1>14. CASE p.next = "Ss3"
  <2>1. q = Ss3(n, c)
    BY <1>14 DEF Handle, n
  <2>2. Stepped(n, q, c)
    BY <1>5, <1>6, <1>14, <2>1, Ss3Steps DEF Entered, Collecting
  <2> HIDE DEF q
  <2>3. QED
    BY <1>1, <1>5, <1>6, <1>14, <2>2, EnteredHandled DEF Entered, Collecting, StringStates, DcsStates
<1>15. CASE p.next = "DcsIntermediate"
  <2>1. q = DcsIntermediate(n, c)
    BY <1>15 DEF Handle, n
  <2>2. Stepped(n, q, c)
    BY <1>5, <1>6, <1>15, <2>1, DcsIntermediateSteps DEF Entered, Collecting
  <2> HIDE DEF q
  <2>3. QED
    BY <1>1, <1>5, <1>6, <1>15, <2>2, EnteredHandled DEF Entered, Collecting, Headers
<1>16. CASE p.next \in {"DcsIgnore", "SosPmString"}
  <2>1. q = IgnoredString(n, c)
    BY <1>16 DEF Handle, n
  <2>2. Stepped(n, q, c) /\ (EndsString(n, c) => q.next = "Ground")
    BY <1>5, <1>6, <1>16, <2>1, IgnoredSteps DEF Entered, Collecting
  <2> HIDE DEF q
  <2>3. QED
    BY <1>1, <1>5, <1>6, <1>9, <1>16, <2>2, EnteredHandled DEF Entered, Collecting, Headers
<1>17. CASE p.next = "Escape"
  <2>1. q = EscapeState(s, c)
    BY <1>17 DEF Handle, s
  <2>2. p.last = p.next => Clean(p)
    BY <1>1, <1>17 DEF Spotless
  <2>3. Clean(s)
    BY <1>1, <2>2, EnterClear DEF s
  <2>4. Shape(s) /\ s.exit = "none"
    BY <1>5, <1>7, <1>17 DEF Entered, Collecting
  <2>5. Stepped(s, q, c) /\ (Clean(q) \/ q.next = "EscapeIntermediate")
    BY <2>1, <2>3, <2>4, EscapeSteps
  <2> HIDE DEF q
  <2>6. QED
    BY <1>1, <1>5, <1>7, <1>17, <2>4, <2>5, EnteredHandled
       DEF Entered, Collecting, StringStates, DcsStates
<1>18. CASE p.next = "CsiEntry"
  <2>1. q = CsiEntry(s, c)
    BY <1>18 DEF Handle, s
  <2>2. Stepped(s, q, c)
    BY <1>5, <1>7, <1>18, <2>1, CsiEntrySteps DEF Entered, Collecting
  <2> HIDE DEF q
  <2>3. QED
    BY <1>1, <1>5, <1>7, <1>18, <2>2, EnteredHandled DEF Entered, Collecting, StringStates, DcsStates
<1>19. CASE p.next = "DcsEntry"
  <2>1. q = DcsStart(s, c)
    BY <1>19 DEF Handle, s
  <2>2. Stepped(s, q, c)
    BY <1>5, <1>7, <1>19, <2>1, DcsStartSteps DEF Entered, Collecting
  <2> HIDE DEF q
  <2>3. QED
    BY <1>1, <1>5, <1>7, <1>19, <2>2, EnteredHandled DEF Entered, Collecting, Headers
<1>20. CASE p.next = "CsiParam"
  <2>1. q = CsiParam(m, c)
    BY <1>20 DEF Handle, m
  <2>2. Stepped(m, q, c)
    BY <1>5, <1>8, <1>20, <2>1, CsiParamSteps DEF Entered, Collecting
  <2> HIDE DEF q
  <2>3. QED
    BY <1>1, <1>5, <1>8, <1>20, <2>2, EnteredHandled DEF Entered, Collecting, StringStates, DcsStates
<1>21. CASE p.next = "DcsParam"
  <2>1. q = DcsParam(m, c)
    BY <1>21 DEF Handle, m
  <2>2. Stepped(m, q, c)
    BY <1>5, <1>8, <1>21, <2>1, DcsParamSteps DEF Entered, Collecting
  <2> HIDE DEF q
  <2>3. QED
    BY <1>1, <1>5, <1>8, <1>21, <2>2, EnteredHandled DEF Entered, Collecting, Headers
<1>22. ASSUME p.next \in Collecting, NEW e, NEW exit, ExitSet(p, e, exit),
              exit = IF p.next = "DcsPassthrough" THEN "dcs"
                     ELSE IF p.next = "OscString" THEN "osc" ELSE "apc"
       PROVE  /\ Entered(p, e) /\ Shape(e) /\ e.exit \in Handed /\ e.data \in Seq(Chars)
              /\ e.next = p.next /\ (e.exit = "dcs" <=> e.next = "DcsPassthrough")
              /\ e.exit = "osc" <=> e.next = "OscString"
              /\ e.next # "OscString" /\ e.prev = "ESC" => e.data # <<>>
              /\ e.broken = FALSE
  <2>1. Entered(p, e) /\ e.exit = IF p.last = p.next THEN p.exit ELSE exit
    BY <1>22 DEF ExitSet
  <2>2. /\ Shape(e) /\ e.next = p.next /\ e.data = p.data /\ e.prev = p.prev
    BY <2>1 DEF Entered
  <2>3. e.exit = exit
    BY <1>1, <1>22, <2>1 DEF Placed, Collecting, Handed
  <2>4. e.exit \in Handed /\ (e.exit = "dcs" <=> e.next = "DcsPassthrough")
        /\ (e.exit = "osc" <=> e.next = "OscString")
    BY <1>22, <2>2, <2>3 DEF Handed, Collecting
  <2>5. e.data \in Seq(Chars)
    BY <1>1, <2>2 DEF Filled
  <2>6. e.next # "OscString" /\ e.prev = "ESC" => e.data # <<>>
    BY <1>1, <1>22, <2>2 DEF EscapeKept, Collecting
  <2>7. e.broken = FALSE
    BY <1>2, <1>22 DEF ExitSet, Unbroken
  <2>8. QED
    BY <2>1, <2>2, <2>4, <2>5, <2>6, <2>7
<1>23. CASE p.next = "DcsPassthrough"
  <2> DEFINE e == Enter(p, p.next, DcsEntry)
  <2>1. q = DcsPassthrough(e, c)
    BY <1>23 DEF Handle
  <2>2. ExitSet(p, e, "dcs")
    BY <1>1, EnterString
  <2> HIDE DEF e, q
  <2>3. /\ Entered(p, e) /\ Shape(e) /\ e.exit \in Handed /\ e.data \in Seq(Chars)
        /\ e.next = p.next /\ (e.exit = "dcs" <=> e.next = "DcsPassthrough")
        /\ e.exit = "osc" <=> e.next = "OscString"
        /\ e.next # "OscString" /\ e.prev = "ESC" => e.data # <<>>
        /\ e.broken = FALSE
    BY <1>22, <1>23, <2>2 DEF Collecting
  <2>4. InString(e, q, c) /\ q.broken = FALSE
    BY <2>1, <2>3, StringSteps
  <2>5. QED
    BY <1>1, <1>23, <2>3, <2>4, CollectedHandled DEF Collecting
<1>24. CASE p.next = "OscString"
  <2> DEFINE e == Enter(p, p.next, OscEntry)
  <2>1. q = OscString(e, c)
    BY <1>24 DEF Handle
  <2>2. ExitSet(p, e, "osc")
    BY <1>1, EnterString
  <2> HIDE DEF e, q
  <2>3. /\ Entered(p, e) /\ Shape(e) /\ e.exit \in Handed /\ e.data \in Seq(Chars)
        /\ e.next = p.next /\ (e.exit = "dcs" <=> e.next = "DcsPassthrough")
        /\ e.exit = "osc" <=> e.next = "OscString"
        /\ e.next # "OscString" /\ e.prev = "ESC" => e.data # <<>>
        /\ e.broken = FALSE
    BY <1>22, <1>24, <2>2 DEF Collecting
  <2>4. InString(e, q, c) /\ q.broken = FALSE
    BY <1>24, <2>1, <2>3, StringSteps
  <2>5. QED
    BY <1>1, <1>24, <2>3, <2>4, CollectedHandled DEF Collecting
<1>25. CASE p.next = "ApcString"
  <2> DEFINE e == Enter(p, p.next, ApcEntry)
  <2>1. q = ApcString(e, c)
    BY <1>25 DEF Handle
  <2>2. ExitSet(p, e, "apc")
    BY <1>1, EnterString
  <2> HIDE DEF e, q
  <2>3. /\ Entered(p, e) /\ Shape(e) /\ e.exit \in Handed /\ e.data \in Seq(Chars)
        /\ e.next = p.next /\ (e.exit = "dcs" <=> e.next = "DcsPassthrough")
        /\ e.exit = "osc" <=> e.next = "OscString"
        /\ e.next # "OscString" /\ e.prev = "ESC" => e.data # <<>>
        /\ e.broken = FALSE
    BY <1>22, <1>25, <2>2 DEF Collecting
  <2>4. InString(e, q, c) /\ q.broken = FALSE
    BY <2>1, <2>3, StringSteps
  <2>5. QED
    BY <1>1, <1>25, <2>3, <2>4, CollectedHandled DEF Collecting
<1>26. QED
  BY <1>4, <1>10, <1>11, <1>12, <1>13, <1>14, <1>15, <1>16, <1>17, <1>18, <1>19, <1>20, <1>21,
     <1>23, <1>24, <1>25 DEF States, CsiStates, StringStates, DcsStates

\* A character that is not one does not end a string, nor begin one.
LEMMA ReplacementStays ==
  ASSUME NEW p, Shape(p), p.next \in StringStates
  PROVE  Handle(p, Replacement).next = p.next
<1> DEFINE c == Replacement
<1>1. /\ c \notin Executable \cup Intermediate \cup Param \cup Private \cup CsiTerminator
      /\ c # "BEL" /\ c # "\\" /\ c # "DEL" /\ c \in Printable
  BY DEF Replacement, Executable, Intermediate, Param, Digits, Separators, Private, CsiTerminator,
         Printable
<1>2. \A e : ~EndsString(e, c)
  BY <1>1 DEF EndsString
<1>3. \A e : Shape(e) => Shape(Put(e, c)) /\ Put(e, c).next = e.next
  BY DEF Put, Shape
<1> DEFINE Stays(e) == Shape(e) /\ e.next = p.next
<1>4. /\ Stays(Enter(p, p.next, Nothing)) /\ Stays(Enter(p, p.next, Clear))
      /\ Stays(Enter(p, p.next, ParamEntry))
  BY EnterNothing, EnterSequence, EnterParam DEF Entered
<1>5. /\ Stays(Enter(p, p.next, DcsEntry)) /\ Stays(Enter(p, p.next, OscEntry))
      /\ Stays(Enter(p, p.next, ApcEntry))
  BY EnterString DEF ExitSet, Entered
<1> HIDE DEF Stays, c
<1>6. CASE p.next \in {"DcsEntry"}
  <2>1. Handle(p, c) = Enter(p, p.next, Clear)
    BY <1>1, <1>6 DEF Handle, DcsStart
  <2>2. QED
    BY <1>4, <2>1 DEF Stays, c
<1>7. CASE p.next = "DcsParam"
  <2>1. Handle(p, c) = Enter(p, p.next, ParamEntry)
    BY <1>1, <1>7 DEF Handle, DcsParam
  <2>2. QED
    BY <1>4, <2>1 DEF Stays, c
<1>8. CASE p.next = "DcsIntermediate"
  <2>1. Handle(p, c) = Enter(p, p.next, Nothing)
    BY <1>1, <1>8 DEF Handle, DcsIntermediate
  <2>2. QED
    BY <1>4, <2>1 DEF Stays, c
<1>9. CASE p.next \in {"DcsIgnore", "SosPmString"}
  <2>1. Handle(p, c) = Enter(p, p.next, Nothing)
    BY <1>2, <1>9 DEF Handle, IgnoredString
  <2>2. QED
    BY <1>4, <2>1 DEF Stays, c
<1>10. CASE p.next = "DcsPassthrough"
  <2>1. Handle(p, c) = Put(Enter(p, p.next, DcsEntry), c)
    BY <1>1, <1>2, <1>10 DEF Handle, DcsPassthrough
  <2>2. QED
    BY <1>3, <1>5, <2>1 DEF Stays, c
<1>11. CASE p.next = "OscString"
  <2>1. Handle(p, c) = Put(Enter(p, p.next, OscEntry), c)
    BY <1>1, <1>2, <1>11 DEF Handle, OscString
  <2>2. QED
    BY <1>3, <1>5, <2>1 DEF Stays, c
<1>12. CASE p.next = "ApcString"
  <2>1. Handle(p, c) = Put(Enter(p, p.next, ApcEntry), c)
    BY <1>1, <1>2, <1>12 DEF Handle, ApcString
  <2>2. QED
    BY <1>3, <1>5, <2>1 DEF Stays, c
<1>13. QED
  BY <1>6, <1>7, <1>8, <1>9, <1>10, <1>11, <1>12 DEF StringStates, DcsStates

-----------------------------------------------------------------------------
(* A call of the parser *)

\* A state is left for good, when nothing has been collected in it.
LEMMA LeftReady ==
  ASSUME NEW p, Ready(p), p.exit \notin Handed,
         p.last = "Escape" => p.next # "EscapeIntermediate",
         NEW c, NEW r, Stepped(p, r, c), p.exit = "none" /\ Clean(p) => Clean(r),
         NEW state \in {"Ground", "Escape"}
  PROVE  LET q == Transition(r, state)
         IN  Ready(q) /\ q.next = state /\ q.prev = p.prev /\ Quieter(p, q) /\ q.data = <<>>
<1> DEFINE q == Transition(r, state)
<1>1. /\ Placed(p) /\ Filled(p) /\ Spotless(p)
  BY DEF Ready
<1>2. p.exit \in {"none", "param"} /\ p.data = <<>>
  BY <1>1 DEF Placed, Filled, Handed
<1>3. /\ Shape(r) /\ r.last = p.last /\ r.data = <<>> /\ r.prev = p.prev
      /\ r.exit \in {p.exit, "none"}
  BY <1>2 DEF Stepped, Steps
<1>4. Left(r, q, state) /\ Unbroken(r, q) /\ (r.exit = "none" /\ Clean(r) => Clean(q))
  BY <1>2, <1>3, TransitionLeaves
<1> HIDE DEF q
<1>5. /\ Shape(q) /\ q.last = p.last /\ q.next = state /\ q.exit = "none" /\ q.data = <<>>
      /\ q.prev = p.prev /\ q.out = r.out
  BY <1>3, <1>4 DEF Left
<1>6. Placed(q)
  BY <1>1, <1>5 DEF Placed, States, Collecting
<1>7. <<>> \in Seq(Chars)
  OBVIOUS
<1>8. Filled(q)
  BY <1>5, <1>7 DEF Filled
<1>9. p.last = "Escape" => p.exit = "none" /\ Clean(p)
  BY <1>1, <1>2 DEF Placed, Spotless
<1>10. Spotless(q)
  BY <1>3, <1>4, <1>5, <1>9 DEF Spotless
<1>11. q.broken = FALSE
  BY <1>4 DEF Ready, Stepped, Unbroken
<1>12. Quieter(p, q)
  BY <1>5 DEF Quieter, Stepped
<1>13. QED
  BY <1>5, <1>6, <1>8, <1>10, <1>11, <1>12 DEF Ready, q

LEMMA RememberedFine ==
  ASSUME NEW r, Ready(r), NEW c, EscapeKept(r, c)
  PROVE  LET q == [r EXCEPT !.prev = c]
         IN  Fine(q) /\ q.prev = c /\ q.next = r.next /\ q.out = r.out /\ q.data = r.data
<1> DEFINE q == [r EXCEPT !.prev = c]
<1>1. Shape(r) /\ Placed(r) /\ Filled(r) /\ Spotless(r)
  BY DEF Ready
<1>2. /\ Shape(q) /\ q.last = r.last /\ q.next = r.next /\ q.exit = r.exit /\ q.data = r.data
      /\ q.out = r.out /\ q.prev = c
  BY <1>1 DEF Shape
<1>3. q.broken = r.broken
  BY <1>1 DEF Shape
<1>4. Clean(r) => Clean(q)
  BY <1>1 DEF Shape, Clean
<1> HIDE DEF q
<1>5. Placed(q) /\ Filled(q) /\ Spotless(q) /\ EscapeKept(q, q.prev)
  BY <1>1, <1>2, <1>4 DEF Placed, Filled, Spotless, EscapeKept
<1>6. q.broken = FALSE
  BY <1>3 DEF Ready
<1>7. QED
  BY <1>2, <1>5, <1>6 DEF Ready, Fine, q

\* q has taken c.
Took(p, q, c) ==
  /\ Fine(q) /\ q.prev = c
  /\ p.next \notin Collecting => q.data = <<>>
  /\ (p.next \in Collecting /\ EndsString(p, c)) \/ Quieter(p, q)
  /\ p.next \in StringStates \ Headers /\ EndsString(p, c) => q.next = "Ground"

LEMMA OnInputFine ==
  ASSUME NEW p, Fine(p), NEW c \in Chars, NEW flush,
         ~Awkward("intermediate", p, c, flush), ~Awkward("cancel", p, c, flush)
  PROVE  Took(p, OnInput(p, c), c)
<1>1. Ready(p) /\ Shape(p) /\ Placed(p)
  BY DEF Fine, Ready
<1>2. c \in {"ESC", "CAN"} => (p.last = "Escape" => p.next # "EscapeIntermediate")
  BY DEF Awkward
<1>3. c = "CAN" => p.exit \notin Handed
  BY DEF Awkward, Handed
<1>4. c = "ESC" /\ p.next \notin StringStates => p.exit \notin Handed
  BY <1>1 DEF Placed, Handed, StringStates, DcsStates
<1>5. ASSUME NEW r, Ready(r), EscapeKept(r, c), NEW q, q = [r EXCEPT !.prev = c],
             p.next \notin Collecting => r.data = <<>>,
             (p.next \in Collecting /\ EndsString(p, c)) \/ Quieter(p, r),
             p.next \in StringStates \ Headers /\ EndsString(p, c) => r.next = "Ground"
      PROVE  Took(p, q, c)
  BY <1>5, RememberedFine DEF Took, Quieter
<1>6. ASSUME c \in {"CAN", "ESC"}, p.exit \notin Handed,
             NEW state \in {"Ground", "Escape"}, NEW r, r \in {p, Execute(p, c)}
      PROVE  Took(p, [Transition(r, state) EXCEPT !.prev = c], c)
  <2> DEFINE q == Transition(r, state)
  <2>1. p.exit \in {"none", "param"}
    BY <1>1, <1>6 DEF Placed, Handed
  <2>2. Stepped(p, p, c) /\ Stepped(p, Execute(p, c), c)
    BY <1>1, <2>1, TouchedNothing, SteppedTouched, SteppedExecute
  <2>3. p.exit = "none" /\ Clean(p) => Clean(Execute(p, c))
    BY <1>1, ExecuteClean
  <2>4. Stepped(p, r, c) /\ (p.exit = "none" /\ Clean(p) => Clean(r))
    BY <1>6, <2>2, <2>3
  <2>5. Ready(q) /\ q.next = state /\ Quieter(p, q) /\ q.data = <<>>
    BY <1>1, <1>2, <1>6, <2>4, LeftReady
  <2> HIDE DEF q
  <2>6. EscapeKept(q, c)
    BY <2>5 DEF EscapeKept
  <2>7. ~EndsString(p, c)
    BY <1>6 DEF EndsString
  <2>8. Took(p, [q EXCEPT !.prev = c], c)
    BY <1>5, <2>5, <2>6, <2>7
  <2>9. QED
    BY <2>8 DEF q
<1>7. CASE c = "CAN"
  <2>1. OnInput(p, c) = [Transition(Execute(p, c), "Ground") EXCEPT !.prev = c]
    BY <1>7 DEF OnInput
  <2>2. QED
    BY <1>3, <1>6, <1>7, <2>1
<1>8. CASE c = "ESC" /\ p.next \notin StringStates
  <2>1. \/ OnInput(p, c) = [Transition(Execute(p, c), "Ground") EXCEPT !.prev = c]
        \/ OnInput(p, c) = [Transition(p, "Escape") EXCEPT !.prev = c]
    BY <1>8 DEF OnInput
  <2>2. QED
    BY <1>4, <1>6, <1>8, <2>1
<1>9. CASE c # "CAN" /\ ~(c = "ESC" /\ p.next \notin StringStates)
  <2>1. OnInput(p, c) = [Handle(p, c) EXCEPT !.prev = c]
    BY <1>9 DEF OnInput
  <2>2. Handled(p, Handle(p, c), c)
    BY <1>9, HandleFine
  <2>3. QED
    BY <1>5, <2>1, <2>2 DEF Handled
<1>10. QED
  BY <1>7, <1>8, <1>9

\* The end of a read
LEMMA FlushFine ==
  ASSUME NEW p, Fine(p), p.exit \notin {"dcs", "osc"}
  PROVE  LET q == Flush(p)
         IN  /\ Fine(q) /\ q.prev = p.prev /\ Quieter(p, q) /\ (p.next = "Ground" => q = p)
             /\ q = p \/ q.next = "Ground"
<1> DEFINE q == Flush(p)
<1> SUFFICES /\ Fine(q) /\ q.prev = p.prev /\ Quieter(p, q) /\ (p.next = "Ground" => q = p)
             /\ q = p \/ q.next = "Ground"
  OBVIOUS
<1> DEFINE alt == p.next # "Escape"
           taken == {"Escape", "OscString"} \cup DcsStates
<1>1. CASE p.next \notin taken
  <2>1. q = p
    BY <1>1 DEF Flush
  <2> HIDE DEF q
  <2>2. QED
    BY <2>1 DEF Quieter
<1>2. CASE p.next \in taken
  <2>1. Ready(p) /\ Shape(p) /\ Placed(p)
    BY DEF Fine, Ready
  <2>2. p.exit \notin Handed /\ p.next # "Ground" /\ p.next # "EscapeIntermediate"
    BY <1>2, <2>1 DEF Placed, Handed, DcsStates
  <2>3. Stepped(p, p, "ESC")
    BY <2>1, TouchedNothing, SteppedTouched
  <2> DEFINE r == Transition(p, "Ground")
  <2>4. Ready(r) /\ r.next = "Ground" /\ r.prev = p.prev /\ Quieter(p, r)
    BY <2>1, <2>2, <2>3, LeftReady
  <2>5. PICK c : q = Emit(r, "control", <<c, alt>>)
    BY <1>2 DEF Flush, DcsStates
  <2> HIDE DEF r, q, alt
  <2>6. Touched(r, q) /\ (Clean(r) => Clean(q))
    <3>1. <<c, alt>> \in Seq({c, alt}) /\ "control" \notin Strings
      BY DEF Strings
    <3>2. Shape(r)
      BY <2>4 DEF Ready
    <3>3. QED
      BY <2>5, <3>1, <3>2, EmitTouches
  <2>7. Shape(r) /\ Placed(r) /\ Filled(r) /\ Spotless(r) /\ r.broken = FALSE
    BY <2>4 DEF Ready
  <2>8. Same(r, q) /\ q.broken = FALSE
    BY <2>6, <2>7 DEF Touched, Unbroken
  <2>9. Ready(q)
    BY <2>6, <2>7, <2>8 DEF Ready, Same, Placed, Filled, Spotless
  <2>10. Fine(q)
    BY <2>4, <2>8, <2>9 DEF Fine, EscapeKept, Same
  <2>11. Quieter(p, q)
    BY <2>4, <2>6 DEF Quieter, Touched
  <2>12. QED
    BY <2>2, <2>4, <2>8, <2>10, <2>11 DEF Same
<1>3. QED
  BY <1>1, <1>2

\* What a call with c makes of p
Parsed(p, q, c) ==
  /\ Fine(q) /\ q.prev = c
  /\ p.next \notin Collecting /\ q.next \in Collecting => q.data = <<>>
  /\ (p.next \in Collecting /\ EndsString(p, c)) \/ Quiet(q.out)
  /\ p.next \in StringStates \ Headers /\ EndsString(p, c) => q.next = "Ground"

LEMMA NewCall ==
  ASSUME NEW p, Fine(p)
  PROVE  LET e == [p EXCEPT !.out = <<>>]
         IN  /\ Fine(e) /\ e.next = p.next /\ e.exit = p.exit /\ e.prev = p.prev
             /\ e.last = p.last /\ e.out = <<>>
<1> DEFINE e == [p EXCEPT !.out = <<>>]
<1>1. Shape(p) /\ Placed(p) /\ Filled(p) /\ Spotless(p) /\ p.broken = FALSE /\ EscapeKept(p, p.prev)
  BY DEF Fine, Ready
<1>2. /\ Shape(e) /\ e.last = p.last /\ e.next = p.next /\ e.exit = p.exit /\ e.data = p.data
      /\ e.prev = p.prev /\ e.out = <<>>
  BY <1>1 DEF Shape
<1>3. e.broken = p.broken
  BY <1>1 DEF Shape
<1>4. Clean(p) => Clean(e)
  BY <1>1 DEF Shape, Clean
<1> HIDE DEF e
<1>5. Placed(e) /\ Filled(e) /\ Spotless(e) /\ EscapeKept(e, e.prev)
  BY <1>1, <1>2, <1>4 DEF Placed, Filled, Spotless, EscapeKept
<1>6. QED
  BY <1>1, <1>2, <1>3, <1>5 DEF Fine, Ready, e

LEMMA ParseFine ==
  ASSUME NEW p, Fine(p), NEW c \in Chars, NEW flush \in BOOLEAN,
         ~Awkward("intermediate", p, c, flush), ~Awkward("cancel", p, c, flush),
         ~Awkward("cut", p, c, flush)
  PROVE  Parsed(p, Parse(p, c, flush), c)
<1> DEFINE e == [p EXCEPT !.out = <<>>]
           q == OnInput(e, c)
<1>1. /\ Fine(e) /\ e.next = p.next /\ e.exit = p.exit /\ e.prev = p.prev
      /\ e.last = p.last /\ e.out = <<>>
  BY NewCall
<1>2. ~Awkward("intermediate", e, c, flush) /\ ~Awkward("cancel", e, c, flush)
  BY <1>1 DEF Awkward
<1>3. Parse(p, c, FALSE) = q /\ Parse(p, c, flush) = IF flush THEN Flush(q) ELSE q
  BY DEF Parse
<1>4. flush => q.exit \notin {"dcs", "osc"}
  BY <1>3 DEF Awkward
<1> HIDE DEF e
<1>5. Took(e, q, c)
  BY <1>1, <1>2, OnInputFine
<1> HIDE DEF q
<1>6. EndsString(e, c) <=> EndsString(p, c)
  BY <1>1 DEF EndsString
<1>7. Quiet(e.out)
  BY <1>1, QuietEmpty
<1>8. Parsed(p, q, c)
  BY <1>1, <1>5, <1>6, <1>7 DEF Parsed, Took, Quieter
<1>9. CASE flush
  <2>1. /\ Fine(Flush(q)) /\ Flush(q).prev = q.prev /\ Quieter(q, Flush(q))
        /\ q.next = "Ground" => Flush(q) = q
        /\ Flush(q) = q \/ Flush(q).next = "Ground"
    BY <1>4, <1>8, <1>9, FlushFine DEF Parsed
  <2>2. QED
    BY <1>3, <1>8, <1>9, <2>1 DEF Parsed, Quieter, Collecting
<1>10. QED
  BY <1>3, <1>8, <1>9

LEMMA ReplacementParsed ==
  ASSUME NEW p, Fine(p), p.next \in StringStates
  PROVE  Parse(p, Replacement, FALSE).next = p.next
<1> DEFINE e == [p EXCEPT !.out = <<>>]
           r == Handle(e, Replacement)
<1>1. Fine(e) /\ e.next = p.next
  BY NewCall
<1>2. Parse(p, Replacement, FALSE) = [r EXCEPT !.prev = Replacement]
  BY DEF Parse, OnInput, Replacement
<1> HIDE DEF e
<1>3. r.next = p.next
  BY <1>1, ReplacementStays DEF Fine, Ready
<1>4. Shape(r)
  <2>1. Replacement \in Chars /\ Replacement # "ESC"
    BY DEF Chars, Replacement
  <2>2. QED
    BY <1>1, <2>1, HandleFine DEF Handled, Ready
<1> HIDE DEF r
<1>5. QED
  BY <1>2, <1>3, <1>4 DEF Shape

-----------------------------------------------------------------------------
(* The text of a string *)

\* What has been collected of a string is its text.
Holds(p, text) == p.next \in Collecting => p.data = text

\* q has taken c within a string: the text grows, or the string is handed on.
Heard(p, q, c) ==
  /\ ~EndsString(p, c) =>
       q.data = IF IsText(p.next, c) THEN Append(p.data, c) ELSE p.data
  /\ EndsString(p, c) /\ p.out = <<>> =>
       \E item : q.out = <<item>> /\ HasText(item, p.data, c = "BEL")

LEMMA LeaveHeard ==
  ASSUME NEW e, Shape(e), e.exit \in Handed, e.out = <<>>, NEW c,
         e.exit # "osc" /\ c # "BEL" => e.data # <<>>
  PROVE  \E item : LeaveString(e, c).out = <<item>> /\ HasText(item, e.data, c = "BEL")
<1> DEFINE bell == c = "BEL"
           r == [e EXCEPT !.legacy = bell]
           d == DropEscape(r)
           ended == IF bell THEN e.data ELSE SubSeq(e.data, 1, Len(e.data) - 1)
           x == OnExit(r)
<1>1. /\ Shape(r) /\ r.exit = e.exit /\ r.data = e.data /\ r.out = <<>> /\ r.legacy = bell
  BY DEF Shape
<1>2. LeaveString(e, c) = [x EXCEPT !.exit = "none", !.next = "Ground"]
  BY DEF LeaveString, Transition
<1> HIDE DEF r
<1>3. r.exit # "osc" => /\ d = IF bell THEN r ELSE [r EXCEPT !.data = ended]
  BY <1>1 DEF DropEscape
<1> HIDE DEF bell, ended
<1>4. r.exit # "osc" => Shape(d) /\ d.out = <<>> /\ d.data = ended
  BY <1>1, <1>3 DEF Shape, ended
<1> HIDE DEF d
<1>5. PICK item, s : /\ HasText(item, e.data, bell) /\ Shape(s)
                     /\ x.out = <<item>>
                     /\ \/ x = [s EXCEPT !.intermediate = <<>>, !.params = <<>>, !.data = <<>>]
                        \/ x = [s EXCEPT !.data = <<>>]
  <2>1. CASE e.exit = "dcs"
    <3> DEFINE item == <<"DCS">> \o <<d.intermediate, d.params, d.data>>
               s == [d EXCEPT !.out = Append(@, item)]
    <3>1. x = [s EXCEPT !.intermediate = <<>>, !.params = <<>>, !.data = <<>>]
      BY <1>1, <2>1 DEF OnExit, EndDcs, Emit, d
    <3>2. item[1] = "DCS" /\ item[4] = ended
      BY <1>1, <1>4, <2>1
    <3> HIDE DEF item
    <3>3. Shape(d) /\ d.out = <<>>
      BY <1>1, <1>4, <2>1
    <3>4. Shape(s) /\ s.out = <<item>>
      BY <3>3 DEF Shape
    <3> HIDE DEF s
    <3>5. x.out = <<item>>
      BY <3>1, <3>4 DEF Shape
    <3>6. HasText(item, e.data, bell)
      BY <3>2 DEF HasText, ended
    <3>7. QED
      BY <3>1, <3>4, <3>5, <3>6
  <2>2. CASE e.exit = "osc"
    <3> DEFINE item == <<"OSC">> \o <<r.data, r.legacy>>
               s == [r EXCEPT !.out = Append(@, item)]
    <3>1. x = [s EXCEPT !.data = <<>>]
      BY <1>1, <2>2 DEF OnExit, EndOsc, Emit
    <3>2. item[1] = "OSC" /\ item[2] = e.data
      BY <1>1
    <3> HIDE DEF item
    <3>3. Shape(s) /\ s.out = <<item>>
      BY <1>1 DEF Shape
    <3> HIDE DEF s
    <3>4. x.out = <<item>>
      BY <3>1, <3>3 DEF Shape
    <3>5. HasText(item, e.data, bell)
      BY <3>2 DEF HasText
    <3>6. QED
      BY <3>1, <3>3, <3>4, <3>5
  <2>3. CASE e.exit = "apc"
    <3> DEFINE item == <<"APC">> \o <<d.data>>
               s == [d EXCEPT !.out = Append(@, item)]
    <3>1. x = [s EXCEPT !.data = <<>>]
      BY <1>1, <2>3 DEF OnExit, EndApc, Emit, d
    <3>2. item[1] = "APC" /\ item[2] = ended
      BY <1>1, <1>4, <2>3
    <3> HIDE DEF item
    <3>3. Shape(d) /\ d.out = <<>>
      BY <1>1, <1>4, <2>3
    <3>4. Shape(s) /\ s.out = <<item>>
      BY <3>3 DEF Shape
    <3> HIDE DEF s
    <3>5. x.out = <<item>>
      BY <3>1, <3>4 DEF Shape
    <3>6. HasText(item, e.data, bell)
      BY <3>2 DEF HasText, ended
    <3>7. QED
      BY <3>1, <3>4, <3>5, <3>6
  <2>4. QED
    BY <2>1, <2>2, <2>3 DEF Handed
<1> HIDE DEF x
<1>6. LeaveString(e, c).out = x.out
  BY <1>2, <1>5 DEF Shape
<1>7. QED
  BY <1>5, <1>6 DEF bell

LEMMA HandleHears ==
  ASSUME NEW p, Fine(p), p.next \in Collecting, NEW c
  PROVE  Heard(p, Handle(p, c), c)
<1>1. /\ Shape(p) /\ Placed(p) /\ EscapeKept(p, p.prev)
  BY DEF Fine, Ready
<1>2. ASSUME NEW e, NEW exit \in Handed, ExitSet(p, e, exit)
      PROVE  /\ Shape(e) /\ e.exit \in Handed /\ e.next = p.next /\ e.data = p.data
             /\ e.prev = p.prev /\ e.out = p.out /\ (EndsString(e, c) <=> EndsString(p, c))
             /\ p.last # p.next => e.exit = exit
             /\ p.last = p.next => e.exit = p.exit
  BY <1>1, <1>2 DEF ExitSet, Entered, Placed, EndsString
<1>3. ASSUME NEW e, NEW exit \in Handed, ExitSet(p, e, exit), EndsString(p, c), p.out = <<>>,
             p.next = "OscString" => exit = "osc"
      PROVE  Heard(p, LeaveString(e, c), c)
  <2>1. /\ Shape(e) /\ e.exit \in Handed /\ e.data = p.data /\ e.out = p.out
        /\ p.last # p.next => e.exit = exit
        /\ p.last = p.next => e.exit = p.exit
    BY <1>2, <1>3
  <2>2. p.next = "OscString" => e.exit = "osc"
    BY <1>1, <1>3, <2>1 DEF Placed, Handed, Collecting
  <2>3. e.exit # "osc" /\ c # "BEL" => e.data # <<>>
    BY <1>1, <1>3, <2>1, <2>2 DEF EscapeKept, EndsString, Collecting
  <2>4. \E item : LeaveString(e, c).out = <<item>> /\ HasText(item, e.data, c = "BEL")
    BY <1>2, <1>3, <2>3, LeaveHeard
  <2>5. QED
    BY <1>2, <1>3, <2>4 DEF Heard
<1>4. ASSUME NEW e, Shape(e), e.data = p.data
      PROVE  Put(e, c).data = Append(p.data, c)
  BY <1>4 DEF Put, Shape
<1>5. CASE p.next = "DcsPassthrough"
  <2> DEFINE e == Enter(p, p.next, DcsEntry)
  <2>1. Handle(p, c) = DcsPassthrough(e, c) /\ ExitSet(p, e, "dcs")
    BY <1>1, <1>5, EnterString DEF Handle
  <2> HIDE DEF e
  <2>2. QED
    BY <1>2, <1>3, <1>4, <1>5, <2>1 DEF DcsPassthrough, Heard, IsText, Handed
<1>6. CASE p.next = "OscString"
  <2> DEFINE e == Enter(p, p.next, OscEntry)
  <2>1. Handle(p, c) = OscString(e, c) /\ ExitSet(p, e, "osc")
    BY <1>1, <1>6, EnterString DEF Handle
  <2> HIDE DEF e
  <2>2. QED
    BY <1>2, <1>3, <1>4, <1>6, <2>1 DEF OscString, Heard, IsText, Handed
<1>7. CASE p.next = "ApcString"
  <2> DEFINE e == Enter(p, p.next, ApcEntry)
  <2>1. Handle(p, c) = ApcString(e, c) /\ ExitSet(p, e, "apc")
    BY <1>1, <1>7, EnterString DEF Handle
  <2> HIDE DEF e
  <2>2. QED
    BY <1>2, <1>3, <1>4, <1>7, <2>1 DEF ApcString, Heard, IsText, Handed
<1>8. QED
  BY <1>5, <1>6, <1>7 DEF Collecting

LEMMA CancelGround ==
  ASSUME NEW p, Fine(p), p.exit \notin Handed, NEW c
  PROVE  [Transition(Execute(p, c), "Ground") EXCEPT !.prev = c].next = "Ground"
<1> DEFINE r == Execute(p, c)
           q == Transition(r, "Ground")
<1>1. Shape(p) /\ p.exit \in {"none", "param"}
  BY DEF Fine, Ready, Placed, Handed
<1>2. Shape(r) /\ r.exit \in {"none", "param"}
  BY <1>1, SteppedExecute DEF Stepped, Steps
<1> HIDE DEF r
<1>3. Shape(q) /\ q.next = "Ground"
  BY <1>2, TransitionLeaves DEF Left
<1> HIDE DEF q
<1>4. QED
  BY <1>3 DEF Shape, q, r

\* A call keeps the text of the string, and hands it on at the end.
LEMMA ParseKeepsText ==
  ASSUME NEW p, Fine(p), NEW c \in Chars, NEW flush \in BOOLEAN, NEW text, Holds(p, text),
         ~Awkward("intermediate", p, c, flush), ~Awkward("cancel", p, c, flush),
         ~Awkward("cut", p, c, flush)
  PROVE  LET q == Parse(p, c, flush)
         IN  /\ Holds(q, TextWith(text, p, c))
             /\ \A i \in DOMAIN q.out : HasText(q.out[i], TextWith(text, p, c), c = "BEL")
<1> DEFINE q == Parse(p, c, flush)
           new == TextWith(text, p, c)
<1> SUFFICES Holds(q, new) /\ \A i \in DOMAIN q.out : HasText(q.out[i], new, c = "BEL")
  OBVIOUS
<1>1. Parsed(p, q, c)
  BY ParseFine
<1>2. ASSUME Quiet(q.out)
      PROVE  \A i \in DOMAIN q.out : HasText(q.out[i], new, c = "BEL")
  BY <1>2 DEF Quiet, HasText, Strings
<1>3. CASE p.next \notin Collecting
  <2>1. new = <<>> /\ Quiet(q.out)
    BY <1>1, <1>3 DEF TextWith, Collecting, Parsed
  <2>2. Holds(q, new)
    BY <1>1, <1>3, <2>1 DEF Holds, Parsed
  <2>3. QED
    BY <1>2, <2>1, <2>2
<1>4. CASE p.next \in Collecting
  <2> DEFINE e == [p EXCEPT !.out = <<>>]
             r == OnInput(e, c)
  <2>1. /\ Fine(e) /\ e.next = p.next /\ e.prev = p.prev /\ e.out = <<>> /\ e.data = p.data
        /\ e.exit = p.exit /\ e.last = p.last
    BY NewCall DEF Fine, Ready, Shape
  <2>2. q = (IF flush THEN Flush(r) ELSE r) /\ Parse(p, c, FALSE) = r
    BY DEF Parse
  <2>3. p.data = text /\ (EndsString(e, c) <=> EndsString(p, c))
    BY <1>4, <2>1 DEF Holds, EndsString
  <2> HIDE DEF e
  <2>4. Fine(r)
    <3>1. ~Awkward("intermediate", e, c, flush) /\ ~Awkward("cancel", e, c, flush)
      BY <2>1 DEF Awkward
    <3>2. QED
      BY <2>1, <3>1, OnInputFine DEF Took
  <2>5. q = r \/ q.next = "Ground"
    <3>1. flush => r.exit \notin {"dcs", "osc"}
      BY <2>2 DEF Awkward
    <3> HIDE DEF r
    <3>2. QED
      BY <2>2, <2>4, <3>1, FlushFine
  <2>6. ~EndsString(p, c) => new = IF IsText(p.next, c) THEN Append(text, c) ELSE text
    BY <1>4 DEF TextWith, Collecting
  <2>7. EndsString(p, c) => new = text
    BY <1>4 DEF TextWith, Collecting
  <2>8. CASE c = "CAN"
    <3>1. Quiet(q.out)
      BY <1>1, <2>8 DEF Parsed, EndsString
    <3>2. r = [Transition(Execute(e, c), "Ground") EXCEPT !.prev = c]
      BY <2>8 DEF OnInput
    <3>3. e.exit \notin Handed
      BY <2>1, <2>8 DEF Awkward, Handed
    <3>4. q.next = "Ground"
      BY <2>1, <2>5, <3>2, <3>3, CancelGround
    <3>5. QED
      BY <1>2, <3>1, <3>4 DEF Holds, Collecting
  <2>9. CASE c # "CAN"
    <3> DEFINE h == Handle(e, c)
    <3>1. r = [h EXCEPT !.prev = c]
      BY <1>4, <2>1, <2>9 DEF OnInput, Collecting, StringStates, DcsStates
    <3>2. Heard(e, h, c)
      BY <1>4, <2>1, HandleHears
    <3>3. Handled(e, h, c)
      BY <1>4, <2>1, HandleFine DEF Collecting, StringStates, DcsStates
    <3> HIDE DEF h
    <3>4. r.data = h.data /\ r.out = h.out /\ r.next = h.next /\ r.exit = h.exit
      BY <3>1, <3>3 DEF Handled, Ready, Shape
    <3>5. CASE EndsString(p, c)
      <4>1. h.next = "Ground"
        BY <1>4, <2>1, <2>3, <3>3, <3>5 DEF Handled, Collecting, StringStates, DcsStates, Headers
      <4>2. q = r
        BY <2>2, <3>4, <4>1 DEF Flush, DcsStates
      <4>3. PICK item : q.out = <<item>> /\ HasText(item, p.data, c = "BEL")
        BY <2>1, <2>3, <3>2, <3>4, <3>5, <4>2 DEF Heard
      <4>4. \A i \in DOMAIN q.out : q.out[i] = item
        BY <4>3
      <4>5. QED
        BY <2>3, <2>7, <3>4, <3>5, <4>1, <4>2, <4>3, <4>4 DEF Holds, Collecting
    <3>6. CASE ~EndsString(p, c)
      <4>1. Quiet(q.out)
        BY <1>1, <3>6 DEF Parsed
      <4>2. r.data = new
        BY <2>1, <2>3, <2>6, <3>2, <3>4, <3>6 DEF Heard
      <4>3. QED
        BY <1>2, <2>5, <4>1, <4>2 DEF Holds, Collecting
    <3>7. QED
      BY <3>5, <3>6
  <2>10. QED
    BY <2>8, <2>9
<1>5. QED
  BY <1>3, <1>4

-----------------------------------------------------------------------------
(* The parser, and the one that is made anew *)

\* They differ only in what is cleared before anything looks at it.
Loose(p, f) ==
  /\ Fine(p) /\ Fine(f)
  /\ p.next \in {"Ground", "Escape"} /\ f.next = p.next
  /\ p.exit = "none" /\ f.exit = "none"
  /\ f.prev = p.prev /\ f.out = p.out
Twins(p, f) == p = f \/ Loose(p, f)

\* What p has output with an action, and where it is
Emitted(p, q, kind, fields) ==
  /\ Shape(q) /\ q.out = Append(p.out, <<kind>> \o fields)
  /\ q.next = p.next /\ q.exit = p.exit

LEMMA EmitOutputs ==
  ASSUME NEW p, Shape(p), NEW kind, NEW fields
  PROVE  Emitted(p, Emit(p, kind, fields), kind, fields)
<1> DEFINE out2 == Append(p.out, <<kind>> \o fields)
           q == Emit(p, kind, fields)
<1>1. q = [p EXCEPT !.out = out2]
  BY DEF Emit
<1> HIDE DEF q, out2
<1>2. Shape(q) /\ q.out = out2 /\ q.next = p.next /\ q.exit = p.exit
  BY <1>1 DEF Shape
<1>3. QED
  BY <1>2 DEF Emitted, q, out2

Moved(p, q, state) == Shape(q) /\ q.next = state /\ q.exit = "none" /\ q.out = p.out

LEMMA TransitionMoves ==
  ASSUME NEW p, Shape(p), p.exit \in {"none", "param"}, NEW state
  PROVE  Moved(p, Transition(p, state), state)
BY TransitionLeaves DEF Left, Moved

\* Executed alike
Alike(q, g) ==
  /\ Shape(q) /\ Shape(g) /\ q.out = g.out /\ q.next = g.next
  /\ q.exit = "none" /\ g.exit = "none"

LEMMA ExecuteAlike ==
  ASSUME NEW p, NEW f, Alike(p, f), NEW c, p.next \in {"Ground", "Escape"}
  PROVE  /\ Alike(Execute(p, c), Execute(f, c))
         /\ Execute(p, c).next \in {"Ground", "Escape"}
<1> DEFINE alt == p.next = "Escape"
           q == Emit(p, "control", <<c, alt>>)
           g == Emit(f, "control", <<c, alt>>)
<1>1. Emitted(p, q, "control", <<c, alt>>) /\ Emitted(f, g, "control", <<c, alt>>)
  <2> HIDE DEF alt
  <2>1. QED
    BY EmitOutputs DEF Alike
<1>2. /\ Execute(p, c) = IF mode = "application" THEN q ELSE Transition(q, "Ground")
      /\ Execute(f, c) = IF mode = "application" THEN g ELSE Transition(g, "Ground")
  BY DEF Execute, Alike
<1> HIDE DEF q, g, alt
<1>3. Alike(q, g) /\ q.next = p.next
  BY <1>1 DEF Alike, Emitted
<1>4. /\ Alike(Transition(q, "Ground"), Transition(g, "Ground"))
      /\ Transition(q, "Ground").next = "Ground"
  BY <1>3, TransitionMoves DEF Alike, Moved
<1>5. QED
  BY <1>2, <1>3, <1>4

\* They stay twins if what they do is alike.
LEMMA AlikeLoose ==
  ASSUME NEW r, NEW s, Alike(r, s), r.next \in {"Ground", "Escape"}, NEW c,
         Fine([r EXCEPT !.prev = c]), Fine([s EXCEPT !.prev = c])
  PROVE  Loose([r EXCEPT !.prev = c], [s EXCEPT !.prev = c])
<1> DEFINE q == [r EXCEPT !.prev = c]
           g == [s EXCEPT !.prev = c]
<1>1. /\ q.next = r.next /\ q.exit = r.exit /\ q.out = r.out /\ q.prev = c
      /\ g.next = s.next /\ g.exit = s.exit /\ g.out = s.out /\ g.prev = c
  BY DEF Alike, Shape
<1> HIDE DEF q, g
<1>2. Fine(q) /\ Fine(g)
  BY DEF q, g
<1>3. QED
  BY <1>1, <1>2 DEF Loose, Alike, q, g

\* On entry to "Escape" nothing is left that they could differ in.
LEMMA EscapeEntersSame ==
  ASSUME NEW p, NEW f, Loose(p, f), p.next = "Escape"
  PROVE  Enter(p, "Escape", Clear) = Enter(f, "Escape", Clear)
<1> DEFINE d == Enter(p, "Escape", Clear)
           e == Enter(f, "Escape", Clear)
<1>1. ASSUME NEW r, Fine(r), r.next = "Escape", r.exit = "none"
      PROVE  LET s == Enter(r, "Escape", Clear)
             IN  /\ Entered(r, s) /\ Clean(s) /\ s.exit = "none" /\ s.data = <<>>
                 /\ s.broken = FALSE
  <2> DEFINE s == Enter(r, "Escape", Clear)
  <2>1. /\ Shape(r) /\ r.broken = FALSE /\ r.data = <<>> /\ (r.last = "Escape" => Clean(r))
    BY <1>1 DEF Fine, Ready, Filled, Spotless, Handed
  <2>2. Entered(r, s) /\ Unbroken(r, s) /\ s.exit = r.exit
    BY <1>1, <2>1, EnterSequence
  <2>3. Clean(s)
    BY <1>1, <2>1, EnterClear
  <2> HIDE DEF s
  <2>4. QED
    BY <1>1, <2>1, <2>2, <2>3 DEF Unbroken, Entered, s
<1>2. /\ Entered(p, d) /\ Clean(d) /\ d.exit = "none" /\ d.data = <<>> /\ d.broken = FALSE
  BY <1>1 DEF Loose
<1>3. /\ Entered(f, e) /\ Clean(e) /\ e.exit = "none" /\ e.data = <<>> /\ e.broken = FALSE
  BY <1>1 DEF Loose
<1> HIDE DEF d, e
<1>4. f.prev = p.prev /\ f.out = p.out /\ f.next = p.next
  BY DEF Loose
<1>5. Shape(d) /\ Shape(e)
  BY <1>2, <1>3 DEF Entered
<1>6. d.last = e.last /\ d.next = e.next /\ d.exit = e.exit /\ d.data = e.data
      /\ d.prev = e.prev /\ d.out = e.out
  BY <1>2, <1>3, <1>4 DEF Entered
<1>7. d.intermediate = e.intermediate /\ d.params = e.params
  BY <1>2, <1>3 DEF Clean
<1>8. d.number = e.number /\ d.colon = e.colon /\ d.legacy = e.legacy /\ d.broken = e.broken
  BY <1>2, <1>3 DEF Clean
<1>9. d = e
  BY <1>5, <1>6, <1>7, <1>8 DEF Shape
<1>10. QED
  BY <1>9 DEF d, e

LEMMA GroundAlike ==
  ASSUME NEW p, NEW f, Loose(p, f), p.next = "Ground", NEW c
  PROVE  /\ Alike(Ground(Enter(p, "Ground", Nothing), c), Ground(Enter(f, "Ground", Nothing), c))
         /\ Ground(Enter(p, "Ground", Nothing), c).next = "Ground"
<1> DEFINE d == Enter(p, "Ground", Nothing)
           e == Enter(f, "Ground", Nothing)
<1>1. Shape(p) /\ Shape(f) /\ f.next = "Ground" /\ f.out = p.out /\ p.exit = "none" /\ f.exit = "none"
  BY DEF Loose, Fine, Ready
<1>2. Entered(p, d) /\ d.exit = "none" /\ Entered(f, e) /\ e.exit = "none"
  BY <1>1, EnterNothing
<1> HIDE DEF d, e
<1>3. Alike(d, e) /\ d.next = "Ground"
  BY <1>1, <1>2 DEF Alike, Entered
<1>4. CASE c \in Executable
  <2>1. Ground(d, c) = Execute(d, c) /\ Ground(e, c) = Execute(e, c)
    BY <1>4 DEF Ground, Executable, Printable, Intermediate, Param, Digits, Separators, Private,
                CsiTerminator, Encoded, Replacement
  <2>2. Alike(Execute(d, c), Execute(e, c))
    BY <1>3, ExecuteAlike
  <2>3. Execute(d, c).next = "Ground"
    <3> DEFINE alt == d.next = "Escape"
               q == Emit(d, "control", <<c, alt>>)
    <3>1. Emitted(d, q, "control", <<c, alt>>)
      <4> HIDE DEF alt
      <4>1. QED
        BY <1>3, EmitOutputs DEF Alike
    <3>2. Execute(d, c) = IF mode = "application" THEN q ELSE Transition(q, "Ground")
      BY DEF Execute
    <3> HIDE DEF q, alt
    <3>3. Shape(q) /\ q.next = "Ground" /\ q.exit = "none"
      BY <1>3, <3>1 DEF Emitted, Alike
    <3>4. Transition(q, "Ground").next = "Ground"
      BY <3>3, TransitionMoves DEF Moved
    <3>5. QED
      BY <3>2, <3>3, <3>4
  <2>4. QED
    BY <2>1, <2>2, <2>3 DEF d, e
<1>5. CASE c \notin Executable /\ c \in Printable
  <2>1. Ground(d, c) = Emit(d, "print", <<c>>) /\ Ground(e, c) = Emit(e, "print", <<c>>)
    BY <1>5 DEF Ground
  <2>2. /\ Emitted(d, Emit(d, "print", <<c>>), "print", <<c>>)
        /\ Emitted(e, Emit(e, "print", <<c>>), "print", <<c>>)
    BY <1>3, EmitOutputs DEF Alike
  <2>3. QED
    BY <1>3, <2>1, <2>2 DEF Emitted, Alike, d, e
<1>6. CASE c \notin Executable /\ c \notin Printable
  <2>1. Ground(d, c) = d /\ Ground(e, c) = e
    BY <1>6 DEF Ground
  <2>2. QED
    BY <1>3, <2>1 DEF d, e
<1>7. QED
  BY <1>4, <1>5, <1>6

\* A character goes on with the sequence, or ends it.
LEMMA OnInputTwins ==
  ASSUME NEW p, NEW f, Loose(p, f), NEW c \in Chars, ~Starts(p, c)
  PROVE  Twins(OnInput(p, c), OnInput(f, c))
<1>1. /\ Fine(p) /\ Fine(f) /\ p.next \in {"Ground", "Escape"} /\ f.next = p.next
      /\ p.exit = "none" /\ f.exit = "none" /\ f.prev = p.prev /\ f.out = p.out
  BY DEF Loose
<1>2. p.next \notin StringStates
  BY <1>1 DEF StringStates, DcsStates
<1>3. Fine(OnInput(p, c)) /\ Fine(OnInput(f, c))
  <2>1. /\ ~Awkward("intermediate", p, c, FALSE) /\ ~Awkward("cancel", p, c, FALSE)
        /\ ~Awkward("intermediate", f, c, FALSE) /\ ~Awkward("cancel", f, c, FALSE)
    BY <1>1 DEF Awkward
  <2> DEFINE no == FALSE
  <2> HIDE DEF no
  <2>2. /\ ~Awkward("intermediate", p, c, no) /\ ~Awkward("cancel", p, c, no)
        /\ ~Awkward("intermediate", f, c, no) /\ ~Awkward("cancel", f, c, no)
    BY <2>1 DEF no
  <2>3. QED
    BY <1>1, <2>2, OnInputFine DEF Took
<1>4. Alike(p, f)
  BY <1>1 DEF Alike, Fine, Ready
<1>5. CASE c = "CAN" \/ c = "ESC"
  <2> DEFINE r == Transition(Execute(p, c), "Ground")
             s == Transition(Execute(f, c), "Ground")
  <2>1. OnInput(p, c) = [r EXCEPT !.prev = c] /\ OnInput(f, c) = [s EXCEPT !.prev = c]
    BY <1>1, <1>2, <1>5 DEF OnInput, Starts
  <2>2. Alike(Execute(p, c), Execute(f, c))
    BY <1>1, <1>4, ExecuteAlike
  <2>3. Alike(r, s) /\ r.next = "Ground"
    BY <2>2, TransitionMoves DEF Alike, Moved
  <2> HIDE DEF r, s
  <2>4. QED
    BY <1>3, <2>1, <2>3, AlikeLoose DEF Twins
<1>6. CASE c # "CAN" /\ c # "ESC"
  <2>1. /\ OnInput(p, c) = [Handle(p, c) EXCEPT !.prev = c]
        /\ OnInput(f, c) = [Handle(f, c) EXCEPT !.prev = c]
    BY <1>6 DEF OnInput
  <2>2. CASE p.next = "Ground"
    <3> DEFINE r == Ground(Enter(p, "Ground", Nothing), c)
               s == Ground(Enter(f, "Ground", Nothing), c)
    <3>1. Handle(p, c) = r /\ Handle(f, c) = s
      BY <1>1, <2>2 DEF Handle
    <3>2. Alike(r, s) /\ r.next = "Ground"
      BY <2>2, GroundAlike
    <3> HIDE DEF r, s
    <3>3. QED
      BY <1>3, <2>1, <3>1, <3>2, AlikeLoose DEF Twins
  <2>3. CASE p.next = "Escape"
    <3>1. /\ Handle(p, c) = EscapeState(Enter(p, "Escape", Clear), c)
          /\ Handle(f, c) = EscapeState(Enter(f, "Escape", Clear), c)
      BY <1>1, <2>3 DEF Handle
    <3>2. Enter(p, "Escape", Clear) = Enter(f, "Escape", Clear)
      BY <2>3, EscapeEntersSame
    <3>3. QED
      BY <2>1, <3>1, <3>2 DEF Twins
  <2>4. QED
    BY <1>1, <2>2, <2>3
<1>7. QED
  BY <1>5, <1>6

\* Where a sequence starts, anything before it is as good as nothing.
LEMMA StartsTwins ==
  ASSUME NEW p, Fine(p), NEW f, Fine(f), f.next = "Ground", f.last = "Ground", f.exit = "none",
         f.out = p.out, NEW c \in Chars, Starts(p, c),
         ~Awkward("intermediate", p, c, FALSE)
  PROVE  Loose(OnInput(p, c), OnInput(f, c))
<1>1. c = "ESC" /\ p.next \notin StringStates /\ ~(mode # "application" /\ p.next = "Escape")
  BY DEF Starts
<1>2. Shape(p) /\ Shape(f) /\ Placed(p)
  BY DEF Fine, Ready
<1>3. p.exit \in {"none", "param"}
  BY <1>1, <1>2 DEF Placed, StringStates, DcsStates
<1> DEFINE r == Transition(p, "Escape")
           s == Transition(f, "Escape")
<1>4. OnInput(p, c) = [r EXCEPT !.prev = c]
  BY <1>1 DEF OnInput
<1>5. OnInput(f, c) = [s EXCEPT !.prev = c]
  BY <1>1 DEF OnInput, StringStates, DcsStates
<1>6. Moved(p, r, "Escape") /\ Moved(f, s, "Escape")
  BY <1>2, <1>3, TransitionMoves
<1>7. Alike(r, s) /\ r.next = "Escape"
  BY <1>6 DEF Moved, Alike
<1>8. Fine(OnInput(p, c)) /\ Fine(OnInput(f, c))
  <2> DEFINE no == FALSE
  <2>1. /\ ~Awkward("intermediate", p, c, no) /\ ~Awkward("cancel", p, c, no)
        /\ ~Awkward("intermediate", f, c, no) /\ ~Awkward("cancel", f, c, no)
    BY <1>1 DEF Awkward
  <2> HIDE DEF no
  <2>2. QED
    BY <2>1, OnInputFine DEF Took
<1> HIDE DEF r, s
<1>9. QED
  BY <1>4, <1>5, <1>7, <1>8, AlikeLoose

LEMMA NewParserFine == Fine(NewParser)
<1>1. Shape(NewParser)
  BY DEF NewParser, Shape
<1>2. NewParser.broken = FALSE
  BY DEF NewParser
<1>3. <<>> \in Seq(Chars)
  OBVIOUS
<1>4. /\ NewParser.last = "Ground" /\ NewParser.next = "Ground" /\ NewParser.exit = "none"
      /\ NewParser.data = <<>>
  BY DEF NewParser
<1>5. Placed(NewParser) /\ Filled(NewParser) /\ Spotless(NewParser) /\ EscapeKept(NewParser, NewParser.prev)
  BY <1>3, <1>4 DEF Placed, Filled, Spotless, EscapeKept, States, Collecting
<1>6. QED
  BY <1>1, <1>2, <1>5 DEF Fine, Ready

LEMMA TwinsNewCall ==
  ASSUME NEW p, NEW f, Fine(p), Twins(p, f)
  PROVE  Twins([p EXCEPT !.out = <<>>], [f EXCEPT !.out = <<>>])
<1>1. CASE p = f
  BY <1>1 DEF Twins
<1>2. CASE Loose(p, f)
  <2> DEFINE d == [p EXCEPT !.out = <<>>]
             e == [f EXCEPT !.out = <<>>]
  <2>1. /\ Fine(d) /\ d.next = p.next /\ d.exit = p.exit /\ d.prev = p.prev /\ d.out = <<>>
    BY NewCall
  <2>2. /\ Fine(e) /\ e.next = f.next /\ e.exit = f.exit /\ e.prev = f.prev /\ e.out = <<>>
    BY <1>2, NewCall DEF Loose
  <2> HIDE DEF d, e
  <2>3. Loose(d, e)
    BY <1>2, <2>1, <2>2 DEF Loose
  <2>4. QED
    BY <2>3 DEF Twins, d, e
<1>3. QED
  BY <1>1, <1>2 DEF Twins

LEMMA FlushTwins ==
  ASSUME NEW p, NEW f, Fine(p), Twins(p, f), p.exit \notin {"dcs", "osc"}
  PROVE  Twins(Flush(p), Flush(f))
<1>1. CASE p = f
  BY <1>1 DEF Twins
<1>2. CASE Loose(p, f)
  <2>1. /\ Shape(p) /\ Shape(f) /\ Fine(f) /\ p.exit = "none" /\ f.exit = "none" /\ f.prev = p.prev
        /\ f.next = p.next /\ p.next \in {"Ground", "Escape"} /\ f.out = p.out
    BY <1>2 DEF Loose, Fine, Ready
  <2>2. /\ Fine(Flush(p)) /\ Flush(p).prev = p.prev /\ (p.next = "Ground" => Flush(p) = p)
        /\ Fine(Flush(f)) /\ Flush(f).prev = f.prev /\ (f.next = "Ground" => Flush(f) = f)
    BY <2>1, FlushFine
  <2>3. CASE p.next = "Ground"
    BY <1>2, <2>1, <2>2, <2>3 DEF Twins
  <2>4. CASE p.next = "Escape"
    <3> DEFINE alt == FALSE
               r == Transition(p, "Ground")
               s == Transition(f, "Ground")
    <3>1. Flush(p) = Emit(r, "control", <<"ESC", alt>>) /\ Flush(f) = Emit(s, "control", <<"ESC", alt>>)
      BY <2>1, <2>4 DEF Flush, DcsStates
    <3>2. Moved(p, r, "Ground") /\ Moved(f, s, "Ground")
      BY <2>1, TransitionMoves
    <3> HIDE DEF alt, r, s
    <3>3. /\ Emitted(r, Flush(p), "control", <<"ESC", alt>>)
          /\ Emitted(s, Flush(f), "control", <<"ESC", alt>>)
      BY <3>1, <3>2, EmitOutputs DEF Moved
    <3>4. Loose(Flush(p), Flush(f))
      BY <2>1, <2>2, <3>2, <3>3 DEF Loose, Moved, Emitted
    <3>5. QED
      BY <3>4 DEF Twins
  <2>5. QED
    BY <2>1, <2>3, <2>4
<1>3. QED
  BY <1>1, <1>2 DEF Twins

LEMMA ParseTwins ==
  ASSUME NEW p, NEW f, Fine(p), Twins(p, f), NEW c \in Chars, NEW flush \in BOOLEAN,
         ~Awkward("intermediate", p, c, flush), ~Awkward("cancel", p, c, flush),
         ~Awkward("cut", p, c, flush)
  PROVE  Twins(Parse(p, c, flush), ParseFresh(f, p, c, flush))
<1> DEFINE g == IF Starts(p, c) THEN NewParser ELSE f
           d == [p EXCEPT !.out = <<>>]
           e == [g EXCEPT !.out = <<>>]
           q == OnInput(d, c)
           h == OnInput(e, c)
<1>1. /\ Fine(d) /\ d.next = p.next /\ d.exit = p.exit /\ d.prev = p.prev /\ d.last = p.last
      /\ d.out = <<>>
  BY NewCall
<1>2. Parse(p, c, FALSE) = q /\ Parse(p, c, flush) = IF flush THEN Flush(q) ELSE q
  BY DEF Parse
<1>3. ParseFresh(f, p, c, flush) = IF flush THEN Flush(h) ELSE h
  BY DEF ParseFresh, Parse
<1>4. /\ ~Awkward("intermediate", d, c, flush) /\ ~Awkward("cancel", d, c, flush)
      /\ ~Awkward("intermediate", d, c, FALSE)
  BY <1>1 DEF Awkward
<1>5. flush => q.exit \notin {"dcs", "osc"}
  BY <1>2 DEF Awkward
<1>6. Starts(p, c) <=> Starts(d, c)
  BY <1>1 DEF Starts
<1>7. Twins(q, h)
  <2>1. CASE Starts(p, c)
    <3>1. /\ Fine(e) /\ e.next = "Ground" /\ e.last = "Ground" /\ e.exit = "none" /\ e.out = <<>>
      <4>1. NewParser.next = "Ground" /\ NewParser.last = "Ground" /\ NewParser.exit = "none"
        BY DEF NewParser
      <4>2. g = NewParser
        BY <2>1
      <4> HIDE DEF g
      <4>3. QED
        BY <4>1, <4>2, NewParserFine, NewCall
    <3> HIDE DEF d, e
    <3>2. Loose(q, h)
      BY <1>1, <1>4, <1>6, <2>1, <3>1, StartsTwins
    <3>3. QED
      BY <3>2 DEF Twins
  <2>2. CASE ~Starts(p, c)
    <3>1. g = f
      BY <2>2
    <3> HIDE DEF g
    <3>2. Twins(d, e)
      BY <3>1, TwinsNewCall
    <3> HIDE DEF d, e
    <3>3. CASE d = e
      BY <3>3 DEF Twins
    <3>4. CASE Loose(d, e)
      BY <1>6, <2>2, <3>4, OnInputTwins
    <3>5. QED
      BY <3>2, <3>3, <3>4 DEF Twins
  <2>3. QED
    BY <2>1, <2>2
<1> HIDE DEF d
<1>8. Fine(q)
  BY <1>1, <1>4, OnInputFine DEF Took
<1> HIDE DEF q, h
<1>9. flush => Twins(Flush(q), Flush(h))
  BY <1>5, <1>7, <1>8, FlushTwins
<1>10. QED
  BY <1>2, <1>3, <1>7, <1>9

-----------------------------------------------------------------------------
(* The decoder *)

\* The bytes that may follow the first one, and how long the sequence is
Second(b) == CASE b = "E0" -> {"A0"}
               [] b = "ED" -> {"80", "90"}
               [] b = "F0" -> {"90", "A0"}
               [] b = "F4" -> {"80"}
               [] OTHER    -> Next3
Length(b) == IF b \in First2 THEN 2 ELSE IF b \in First3 THEN 3 ELSE 4

Firsts  == First2 \cup First3 \cup First4
Whole2  == {s \in Seq(HighBytes) : Len(s) = 2 /\ s[1] \in First2 /\ s[2] \in Next3}
Whole3  == {s \in Seq(HighBytes) : Len(s) = 3 /\ s[1] \in First3 /\ s[2] \in Second(s[1]) /\ s[3] \in Next3}
Whole4  == {s \in Seq(HighBytes) : Len(s) = 4 /\ s[1] \in First4 /\ s[2] \in Second(s[1])
                                   /\ s[3] \in Next3 /\ s[4] \in Next3}

\* The bytes of s so far can be followed by others.
Begun(s) ==
  /\ s \in Seq(HighBytes)
  /\ Len(s) > 0 => s[1] \in Firsts /\ Len(s) < Length(s[1])
  /\ Len(s) > 1 => s[2] \in Second(s[1])
  /\ Len(s) > 2 => s[3] \in Next3

LEMMA SecondNext ==
  \A b : Second(b) \subseteq Next3 /\ Second(b) # {}
BY DEF Second, Next3

LEMMA NextHigh == Next3 \subseteq HighBytes /\ Firsts \subseteq HighBytes /\ Firsts \cap Next3 = {}
BY DEF Next3, HighBytes, Firsts, First2, First3, First4

LEMMA WholeSequences == WellFormed = Whole2 \cup Whole3 \cup Whole4
<1>1. ASSUME NEW s \in WellFormed
      PROVE  s \in Whole2 \cup Whole3 \cup Whole4
  <2>1. CASE \E x \in Next3 : s = <<"C2", x>>
    BY <2>1, NextHigh DEF Whole2, First2, Firsts
  <2>2. CASE \E b \in First3 : \E x \in Second(b), y \in Next3 : s = <<b, x, y>>
    BY <2>2, NextHigh, SecondNext DEF Whole3, Firsts
  <2>3. CASE \E b \in First4 : \E x \in Second(b), y, z \in Next3 : s = <<b, x, y, z>>
    BY <2>3, NextHigh, SecondNext DEF Whole4, Firsts
  <2>4. QED
    BY <2>1, <2>2, <2>3 DEF WellFormed, Second, First3, First4
<1>2. ASSUME NEW s \in Whole2 \cup Whole3 \cup Whole4
      PROVE  s \in WellFormed
  <2>1. CASE s \in Whole2
    <3>1. s = <<"C2", s[2]>> /\ s[2] \in Next3
      BY <2>1 DEF Whole2, First2
    <3>2. QED
      BY <3>1 DEF WellFormed
  <2>2. CASE s \in Whole3
    <3>1. s = <<s[1], s[2], s[3]>> /\ s[1] \in First3 /\ s[2] \in Second(s[1]) /\ s[3] \in Next3
      BY <2>2 DEF Whole3
    <3>2. QED
      BY <3>1 DEF WellFormed, Second, First3
  <2>3. CASE s \in Whole4
    <3>1. /\ s = <<s[1], s[2], s[3], s[4]>> /\ s[1] \in First4 /\ s[2] \in Second(s[1])
          /\ s[3] \in Next3 /\ s[4] \in Next3
      BY <2>3 DEF Whole4
    <3>2. QED
      BY <3>1 DEF WellFormed, Second, First4
  <2>4. QED
    BY <2>1, <2>2, <2>3
<1>3. QED
  BY <1>1, <1>2

LEMMA WholeLength ==
  ASSUME NEW s \in WellFormed
  PROVE  /\ s \in Seq(HighBytes) /\ Len(s) \in 2 .. 4 /\ s[1] \in Firsts /\ Len(s) = Length(s[1])
         /\ s[2] \in Second(s[1]) /\ \A i \in 2 .. Len(s) : s[i] \in Next3
<1>1. CASE s \in Whole2
  <2>1. s \in Seq(HighBytes) /\ Len(s) = 2 /\ s[1] \in First2 /\ s[2] \in Next3
    BY <1>1 DEF Whole2
  <2>2. Length(s[1]) = 2 /\ Second(s[1]) = Next3
    BY <2>1 DEF Length, Second, First2
  <2>3. \A i \in 2 .. 2 : i = 2
    OBVIOUS
  <2>4. QED
    BY <2>1, <2>2, <2>3 DEF Firsts
<1>2. CASE s \in Whole3
  <2>1. s \in Seq(HighBytes) /\ Len(s) = 3 /\ s[1] \in First3 /\ s[2] \in Second(s[1]) /\ s[3] \in Next3
    BY <1>2 DEF Whole3
  <2>2. Length(s[1]) = 3 /\ s[2] \in Next3
    BY <2>1, SecondNext DEF Length, First2, First3
  <2>3. \A i \in 2 .. 3 : i = 2 \/ i = 3
    OBVIOUS
  <2>4. QED
    BY <2>1, <2>2, <2>3 DEF Firsts
<1>3. CASE s \in Whole4
  <2>1. /\ s \in Seq(HighBytes) /\ Len(s) = 4 /\ s[1] \in First4 /\ s[2] \in Second(s[1])
        /\ s[3] \in Next3 /\ s[4] \in Next3
    BY <1>3 DEF Whole4
  <2>2. Length(s[1]) = 4 /\ s[2] \in Next3
    BY <2>1, SecondNext DEF Length, First2, First3, First4
  <2>3. \A i \in 2 .. 4 : i = 2 \/ i = 3 \/ i = 4
    OBVIOUS
  <2>4. QED
    BY <2>1, <2>2, <2>3 DEF Firsts
<1>4. QED
  BY <1>1, <1>2, <1>3, WholeSequences

LEMMA PrefixBegun ==
  ASSUME NEW s \in Prefixes
  PROVE  Begun(s)
<1>1. PICK w \in WellFormed : s \in {SubSeq(w, 1, n) : n \in 0 .. Len(w) - 1}
  BY DEF Prefixes
<1>2. PICK n \in 0 .. Len(w) - 1 : s = SubSeq(w, 1, n)
  BY <1>1
<1>3. /\ w \in Seq(HighBytes) /\ Len(w) \in 2 .. 4 /\ w[1] \in Firsts /\ Len(w) = Length(w[1])
      /\ w[2] \in Second(w[1]) /\ \A i \in 2 .. Len(w) : w[i] \in Next3
  BY WholeLength
<1>4. n \in Nat /\ n < Len(w) /\ \A i \in 1 .. n : w[i] \in HighBytes
  BY <1>3
<1>5. s \in Seq(HighBytes) /\ Len(s) = n /\ \A i \in 1 .. n : s[i] = w[i]
  BY <1>2, <1>4, SubSeqProperties
<1>6. Len(s) > 0 => s[1] \in Firsts /\ Len(s) < Length(s[1])
  BY <1>3, <1>4, <1>5
<1>7. Len(s) > 1 => s[2] \in Second(s[1])
  BY <1>3, <1>4, <1>5
<1>8. Len(s) > 2 => s[3] \in Next3
  BY <1>3, <1>4, <1>5
<1>9. QED
  BY <1>5, <1>6, <1>7, <1>8 DEF Begun

LEMMA BegunPrefix ==
  ASSUME NEW s, Begun(s)
  PROVE  s \in Prefixes
<1>1. CASE Len(s) = 0
  <2>1. s = <<>>
    BY <1>1
  <2> DEFINE w == <<"C2", "80">>
  <2>2. w \in WellFormed
    BY DEF WellFormed, Next3
  <2>3. SubSeq(w, 1, 0) = <<>> /\ Len(w) = 2
    OBVIOUS
  <2> HIDE DEF w
  <2>4. QED
    BY <2>1, <2>2, <2>3 DEF Prefixes
<1>2. CASE Len(s) > 0
  <2>1. s[1] \in Firsts /\ Len(s) < Length(s[1])
    BY <1>2 DEF Begun
  <2>2. PICK x \in Second(s[1]) : Len(s) > 1 => s[2] = x
    BY SecondNext DEF Begun
  <2>3. PICK y \in Next3 : Len(s) > 2 => s[3] = y
    BY DEF Begun, Next3
  <2> DEFINE w == IF s[1] \in First2 THEN <<s[1], x>>
                  ELSE IF s[1] \in First3 THEN <<s[1], x, y>> ELSE <<s[1], x, y, y>>
  <2>4. s[1] \in HighBytes /\ x \in HighBytes /\ y \in HighBytes /\ x \in Next3
    BY <2>1, SecondNext, NextHigh
  <2>5. w \in WellFormed /\ Len(w) = Length(s[1])
    <3>1. CASE s[1] \in First2
      <4>1. w \in Whole2 /\ Length(s[1]) = 2
        BY <2>4, <3>1 DEF Whole2, Length
      <4>2. QED
        BY <3>1, <4>1, WholeSequences DEF Whole2
    <3>2. CASE s[1] \in First3
      <4>1. w = <<s[1], x, y>> /\ Length(s[1]) = 3
        BY <3>2 DEF Length, First2, First3
      <4>2. w \in Whole3
        BY <2>4, <3>2, <4>1 DEF Whole3
      <4>3. QED
        BY <4>1, <4>2, WholeSequences DEF Whole3
    <3>3. CASE s[1] \in First4
      <4>1. w = <<s[1], x, y, y>> /\ Length(s[1]) = 4
        BY <3>3 DEF Length, First2, First3, First4
      <4>2. w \in Whole4
        BY <2>4, <3>3, <4>1 DEF Whole4
      <4>3. QED
        BY <4>1, <4>2, WholeSequences DEF Whole4
    <3>4. QED
      BY <2>1, <3>1, <3>2, <3>3 DEF Firsts
  <2>6. w \in Seq(HighBytes) /\ Len(s) \in 1 .. 3 /\ s \in Seq(HighBytes)
    <3>1. w \in Seq(HighBytes)
      BY <2>5, WholeLength
    <3>2. s \in Seq(HighBytes)
      BY DEF Begun
    <3>3. Length(s[1]) \in 2 .. 4
      BY DEF Length
    <3>4. \A k \in Nat, l \in 2 .. 4 : k > 0 /\ k < l => k \in 1 .. 3
      OBVIOUS
    <3>5. Len(s) \in Nat
      BY <3>2
    <3>6. Len(s) \in 1 .. 3
      BY <1>2, <2>1, <3>3, <3>4, <3>5
    <3>7. QED
      BY <3>1, <3>2, <3>6
  <2>7. \A i \in 1 .. Len(s) : s[i] = w[i]
    <3>1. \A k \in 1 .. 3 : \A i \in 1 .. k : i = 1 \/ (i = 2 /\ k > 1) \/ (i = 3 /\ k > 2)
      OBVIOUS
    <3>2. \A i \in 1 .. Len(s) : i = 1 \/ (i = 2 /\ Len(s) > 1) \/ (i = 3 /\ Len(s) > 2)
      BY <2>6, <3>1
    <3>3. w[1] = s[1] /\ w[2] = x /\ (Length(s[1]) > 3 => w[3] = y)
      BY DEF Length, First2, First3
    <3>4. Len(s) > 2 => Length(s[1]) > 3
      BY <2>1, <2>6 DEF Length
    <3> HIDE DEF w
    <3>5. QED
      BY <2>2, <2>3, <3>2, <3>3, <3>4
  <2> HIDE DEF w
  <2>8. s = SubSeq(w, 1, Len(s))
    <3> DEFINE k == Len(s)
               v == SubSeq(w, 1, k)
    <3>1. k \in Int /\ k > 0 /\ \A i \in 1 .. k : w[i] \in HighBytes
      BY <2>6, <2>7
    <3>2. v \in Seq(HighBytes) /\ Len(v) = k /\ \A i \in 1 .. k : v[i] = w[i]
      BY <3>1, SubSeqProperties
    <3> HIDE DEF v
    <3>3. s = v
      BY <2>6, <2>7, <3>2, SeqEqual
    <3>4. QED
      BY <3>3 DEF v
  <2>9. Len(s) \in 0 .. Len(w) - 1
    <3>1. Len(w) \in 2 .. 4
      BY <2>5, WholeLength
    <3>2. QED
      BY <2>1, <2>5, <2>6, <3>1
  <2>10. s \in {SubSeq(w, 1, n) : n \in 0 .. Len(w) - 1}
    BY <2>8, <2>9
  <2>11. QED
    BY <2>5, <2>10 DEF Prefixes
<1>3. QED
  BY <1>1, <1>2

LEMMA WholeIf ==
  ASSUME NEW t \in Seq(HighBytes), Len(t) > 1, t[1] \in Firsts, Len(t) = Length(t[1]),
         t[2] \in Second(t[1]), Len(t) > 2 => t[3] \in Next3, Len(t) > 3 => t[4] \in Next3
  PROVE  t \in WellFormed
<1>1. CASE t[1] \in First2
  <2>1. Len(t) = 2 /\ t[2] \in Next3
    BY <1>1, SecondNext DEF Length
  <2>2. QED
    BY <1>1, <2>1, WholeSequences DEF Whole2
<1>2. CASE t[1] \in First3
  <2>1. Len(t) = 3
    BY <1>2 DEF Length, First2, First3
  <2>2. QED
    BY <1>2, <2>1, WholeSequences DEF Whole3
<1>3. CASE t[1] \in First4
  <2>1. Len(t) = 4
    BY <1>3 DEF Length, First2, First3, First4
  <2>2. QED
    BY <1>3, <2>1, WholeSequences DEF Whole4
<1>4. QED
  BY <1>1, <1>2, <1>3 DEF Firsts

\* What may come next
Bound(pend) == IF Len(pend) = 1 THEN Second(pend[1]) ELSE Next3

LEMMA Longer ==
  ASSUME NEW pend, Begun(pend), pend # <<>>, NEW h \in HighBytes
  PROVE  /\ Append(pend, h) \in Prefixes \cup WellFormed <=> h \in Bound(pend)
         /\ h \in Bound(pend) /\ Len(pend) + 1 < Length(pend[1]) => Begun(Append(pend, h))
<1> DEFINE t == Append(pend, h)
           k == Len(pend)
<1>1. pend \in Seq(HighBytes) /\ k > 0 /\ k < Length(pend[1]) /\ pend[1] \in Firsts
  <2>1. pend \in Seq(HighBytes)
    BY DEF Begun
  <2>2. Len(pend) > 0
    BY <2>1
  <2>3. QED
    BY <2>1, <2>2 DEF Begun
<1>2. (k > 1 => pend[2] \in Second(pend[1])) /\ (k > 2 => pend[3] \in Next3)
  BY DEF Begun
<1>3. t \in Seq(HighBytes) /\ Len(t) = k + 1 /\ t[k + 1] = h /\ \A i \in 1 .. k : t[i] = pend[i]
  BY <1>1
<1>4. Length(pend[1]) \in 2 .. 4
  BY DEF Length
<1>5. k \in 1 .. 3
  <2>1. \A n \in Nat, l \in 2 .. 4 : n > 0 /\ n < l => n \in 1 .. 3
    OBVIOUS
  <2>2. k \in Nat
    BY <1>1
  <2>3. QED
    BY <1>1, <1>4, <2>1, <2>2
<1>6. Bound(pend) = IF k = 1 THEN Second(pend[1]) ELSE Next3
  BY DEF Bound
<1>7. t[1] = pend[1] /\ (k > 1 => t[2] = pend[2]) /\ (k > 2 => t[3] = pend[3])
  <2>1. \A n \in 1 .. 3 : 1 \in 1 .. n /\ (n > 1 => 2 \in 1 .. n) /\ (n > 2 => 3 \in 1 .. n)
    OBVIOUS
  <2>2. QED
    BY <1>3, <1>5, <2>1
<1> HIDE DEF t, k
<1>8. (k = 1 => t[2] = h) /\ (k = 2 => t[3] = h) /\ (k = 3 => t[4] = h)
  <2>1. (k = 1 => k + 1 = 2) /\ (k = 2 => k + 1 = 3) /\ (k = 3 => k + 1 = 4)
    OBVIOUS
  <2>2. QED
    BY <1>3, <2>1
<1>9. ASSUME h \in Bound(pend)
       PROVE  /\ t[2] \in Second(t[1]) /\ (k > 1 => t[3] \in Next3) /\ (k > 2 => t[4] \in Next3)
  BY <1>2, <1>5, <1>6, <1>7, <1>8, <1>9
<1>10. h \in Bound(pend) /\ k + 1 < Length(pend[1]) => Begun(t)
  BY <1>1, <1>3, <1>5, <1>7, <1>9 DEF Begun
<1>11. h \in Bound(pend) /\ k + 1 = Length(pend[1]) => t \in WellFormed
  BY <1>1, <1>3, <1>5, <1>7, <1>9, WholeIf
<1>12. k + 1 < Length(pend[1]) \/ k + 1 = Length(pend[1])
  BY <1>1, <1>4, <1>5
<1>13. h \in Bound(pend) => t \in Prefixes \cup WellFormed
  BY <1>10, <1>11, <1>12, BegunPrefix
<1>14. t \in Prefixes => h \in Bound(pend)
  <2>1. SUFFICES ASSUME Begun(t)
                 PROVE  h \in Bound(pend)
    BY PrefixBegun
  <2>2. /\ k + 1 < Length(pend[1]) /\ t[2] \in Second(t[1]) /\ (k > 1 => t[3] \in Next3)
    BY <1>3, <1>5, <1>7, <2>1 DEF Begun
  <2>3. k # 3
    BY <1>4, <1>5, <2>2
  <2>4. QED
    BY <1>5, <1>6, <1>7, <1>8, <2>2, <2>3
<1>15. t \in WellFormed => h \in Bound(pend)
  <2>1. SUFFICES ASSUME t \in WellFormed
                 PROVE  h \in Bound(pend)
    OBVIOUS
  <2>2. t[2] \in Second(t[1]) /\ \A i \in 2 .. k + 1 : t[i] \in Next3
    BY <1>3, <2>1, WholeLength
  <2>3. k + 1 \in 2 .. k + 1
    BY <1>5
  <2>4. k # 1 => h \in Next3
    BY <1>3, <2>2, <2>3
  <2>5. QED
    BY <1>6, <1>7, <1>8, <2>2, <2>4
<1>16. QED
  BY <1>10, <1>13, <1>14, <1>15 DEF t, k

-----------------------------------------------------------------------------
(* The decoder waits for what is missing of a code point *)

Tracks(d, pend) ==
  /\ d = [units |-> d.units, bounds |-> d.bounds]
  /\ Begun(pend)
  /\ d.units = IF pend = <<>> THEN 0 ELSE Length(pend[1]) - Len(pend)
  /\ d.bounds = IF pend = <<>> THEN Next3 ELSE Bound(pend)

LEMMA TracksOK ==
  ASSUME Tracks(decoder, pending)
  PROVE  DecoderOK /\ decoder \in [units : 0 .. 3, bounds : SUBSET Next3]
<1>1. Begun(pending) /\ pending \in Prefixes
  BY BegunPrefix DEF Tracks
<1>2. pending \in Seq(HighBytes)
  BY <1>1 DEF Begun
<1>3. CASE pending = <<>>
  <2>1. decoder.units = 0 /\ decoder.bounds = Next3
    BY <1>3 DEF Tracks
  <2>2. decoder \in [units : 0 .. 3, bounds : SUBSET Next3]
    BY <2>1 DEF Tracks
  <2>3. QED
    BY <1>1, <1>3, <2>1, <2>2 DEF DecoderOK
<1>4. CASE pending # <<>>
  <2>1. /\ decoder.units = Length(pending[1]) - Len(pending)
        /\ decoder.bounds = Bound(pending)
    BY <1>4 DEF Tracks
  <2>2. Len(pending) \in Nat /\ Len(pending) > 0
    BY <1>2, <1>4
  <2>3. Len(pending) < Length(pending[1]) /\ Length(pending[1]) \in 2 .. 4
    BY <1>1, <2>2 DEF Begun, Length
  <2>4. decoder.units \in 1 .. 3
    BY <2>1, <2>2, <2>3
  <2>5. Bound(pending) \subseteq Next3
    BY SecondNext DEF Bound
  <2>6. decoder \in [units : 0 .. 3, bounds : SUBSET Next3]
    BY <2>1, <2>4, <2>5 DEF Tracks
  <2>7. decoder.bounds = {b \in HighBytes : Append(pending, b) \in Prefixes \cup WellFormed}
    BY <1>1, <1>4, <2>1, <2>5, NextHigh, Longer
  <2>8. ASSUME NEW s \in WellFormed, Len(pending) < Len(s), SubSeq(s, 1, Len(pending)) = pending
        PROVE  decoder.units = Len(s) - Len(pending)
    <3>1. s \in Seq(HighBytes) /\ Len(s) = Length(s[1])
      BY <2>8, WholeLength
    <3>2. s[1] = pending[1]
      <4> DEFINE k == Len(pending)
                 v == SubSeq(s, 1, k)
      <4>1. k \in Int /\ 1 \in 1 .. k /\ \A i \in 1 .. k : s[i] \in HighBytes
        BY <2>2, <2>8, <3>1
      <4>2. \A i \in 1 .. k : v[i] = s[i]
        BY <4>1, SubSeqProperties
      <4>3. v = pending
        BY <2>8
      <4> HIDE DEF v, k
      <4>4. QED
        BY <4>1, <4>2, <4>3
    <3>3. QED
      BY <2>1, <3>1, <3>2
  <2>9. QED
    BY <1>1, <1>4, <2>4, <2>6, <2>7, <2>8 DEF DecoderOK
<1>5. QED
  BY <1>3, <1>4

\* What the decoder outputs for the first byte of something
LEMMA DecodesFirst ==
  ASSUME NEW before, NEW b \in Bytes
  PROVE  LET r == DecodeFirst(before, b)
         IN  \/ /\ b \in Firsts /\ r.output = before
                /\ r.decoder = [units |-> Length(b) - 1, bounds |-> Second(b)]
             \/ /\ r.decoder = NewDecoder
                /\ \E c \in Chars : r.output = Append(before, c)
<1> DEFINE r == DecodeFirst(before, b)
           Pend(units, bounds) == [Start(units, bounds) EXCEPT !.output = before]
<1> SUFFICES \/ /\ b \in Firsts /\ r.output = before
                /\ r.decoder = [units |-> Length(b) - 1, bounds |-> Second(b)]
             \/ /\ r.decoder = NewDecoder
                /\ \E c \in Chars : r.output = Append(before, c)
  OBVIOUS
<1>1. ASSUME NEW units, NEW bounds
      PROVE  /\ Pend(units, bounds).output = before
             /\ Pend(units, bounds).decoder = [units |-> units, bounds |-> bounds]
  BY DEF Start
<1>2. CASE b \in Firsts
  <2>1. r = Pend(Length(b) - 1, Second(b))
    <3> b \notin Next3 \cup {"FF"}
      BY <1>2 DEF Next3, Firsts, First2, First3, First4
    <3>1. CASE b \in First2
      <4>1. b = "C2" /\ Length(b) - 1 = 1 /\ Second(b) = Next3
        BY <3>1 DEF First2, Length, Second
      <4>2. r = Pend(1, Next3)
        BY <4>1 DEF DecodeFirst, First2
      <4> HIDE DEF r, Pend
      <4>3. QED
        BY <4>1, <4>2
    <3>2. CASE b \in First3
      <4>1. Length(b) - 1 = 2 /\ b \in {"E0", "E1", "ED"}
        BY <3>2 DEF First2, First3, Length
      <4>2. r = Pend(2, IF b = "E0" THEN {"A0"} ELSE IF b = "ED" THEN {"80", "90"} ELSE Next3)
        BY <4>1 DEF DecodeFirst, First2
      <4>3. Second(b) = IF b = "E0" THEN {"A0"} ELSE IF b = "ED" THEN {"80", "90"} ELSE Next3
        BY <4>1 DEF Second
      <4> HIDE DEF r, Pend
      <4>4. QED
        BY <4>1, <4>2, <4>3
    <3>3. CASE b \in First4
      <4>1. Length(b) - 1 = 3 /\ b \in {"F0", "F1", "F4"}
        BY <3>3 DEF First2, First3, First4, Length
      <4>2. r = Pend(3, IF b = "F0" THEN {"90", "A0"} ELSE IF b = "F4" THEN {"80"} ELSE Next3)
        BY <4>1 DEF DecodeFirst, First2
      <4>3. Second(b) = IF b = "F0" THEN {"90", "A0"} ELSE IF b = "F4" THEN {"80"} ELSE Next3
        BY <4>1 DEF Second
      <4> HIDE DEF r, Pend
      <4>4. QED
        BY <4>1, <4>2, <4>3
    <3>4. QED
      BY <1>2, <3>1, <3>2, <3>3 DEF Firsts
  <2> HIDE DEF r, Pend
  <2>2. QED
    BY <1>1, <1>2, <2>1
<1>3. CASE b \notin Firsts
  <2>1. r = Output(before, Replacement) \/ r = Output(before, b)
    BY <1>3 DEF DecodeFirst, Firsts, First2, First3, First4, Next3
  <2>2. Replacement \in Chars /\ b \in Chars
    BY DEF Chars
  <2>3. \A c : Output(before, c).decoder = NewDecoder /\ Output(before, c).output = Append(before, c)
    BY DEF Output
  <2> HIDE DEF r
  <2>4. QED
    BY <2>1, <2>2, <2>3
<1>4. QED
  BY <1>2, <1>3

LEMMA TracksNew == Tracks(NewDecoder, <<>>)
<1>1. Begun(<<>>)
  <2> DEFINE none == <<>>
  <2>1. none \in Seq(HighBytes) /\ Len(none) = 0
    OBVIOUS
  <2> HIDE DEF none
  <2>2. Begun(none)
    BY <2>1 DEF Begun
  <2>3. QED
    BY <2>2 DEF none
<1>2. NewDecoder.units = 0 /\ NewDecoder.bounds = Next3
      /\ NewDecoder = [units |-> NewDecoder.units, bounds |-> NewDecoder.bounds]
  BY DEF NewDecoder
<1>3. QED
  BY <1>1, <1>2 DEF Tracks

LEMMA TracksFirst ==
  ASSUME NEW b \in Firsts
  PROVE  Tracks([units |-> Length(b) - 1, bounds |-> Second(b)], <<b>>)
<1> DEFINE pend == <<b>>
           d == [units |-> Length(b) - 1, bounds |-> Second(b)]
<1>1. b \in HighBytes
  BY NextHigh
<1>2. pend \in Seq(HighBytes) /\ Len(pend) = 1 /\ pend[1] = b /\ pend # <<>>
  BY <1>1
<1>3. Length(b) > 1 /\ Length(b) \in Nat
  BY DEF Length
<1>4. /\ d.units = Length(b) - 1 /\ d.bounds = Second(b)
      /\ d = [units |-> d.units, bounds |-> d.bounds]
  OBVIOUS
<1> HIDE DEF pend, d
<1>5. Begun(pend)
  BY <1>2, <1>3 DEF Begun
<1>6. Tracks(d, pend)
  BY <1>2, <1>4, <1>5 DEF Tracks, Bound
<1>7. QED
  BY <1>6 DEF d, pend

\* What d, that waits for the rest of pend, makes of b
Decoded(d, pend, b, r) ==
  /\ Tracks(r.decoder, IF r.decoder.units = 0 THEN <<>>
                       ELSE IF r.output = <<>> THEN Append(pend, b) ELSE <<b>>)
  /\ \/ r.output = <<>> /\ r.decoder.units # 0
     \/ \E c \in Chars : r.output = <<c>> /\ (pend = <<>> \/ c \in {Encoded, Replacement})
     \/ \E c \in Chars : r.output = <<Replacement, c>> /\ pend # <<>>

LEMMA DecodesByte ==
  ASSUME NEW d, NEW pend, Tracks(d, pend), NEW b \in Bytes
  PROVE  Decoded(d, pend, b, DecodeByte(d, b))
<1> DEFINE r == DecodeByte(d, b)
<1>1. Begun(pend) /\ pend \in Seq(HighBytes)
  BY DEF Tracks, Begun
<1>2. pend # <<>> =>
        /\ d.units = Length(pend[1]) - Len(pend) /\ d.bounds = Bound(pend)
        /\ Len(pend) \in Nat /\ Len(pend) > 0 /\ Len(pend) < Length(pend[1])
        /\ Length(pend[1]) \in Nat
  <2>1. pend # <<>> => d.units = Length(pend[1]) - Len(pend) /\ d.bounds = Bound(pend)
    BY DEF Tracks
  <2>2. pend # <<>> => Len(pend) \in Nat /\ Len(pend) > 0
    BY <1>1
  <2>3. Length(pend[1]) \in Nat
    BY DEF Length
  <2>4. QED
    BY <1>1, <2>1, <2>2, <2>3 DEF Begun
<1>3. pend # <<>> => d.units \in Nat /\ d.units > 0
  <2>1. \A m, n \in Nat : m < n => n - m \in Nat /\ n - m > 0
    OBVIOUS
  <2>2. QED
    BY <1>2, <2>1
<1>4. pend = <<>> => d.units = 0
  BY DEF Tracks
<1>5. ASSUME NEW before \in {<<>>, <<Replacement>>}, r = DecodeFirst(before, b),
             before = <<>> <=> pend = <<>>
      PROVE  Decoded(d, pend, b, r)
  <2>1. \/ /\ b \in Firsts /\ r.output = before
           /\ r.decoder = [units |-> Length(b) - 1, bounds |-> Second(b)]
        \/ /\ r.decoder = NewDecoder
           /\ \E c \in Chars : r.output = Append(before, c)
    BY <1>5, DecodesFirst
  <2> HIDE DEF r
  <2>2. CASE /\ b \in Firsts /\ r.output = before
             /\ r.decoder = [units |-> Length(b) - 1, bounds |-> Second(b)]
    <3>1. r.decoder.units # 0
      BY <2>2 DEF Length
    <3>2. Append(<<>>, b) = <<b>> /\ <<Replacement>> # <<>> /\ Replacement \in Chars
      BY DEF Chars
    <3>3. (IF r.output = <<>> THEN Append(pend, b) ELSE <<b>>) = <<b>>
      BY <1>5, <2>2, <3>2
    <3>4. Tracks(r.decoder, <<b>>)
      BY <2>2, TracksFirst
    <3>5. \/ r.output = <<>>
          \/ \E c \in Chars : r.output = <<c>> /\ (pend = <<>> \/ c \in {Encoded, Replacement})
      BY <1>5, <2>2, <3>2
    <3>6. QED
      BY <3>1, <3>3, <3>4, <3>5 DEF Decoded
  <2>3. CASE /\ r.decoder = NewDecoder
             /\ \E c \in Chars : r.output = Append(before, c)
    <3>1. r.decoder.units = 0
      BY <2>3 DEF NewDecoder
    <3>2. PICK c \in Chars : r.output = Append(before, c)
      BY <2>3
    <3>3. Append(<<>>, c) = <<c>> /\ Append(<<Replacement>>, c) = <<Replacement, c>>
      <4> DEFINE x == Replacement
      <4> HIDE DEF x
      <4>1. Append(<<>>, c) = <<c>>
        OBVIOUS
      <4>2. Append(<<x>>, c) = <<x, c>>
        <5> DEFINE y == Append(<<x>>, c)
                   z == <<x, c>>
        <5>1. y \in Seq({x, c}) /\ Len(y) = 2 /\ y[1] = x /\ y[2] = c
          OBVIOUS
        <5>2. z \in Seq({x, c}) /\ Len(z) = 2 /\ z[1] = x /\ z[2] = c
          OBVIOUS
        <5>3. \A i \in 1 .. 2 : i = 1 \/ i = 2
          OBVIOUS
        <5> HIDE DEF y, z
        <5>4. y = z
          BY <5>1, <5>2, <5>3, SeqEqual
        <5>5. QED
          BY <5>4 DEF y, z
      <4>3. QED
        BY <4>1, <4>2 DEF x
    <3>4. \/ r.output = <<c>> /\ pend = <<>>
          \/ r.output = <<Replacement, c>> /\ pend # <<>>
      <4>1. <<Replacement>> # <<>>
        OBVIOUS
      <4>2. QED
        BY <1>5, <3>2, <3>3, <4>1
    <3>5. QED
      BY <2>3, <3>1, <3>4, TracksNew DEF Decoded
  <2>4. QED
    BY <2>1, <2>2, <2>3
<1>6. CASE pend = <<>>
  <2>1. r = DecodeFirst(<<>>, b)
    BY <1>4, <1>6 DEF DecodeByte
  <2>2. QED
    BY <1>5, <1>6, <2>1
<1>7. CASE pend # <<>> /\ b \notin d.bounds
  <2>1. r = DecodeFirst(<<Replacement>>, b) /\ <<Replacement>> # <<>>
    BY <1>3, <1>7 DEF DecodeByte
  <2> HIDE DEF r
  <2>2. Decoded(d, pend, b, r)
    BY <1>5, <1>7, <2>1
  <2>3. QED
    BY <2>2 DEF r
<1>8. CASE pend # <<>> /\ b \in d.bounds /\ d.units = 1
  <2>1. r = Output(<<>>, Encoded)
    BY <1>8 DEF DecodeByte
  <2>2. r.decoder = NewDecoder /\ r.output = <<Encoded>> /\ r.decoder.units = 0
    BY <2>1 DEF Output, NewDecoder
  <2> HIDE DEF r
  <2>3. Decoded(d, pend, b, r)
    BY <2>2, TracksNew DEF Decoded, Chars
  <2>4. QED
    BY <2>3 DEF r
<1>9. CASE pend # <<>> /\ b \in d.bounds /\ d.units # 1
  <2> DEFINE t == Append(pend, b)
  <2>1. r = Start(d.units - 1, Next3)
    BY <1>3, <1>9 DEF DecodeByte
  <2>2. /\ r.decoder.units = d.units - 1 /\ r.decoder.bounds = Next3 /\ r.output = <<>>
        /\ r.decoder = [units |-> r.decoder.units, bounds |-> r.decoder.bounds]
    BY <2>1 DEF Start
  <2>3. d.units > 1
    BY <1>3, <1>9
  <2>4. b \in Bound(pend) /\ b \in HighBytes
    BY <1>2, <1>9, SecondNext, NextHigh DEF Bound
  <2>5. Len(pend) + 1 < Length(pend[1])
    <3>1. \A m, n \in Nat : n - m > 1 => m + 1 < n
      OBVIOUS
    <3>2. QED
      BY <1>2, <1>9, <2>3, <3>1
  <2>6. Begun(t)
    BY <1>1, <1>9, <2>4, <2>5, Longer
  <2>7. t \in Seq(HighBytes) /\ Len(t) = Len(pend) + 1 /\ t[1] = pend[1] /\ t # <<>>
    BY <1>1, <1>2, <1>9, <2>4
  <2> HIDE DEF t, r
  <2>8. Bound(t) = Next3
    BY <1>2, <1>9, <2>7 DEF Bound
  <2>9. r.decoder.units = Length(t[1]) - Len(t)
    BY <1>2, <1>9, <2>2, <2>7
  <2>10. Tracks(r.decoder, t) /\ r.decoder.units # 0
    BY <1>3, <1>9, <2>2, <2>3, <2>6, <2>7, <2>8, <2>9 DEF Tracks
  <2>11. Decoded(d, pend, b, r)
    BY <2>2, <2>10 DEF Decoded, t
  <2>12. QED
    BY <2>11 DEF r
<1>10. QED
  BY <1>6, <1>7, <1>8, <1>9

-----------------------------------------------------------------------------
(* A byte *)

\* What it means for the parsers, where `no` is that the read goes on
Reads(flush, no) ==
  \/ /\ parser' = [parser EXCEPT !.out = <<>>] /\ fresh' = [fresh EXCEPT !.out = <<>>]
     /\ decoder'.units # 0 /\ string' = string
  \/ \E c \in Chars :
       /\ pending = <<>> \/ c \in {Encoded, Replacement}
       /\ Sensible(parser, c, flush) /\ string' = TextWith(string, parser, c)
       /\ parser' = Parse(parser, c, flush)
       /\ fresh' = ParseFresh(fresh, parser, c, flush)
  \/ \E c \in Chars :
       /\ pending # <<>>
       /\ Sensible(parser, Replacement, no) /\ Sensible(Parse(parser, Replacement, no), c, flush)
       /\ parser' = Parse(Parse(parser, Replacement, no), c, flush)
       /\ fresh' = ParseFresh(ParseFresh(fresh, parser, Replacement, no),
                              Parse(parser, Replacement, no), c, flush)
       /\ string' = TextWith(TextWith(string, parser, Replacement),
                             Parse(parser, Replacement, no), c)

LEMMA ReadByteReads ==
  ASSUME Tracks(decoder, pending), NEW b \in Bytes, NEW last \in BOOLEAN, ReadByte(b, last)
  PROVE  /\ Tracks(decoder', pending') /\ mode' = mode
         /\ \E flush, no \in BOOLEAN : ~no /\ Reads(flush, no)
<1> DEFINE r == DecodeByte(decoder, b)
           text == r.output
           flush == last /\ mode = "input"
           no == FALSE
           one == Parse(parser, text[1], no)
<1>1. Decoded(decoder, pending, b, r)
  BY DecodesByte
<1>2. /\ decoder' = r.decoder
      /\ pending' = IF r.decoder.units = 0 THEN <<>>
                    ELSE IF text = <<>> THEN Append(pending, b) ELSE <<b>>
      /\ mode' = mode
  BY DEF ReadByte
<1>3. Len(text) = 0 => /\ parser' = [parser EXCEPT !.out = <<>>]
                       /\ fresh' = [fresh EXCEPT !.out = <<>>] /\ string' = string
  BY DEF ReadByte
<1>4. Len(text) = 1 => /\ Sensible(parser, text[1], flush)
                       /\ parser' = Parse(parser, text[1], flush)
                       /\ fresh' = ParseFresh(fresh, parser, text[1], flush)
                       /\ string' = TextWith(string, parser, text[1])
  BY DEF ReadByte
<1>5. Len(text) = 2 => /\ Sensible(parser, text[1], no) /\ Sensible(one, text[2], flush)
                       /\ parser' = Parse(one, text[2], flush)
                       /\ fresh' = ParseFresh(ParseFresh(fresh, parser, text[1], no),
                                              one, text[2], flush)
                       /\ string' = TextWith(TextWith(string, parser, text[1]), one, text[2])
  <2> SUFFICES ASSUME Len(text) = 2
               PROVE  /\ Sensible(parser, text[1], no) /\ Sensible(one, text[2], flush)
                      /\ parser' = Parse(one, text[2], flush)
                      /\ fresh' = ParseFresh(ParseFresh(fresh, parser, text[1], no),
                                              one, text[2], flush)
                      /\ string' = TextWith(TextWith(string, parser, text[1]), one, text[2])
    OBVIOUS
  <2>1. ~(Len(text) = 0) /\ ~(Len(text) = 1)
    OBVIOUS
  <2>2. QED
    BY <2>1, Zenon DEF ReadByte
<1>6. flush \in BOOLEAN /\ no \in BOOLEAN /\ ~no
  OBVIOUS
<1> HIDE DEF r, flush, no
<1>7. Tracks(decoder', pending')
  BY <1>1, <1>2 DEF Decoded
<1>8. CASE text = <<>> /\ r.decoder.units # 0
  <2>1. Reads(flush, no)
    BY <1>2, <1>3, <1>8 DEF Reads
  <2>2. QED
    BY <1>2, <1>6, <1>7, <2>1
<1>9. CASE \E c \in Chars : text = <<c>> /\ (pending = <<>> \/ c \in {Encoded, Replacement})
  <2>1. PICK c \in Chars : text = <<c>> /\ (pending = <<>> \/ c \in {Encoded, Replacement})
    BY <1>9
  <2>2. Len(text) = 1 /\ text[1] = c
    BY <2>1
  <2>3. Reads(flush, no)
    BY <1>4, <2>1, <2>2 DEF Reads
  <2>4. QED
    BY <1>2, <1>6, <1>7, <2>3
<1>10. CASE \E c \in Chars : text = <<Replacement, c>> /\ pending # <<>>
  <2>1. PICK c \in Chars : text = <<Replacement, c>> /\ pending # <<>>
    BY <1>10
  <2>2. Len(text) = 2 /\ text[1] = Replacement /\ text[2] = c
    BY <2>1
  <2>3. Reads(flush, no)
    BY <1>5, <2>1, <2>2 DEF Reads
  <2>4. QED
    BY <1>2, <1>6, <1>7, <2>3
<1>11. QED
  BY <1>1, <1>8, <1>9, <1>10 DEF Decoded

-----------------------------------------------------------------------------
(* The theorems *)

FaultsAvoided == {"intermediate", "cancel", "cut"} \subseteq Avoid

LEMMA SensibleParse ==
  ASSUME FaultsAvoided, NEW p, Fine(p), NEW f, Twins(p, f), NEW c \in Chars,
         NEW flush \in BOOLEAN, Sensible(p, c, flush)
  PROVE  /\ Parsed(p, Parse(p, c, flush), c) /\ Twins(Parse(p, c, flush), ParseFresh(f, p, c, flush))
         /\ \A text : Holds(p, text) =>
              LET q == Parse(p, c, flush)
              IN  /\ Holds(q, TextWith(text, p, c))
                  /\ \A i \in DOMAIN q.out : HasText(q.out[i], TextWith(text, p, c), c = "BEL")
<1>1. /\ ~Awkward("intermediate", p, c, flush) /\ ~Awkward("cancel", p, c, flush)
      /\ ~Awkward("cut", p, c, flush)
  BY DEF FaultsAvoided, Sensible
<1>2. QED
  BY <1>1, ParseFine, ParseTwins, ParseKeepsText

\* The inductive invariant
Understood ==
  /\ mode \in Modes
  /\ Tracks(decoder, pending)
  /\ Fine(parser) /\ Twins(parser, fresh)
  /\ Holds(parser, string)

LEMMA InitUnderstood == Init => Understood
<1>1. Init => mode \in Modes /\ Tracks(decoder, pending)
  BY TracksNew DEF Init
<1>2. Init => Fine(parser) /\ Twins(parser, fresh) /\ Holds(parser, string)
  BY NewParserFine DEF Init, Twins, Holds, NewParser, Collecting
<1>3. QED
  BY <1>1, <1>2 DEF Understood

LEMMA NextUnderstood ==
  ASSUME FaultsAvoided, Understood, [Next]_vars
  PROVE  Understood'
<1>1. CASE Next
  <2>1. PICK b \in Bytes, last \in BOOLEAN : ReadByte(b, last)
    BY <1>1 DEF Next
  <2>2. /\ Tracks(decoder', pending') /\ mode' = mode
        /\ \E flush, no \in BOOLEAN : ~no /\ Reads(flush, no)
    BY <2>1, ReadByteReads DEF Understood
  <2>3. PICK flush \in BOOLEAN, no \in BOOLEAN : ~no /\ Reads(flush, no)
    BY <2>2
  <2>4. Fine(parser) /\ Twins(parser, fresh) /\ Holds(parser, string)
    BY DEF Understood
  <2>5. CASE /\ parser' = [parser EXCEPT !.out = <<>>] /\ fresh' = [fresh EXCEPT !.out = <<>>]
             /\ string' = string
    <3>1. Fine(parser') /\ Twins(parser', fresh') /\ Holds(parser', string')
      BY <2>4, <2>5, NewCall, TwinsNewCall DEF Holds, Fine, Ready, Shape
    <3>2. QED
      BY <2>2, <3>1 DEF Understood
  <2>6. CASE \E c \in Chars : /\ Sensible(parser, c, flush)
                              /\ parser' = Parse(parser, c, flush)
                              /\ fresh' = ParseFresh(fresh, parser, c, flush)
                              /\ string' = TextWith(string, parser, c)
    <3>1. Fine(parser') /\ Twins(parser', fresh') /\ Holds(parser', string')
      BY <2>4, <2>6, SensibleParse DEF Parsed
    <3>2. QED
      BY <2>2, <3>1 DEF Understood
  <2>7. CASE \E c \in Chars :
               /\ Sensible(parser, Replacement, no) /\ Sensible(Parse(parser, Replacement, no), c, flush)
               /\ parser' = Parse(Parse(parser, Replacement, no), c, flush)
               /\ fresh' = ParseFresh(ParseFresh(fresh, parser, Replacement, no),
                                      Parse(parser, Replacement, no), c, flush)
               /\ string' = TextWith(TextWith(string, parser, Replacement),
                                     Parse(parser, Replacement, no), c)
    <3> DEFINE p == Parse(parser, Replacement, no)
               f == ParseFresh(fresh, parser, Replacement, no)
               t == TextWith(string, parser, Replacement)
    <3>1. PICK c \in Chars : /\ Sensible(parser, Replacement, no) /\ Sensible(p, c, flush)
                             /\ parser' = Parse(p, c, flush) /\ fresh' = ParseFresh(f, p, c, flush)
                             /\ string' = TextWith(t, p, c)
      BY <2>7
    <3>2. Fine(p) /\ Twins(p, f) /\ Holds(p, t)
      BY <2>4, <3>1, SensibleParse DEF Parsed, Chars
    <3> HIDE DEF p, f, t
    <3>3. Fine(parser') /\ Twins(parser', fresh') /\ Holds(parser', string')
      BY <3>1, <3>2, SensibleParse DEF Parsed
    <3>4. QED
      BY <2>2, <3>3 DEF Understood
  <2>8. QED
    BY <2>3, <2>5, <2>6, <2>7 DEF Reads
<1>2. CASE UNCHANGED vars
  BY <1>2 DEF vars, Understood
<1>3. QED
  BY <1>1, <1>2

LEMMA UnderstoodResynchronised == Understood => Resynchronised
<1> SUFFICES ASSUME Understood
             PROVE  Resynchronised
  OBVIOUS
<1>1. DecoderOK /\ decoder \in [units : 0 .. 3, bounds : SUBSET Next3]
  BY TracksOK DEF Understood
<1>2. Fine(parser) /\ Fine(fresh)
  BY DEF Understood, Twins, Loose
<1>3. parser.out = fresh.out /\ parser.next = fresh.next
  BY DEF Understood, Twins, Loose
<1>4. \A p \in {parser, fresh} :
        /\ p.last \in States /\ p.next \in States
        /\ p.exit \in {"none", "param", "dcs", "osc", "apc"}
        /\ p.exit # "none" => p.last = p.next
  BY <1>2 DEF Fine, Ready, Placed
<1>5. ~parser.broken
  BY <1>2 DEF Fine, Ready
<1>6. TypeOK
  BY <1>1, <1>4, <1>5 DEF TypeOK, Understood
<1>7. QED
  BY <1>1, <1>3, <1>6 DEF Resynchronised

(* The parser of escape sequences (EscapeSequenceParser::parse) understands *)
(* every sequence as one that is made anew for it would, and the decoder    *)
(* (Utf8StreamDecoder) waits for what continues a code point and nothing    *)
(* else: whatever bytes came before, however they were split.               *)
THEOREM UnderstoodAfresh ==
  ASSUME FaultsAvoided
  PROVE  Spec => []Resynchronised
<1>1. Init => Understood
  BY InitUnderstood
<1>2. Understood /\ [Next]_vars => Understood'
  BY NextUnderstood
<1>3. Understood => Resynchronised
  BY UnderstoodResynchronised
<1>4. QED
  BY <1>1, <1>2, <1>3, PTL DEF Spec

LEMMA QuietStrings ==
  ASSUME NEW out, Quiet(out), NEW i \in DOMAIN out
  PROVE  out[i][1] \notin {"DCS", "OSC", "APC"}
BY DEF Quiet, Strings

LEMMA NextWhole ==
  ASSUME FaultsAvoided, "dcs" \in Avoid, Understood, Next
  PROVE  /\ (\E i \in DOMAIN parser'.out : parser'.out[i][1] \in {"DCS", "OSC", "APC"}) => Terminator
         /\ \A i \in DOMAIN parser'.out : HasText(parser'.out[i], string', parser'.prev = "BEL")
         /\ parser.next \in StringStates /\ Terminator /\ decoder'.units = 0 => parser'.next = "Ground"
<1> DEFINE HandsOn == \E i \in DOMAIN parser'.out : parser'.out[i][1] \in {"DCS", "OSC", "APC"}
           Texts == \A i \in DOMAIN parser'.out : HasText(parser'.out[i], string', parser'.prev = "BEL")
<1>1. PICK b \in Bytes, last \in BOOLEAN : ReadByte(b, last)
  BY DEF Next
<1>2. PICK flush \in BOOLEAN, no \in BOOLEAN : ~no /\ Reads(flush, no)
  BY <1>1, ReadByteReads DEF Understood
<1>3. Fine(parser) /\ Twins(parser, fresh) /\ Holds(parser, string)
  BY DEF Understood
<1>4. Quiet(parser'.out) => ~HandsOn /\ Texts
  BY QuietStrings DEF HasText
<1>5. ASSUME NEW p, NEW c, EndsString(p, c), Sensible(p, c, flush)
      PROVE  p.next \notin Headers
  BY <1>5 DEF Sensible, Awkward, DcsHeader, EndsString, Headers
<1> HIDE DEF HandsOn, Texts
<1>6. CASE parser' = [parser EXCEPT !.out = <<>>] /\ decoder'.units # 0
  <2>1. Quiet(parser'.out)
    BY <1>3, <1>6, NewCall, QuietEmpty
  <2>2. QED
    BY <1>4, <1>6, <2>1 DEF HandsOn, Texts
<1>7. CASE \E c \in Chars : /\ pending = <<>> \/ c \in {Encoded, Replacement}
                            /\ Sensible(parser, c, flush) /\ parser' = Parse(parser, c, flush)
                            /\ string' = TextWith(string, parser, c)
  <2>1. PICK c \in Chars : /\ pending = <<>> \/ c \in {Encoded, Replacement}
                           /\ Sensible(parser, c, flush) /\ parser' = Parse(parser, c, flush)
                           /\ string' = TextWith(string, parser, c)
    BY <1>7
  <2>2. Parsed(parser, parser', c)
    BY <1>3, <2>1, SensibleParse
  <2>3. c \in {"BEL", "\\"} => c \notin {Encoded, Replacement}
    BY DEF Encoded, Replacement
  <2>4. Terminator <=> EndsString(parser, c)
    BY <2>1, <2>2, <2>3 DEF Terminator, EndsString, Parsed
  <2>5. HandsOn => Terminator
    BY <1>4, <2>2, <2>4 DEF Parsed
  <2>6. parser.next \in StringStates /\ Terminator => parser'.next = "Ground"
    BY <1>5, <2>1, <2>2, <2>4 DEF Parsed
  <2>7. Texts
    BY <1>3, <2>1, <2>2, SensibleParse DEF Texts, Parsed
  <2>8. QED
    BY <2>5, <2>6, <2>7 DEF HandsOn, Texts
<1>8. CASE \E c \in Chars :
             /\ pending # <<>>
             /\ Sensible(parser, Replacement, no) /\ Sensible(Parse(parser, Replacement, no), c, flush)
             /\ parser' = Parse(Parse(parser, Replacement, no), c, flush)
             /\ string' = TextWith(TextWith(string, parser, Replacement),
                                   Parse(parser, Replacement, no), c)
  <2> DEFINE p == Parse(parser, Replacement, no)
             t == TextWith(string, parser, Replacement)
  <2>1. PICK c \in Chars : /\ pending # <<>>
                           /\ Sensible(parser, Replacement, no) /\ Sensible(p, c, flush)
                           /\ parser' = Parse(p, c, flush) /\ string' = TextWith(t, p, c)
    BY <1>8
  <2>2. /\ Parsed(parser, p, Replacement) /\ Twins(p, ParseFresh(fresh, parser, Replacement, no))
        /\ Holds(p, t)
    BY <1>3, <2>1, SensibleParse DEF Chars
  <2>3. parser.next \in StringStates => p.next = parser.next
    <3>1. p = Parse(parser, Replacement, FALSE)
      BY <1>2
    <3> HIDE DEF p
    <3>2. QED
      BY <1>3, <3>1, ReplacementParsed
  <2> HIDE DEF p, t
  <2>4. Parsed(p, parser', c) /\ p.prev = Replacement
    BY <2>1, <2>2, SensibleParse DEF Parsed
  <2>5. EndsString(p, c) <=> c = "BEL"
    BY <2>4 DEF EndsString, Replacement
  <2>6. Terminator <=> c = "BEL"
    BY <2>1, <2>4 DEF Terminator, Parsed
  <2>7. HandsOn => Terminator
    BY <1>4, <2>4, <2>5, <2>6 DEF Parsed
  <2>8. parser.next \in StringStates /\ Terminator => parser'.next = "Ground"
    BY <1>5, <2>1, <2>3, <2>4, <2>5, <2>6 DEF Parsed
  <2>9. Texts
    BY <2>1, <2>2, <2>4, SensibleParse DEF Texts, Parsed
  <2>10. QED
    BY <2>7, <2>8, <2>9 DEF HandsOn, Texts
<1>9. QED
  BY <1>2, <1>6, <1>7, <1>8 DEF Reads

(* The parser hands on a string (on_state_exit) when its terminator comes   *)
(* and never before, with all of the text that arrived since it began and   *)
(* nothing else, and the terminator ends it (transition to Ground).         *)
THEOREM StringsEnd ==
  ASSUME FaultsAvoided, "dcs" \in Avoid
  PROVE  Spec => StringsWhole
<1> DEFINE Whole ==
      /\ (\E i \in DOMAIN parser'.out : parser'.out[i][1] \in {"DCS", "OSC", "APC"}) => Terminator
      /\ \A i \in DOMAIN parser'.out : HasText(parser'.out[i], string', parser'.prev = "BEL")
      /\ parser.next \in StringStates /\ Terminator /\ decoder'.units = 0 => parser'.next = "Ground"
<1>1. Init => Understood
  BY InitUnderstood
<1>2. Understood /\ [Next]_vars => Understood'
  BY NextUnderstood
<1>3. Understood /\ [Next]_vars => [Whole]_vars
  BY NextWhole
<1>4. QED
  BY <1>1, <1>2, <1>3, PTL DEF Spec, StringsWhole
=============================================================================
