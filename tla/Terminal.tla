------------------------------ MODULE Terminal ------------------------------
(***************************************************************************)
(* The state of a terminal apart from the text it shows                    *)
(* (lib/src/terminal.cpp, mode.cpp): its modes, its size, and for each of  *)
(* its two screens the cursor, the margins, the saved cursor and the       *)
(* stack of key reporting flags.  Escape sequences of the program, soft    *)
(* resets and changes of the visible size change it.                       *)
(*                                                                         *)
(* A handler gives the set of the states it can lead to: how a change of   *)
(* the size moves the cursor of the primary screen depends on its text     *)
(* (module History), so that any position is possible here.                *)
(***************************************************************************)
EXTENDS Naturals, Sequences

CONSTANTS
  Sizes,            \* sizes of panes: [rows, cols, cell], cell the size of a cell in pixels
  PageRows,         \* the size of the screen in 80 and 132 column mode
  NarrowCols,
  WideCols,
  KeyFlags,         \* KeyReportingFlags
  MaxStack,         \* entries of the stack of key reporting flags, 100 in the code
  Renditions,       \* graphics renditions other than the default one
  Styles,           \* cursor styles set by DECSCUSR
  Modes,            \* the DEC modes that are set and reset
  Params,           \* parameters of escape sequences
  Avoid,            \* situations that are left out, see Awkward
  MaxSteps          \* bound on the number of steps

ASSUME TerminalAssumption ==
  /\ Sizes \subseteq [rows : Nat \ {0}, cols : Nat \ {0}, cell : Nat]
  /\ PageRows \in Nat \ {0} /\ NarrowCols \in Nat \ {0} /\ WideCols \in Nat \ {0}
  /\ MaxStack \in Nat \ {0} /\ MaxSteps \in Nat /\ Params \subseteq Nat

VARIABLES
  term,       \* the Terminal object
  steps       \* the number of steps taken

vars == <<term, steps>>

Least(a, b)    == IF a < b THEN a ELSE b
Clamp(x, a, b) == IF x < a THEN a ELSE IF x > b THEN b ELSE x
Plain          == "plain"

(* DEC modes that are a flag each, and those of them that are on at first. *)
Flags     == {1, 5, 7, 25, 1004, 1007, 2004, 2026, 2031}
OnAtFirst == {7, 25, 1007}
Protocols == {1000, 1002, 1003}
Encodings == {1005, 1006, 1015, 1016}

NewScreen(size) ==
  [size   |-> size,   cursor |-> [row |-> 0, col |-> 0, over |-> FALSE],
   origin |-> FALSE,  region |-> [top |-> 0, bottom |-> size.rows],
   sgr    |-> Plain,  saved  |-> <<>>,  style |-> 6,
   keys   |-> {},     stack  |-> <<>>,  seamless |-> {}]

(* The screens are the primary one and, in use, the alternate one after it. *)
NewTerminal(size, force) ==
  [screens |-> <<NewScreen(size)>>, visible |-> size, told |-> size, reported |-> size,
   columns |-> 0, allowed |-> FALSE, forced |-> FALSE, allowForce |-> force,
   on |-> OnAtFirst, inBand |-> FALSE, protocol |-> 0, encoding |-> 0, shift |-> 0,
   tabs |-> {}, osc |-> {}]

Active(t)        == t.screens[Len(t.screens)]
WithActive(t, s) == [t EXCEPT !.screens[Len(t.screens)] = s]
InAlternate(t)   == Len(t.screens) = 2

-----------------------------------------------------------------------------
(***************************************************************************)
(* The cursor and the margins of a screen.                                 *)
(***************************************************************************)
SetCursor(s, row, col) ==
  LET low  == IF s.origin THEN s.region.top ELSE 0
      high == IF s.origin THEN s.region.bottom - 1 ELSE s.size.rows - 1
  IN  [s EXCEPT !.cursor = [row  |-> Clamp(row, low, high),
                            col  |-> Clamp(col, 0, s.size.cols - 1),
                            over |-> FALSE]]

(* CUP: rows count from the top margin in origin mode. *)
CursorTo(s, row, col) == SetCursor(s, row + (IF s.origin THEN s.region.top ELSE 0), col)

SetOrigin(s, on) == IF s.origin = on THEN s ELSE SetCursor([s EXCEPT !.origin = on], 0, 0)

SaveCursor(s) == [cursor |-> s.cursor, sgr |-> s.sgr, origin |-> s.origin]

RestoreCursor(s, saved) ==
  LET moved == SetCursor([s EXCEPT !.origin = saved.origin], saved.cursor.row, saved.cursor.col)
  IN  [moved EXCEPT !.sgr = saved.sgr, !.cursor.over = saved.cursor.over]

(* DECSTBM: a parameter of 0 is one less than the smallest number, which   *)
(* is the largest; regions of a single row are refused.                    *)
Margins(s, top, bottom) ==
  LET first == IF top = 0 THEN s.size.rows - 1 ELSE Least(top - 1, s.size.rows - 1)
      last  == IF bottom = 0 THEN s.size.rows - 1 ELSE Least(bottom - 1, s.size.rows - 1)
  IN  IF last < first + 1 THEN s
      ELSE SetCursor([s EXCEPT !.region = [top |-> first, bottom |-> last + 1]], 0, 0)

DefaultMargins(s) == Margins(s, 1, s.size.rows)

(* Printing up to the last column of the row leaves a wrap pending. *)
FillRow(s) == [s EXCEPT !.cursor = [@ EXCEPT !.col = s.size.cols - 1, !.over = TRUE]]

(* DECSC and DECRC *)
Save(s)    == [s EXCEPT !.saved = <<SaveCursor(s)>>]
Restore(s) == IF s.saved = <<>> THEN s
              ELSE [RestoreCursor(s, s.saved[1]) EXCEPT !.saved = <<>>]

(* Screen::resize, which does nothing when only the size in pixels is new. *)
(* The margin at the end of the screen stays there.                        *)
ResizedAt(s, size, cursor) ==
  [s EXCEPT !.size = size, !.cursor = cursor,
            !.region.bottom = IF @ = s.size.rows THEN size.rows ELSE Least(@, size.rows)]

Resized(s, size, isPrimary) ==
  IF s.size.rows = size.rows /\ s.size.cols = size.cols THEN {s}
  ELSE IF isPrimary
  THEN {ResizedAt(s, size, [row |-> r, col |-> c, over |-> FALSE]) :
          r \in 0 .. size.rows - 1, c \in 0 .. size.cols - 1}
  ELSE {ResizedAt(s, size, [s.cursor EXCEPT !.row = Least(@, size.rows - 1),
                                            !.col = Least(@, size.cols - 1)])}

(* LF and RI scroll the region at its end and at its start.  RI in the     *)
(* first row, when the region does not start there, is one less than 0.    *)
LineFeed(s) == IF s.cursor.row + 1 = s.region.bottom THEN s
               ELSE SetCursor(s, s.cursor.row + 1, s.cursor.col)
ReverseIndex(s) ==
  IF s.cursor.row = s.region.top THEN s
  ELSE SetCursor(s, IF s.cursor.row = 0 THEN s.size.rows ELSE s.cursor.row - 1, s.cursor.col)

(* The rows and columns between the cursor and where it moves to. *)
Up(s, n, col)   == SetCursor(s, IF n > s.cursor.row THEN 0 ELSE s.cursor.row - n, col)
Down(s, n, col) == SetCursor(s, s.cursor.row + n, col)
Forward(s, n)   == SetCursor(s, s.cursor.row, s.cursor.col + n)
Backward(s, n)  == SetCursor(s, s.cursor.row, IF n > s.cursor.col THEN 0 ELSE s.cursor.col - n)

Moves == {"CUU", "CUD", "CUF", "CUB", "CPL", "CNL", "CHA", "VPA", "LF", "CR", "NEL", "RI"}
Moved(s, move, n) ==
  CASE move = "CUU" -> Up(s, n, s.cursor.col)
    [] move = "CUD" -> Down(s, n, s.cursor.col)
    [] move = "CUF" -> Forward(s, n)
    [] move = "CUB" -> Backward(s, n)
    [] move = "CPL" -> Up(s, n, 0)
    [] move = "CNL" -> Down(s, n, 0)
    [] move = "CHA" -> SetCursor(s, s.cursor.row, n - 1)
    [] move = "VPA" -> CursorTo(s, n - 1, s.cursor.col)
    [] move = "LF"  -> LineFeed(s)
    [] move = "CR"  -> SetCursor(s, s.cursor.row, 0)
    [] move = "NEL" -> LineFeed(SetCursor(s, s.cursor.row, 0))
    [] move = "RI"  -> ReverseIndex(s)

(* DECALN *)
Align(s) == SetCursor([s EXCEPT !.region = [top |-> 0, bottom |-> s.size.rows]], 0, 0)

-----------------------------------------------------------------------------
(***************************************************************************)
(* The size of the terminal.                                               *)
(***************************************************************************)
Resize(t, size) ==
  IF Active(t).size = size THEN {t}
  ELSE {[WithActive(t, s) EXCEPT !.told = size, !.reported = IF t.inBand THEN size ELSE @] :
          s \in Resized(Active(t), size, ~InAlternate(t))}

(* Mutant: the size of the pane overrides the one the program has chosen. *)
SetVisibleSize_Always(t, size) ==
  IF t.visible = size THEN {t} ELSE Resize([t EXCEPT !.visible = size], size)

SetVisibleSize(t, size) ==
  IF t.visible = size THEN {t}
  ELSE LET u == [t EXCEPT !.visible = size]
       IN  IF t.columns # 0 \/ t.forced THEN {u} ELSE Resize(u, size)

Cleared(t)  == WithActive(t, [Active(t) EXCEPT !.cursor.over = FALSE])
Unscroll(t) == WithActive(t, DefaultMargins(Active(t)))

(* DECCOLM *)
SetColumns(t, cols) ==
  IF ~t.allowed THEN {t}
  ELSE {Unscroll(u) : u \in Resize(Cleared([t EXCEPT !.columns = cols]),
                                   [Active(t).size EXCEPT !.rows = PageRows, !.cols = cols])}

AllowColumns(t, on) ==
  IF on THEN {[t EXCEPT !.allowed = TRUE]}
  ELSE LET u == [t EXCEPT !.allowed = FALSE, !.columns = 0]
       IN  IF t.columns = 0 THEN {u} ELSE Resize(u, t.visible)

(* CSI 8 ; rows ; cols t, allowed in replays only.  The size of a cell is  *)
(* left alone here.                                                        *)
ForceSize(t, rows, cols) ==
  IF ~t.allowForce THEN {t}
  ELSE {Unscroll(Cleared(u)) :
          u \in Resize([t EXCEPT !.forced = rows # 0 \/ cols # 0],
                       [Active(t).size EXCEPT
                          !.rows = IF rows = 0 THEN t.visible.rows ELSE rows,
                          !.cols = IF cols = 0 THEN t.visible.cols ELSE cols])}

(* Mutant: the key reporting flags are those of both screens. *)
UseAlternate_SharedKeys(t, on) ==
  IF InAlternate(t) = on THEN {t}
  ELSE IF on THEN {[t EXCEPT !.screens = Append(@, NewScreen(Active(t).size))]}
  ELSE {[t EXCEPT !.screens = <<[s EXCEPT !.keys = Active(t).keys, !.stack = Active(t).stack]>>] :
          s \in Resized(t.screens[1], Active(t).size, TRUE)}

(* The primary screen gets the size the alternate one had. *)
UseAlternate(t, on) ==
  IF InAlternate(t) = on THEN {t}
  ELSE IF on THEN {[t EXCEPT !.screens = Append(@, NewScreen(Active(t).size))]}
  ELSE {[t EXCEPT !.screens = <<s>>] : s \in Resized(t.screens[1], Active(t).size, TRUE)}

-----------------------------------------------------------------------------
(***************************************************************************)
(* Modes.                                                                  *)
(***************************************************************************)
Switch(t, m, on) == [t EXCEPT !.on = IF on THEN @ \cup {m} ELSE @ \ {m}]

SetInBand(t, on) ==
  [t EXCEPT !.inBand = on, !.reported = IF on THEN Active(t).size ELSE @]

(* X10 mouse mode is both a protocol and an encoding. *)
SetMode(t, m, on) ==
  CASE m = 3            -> SetColumns(t, IF on THEN WideCols ELSE NarrowCols)
    [] m = 6            -> {WithActive(t, SetOrigin(Active(t), on))}
    [] m = 9            -> {[t EXCEPT !.protocol = IF on THEN 9 ELSE 0, !.encoding = 0]}
    [] m = 40           -> AllowColumns(t, on)
    [] m \in Protocols  -> {[t EXCEPT !.protocol = IF on THEN m ELSE 0]}
    [] m \in Encodings  -> {[t EXCEPT !.encoding = IF on THEN m ELSE 0]}
    [] m = 1049         -> UseAlternate(t, on)
    [] m = 2048         -> {SetInBand(t, on)}
    [] m \in Flags      -> {Switch(t, m, on)}
    [] OTHER            -> {t}

-----------------------------------------------------------------------------
(***************************************************************************)
(* The keyboard protocol: flags, and a stack of flags, for each screen.    *)
(***************************************************************************)
SetKeys(s, flags, mode) ==
  [s EXCEPT !.keys = CASE mode = 1 -> flags
                       [] mode = 2 -> @ \cup flags
                       [] mode = 3 -> @ \ flags
                       [] OTHER    -> @]

(* When the stack is full its oldest entry goes. *)
PushKeys(s, flags) ==
  [s EXCEPT !.stack = Append(IF Len(@) >= MaxStack THEN Tail(@) ELSE @, s.keys),
            !.keys  = flags]

(* Of the n entries popped only the last one goes, unless all go. *)
PopKeys(s, n) ==
  IF n = 0 THEN s
  ELSE IF n >= Len(s.stack) THEN [s EXCEPT !.stack = <<>>, !.keys = {}]
  ELSE LET left == Len(s.stack) - n
       IN  [s EXCEPT !.keys  = s.stack[left + 1],
                     !.stack = SubSeq(@, 1, left) \o SubSeq(@, left + 2, Len(@))]

-----------------------------------------------------------------------------
(***************************************************************************)
(* The rest of the escape sequences.                                       *)
(***************************************************************************)
(* HT: without tab stops there is one every 8 columns. *)
NextTab(t) ==
  LET s     == Active(t)
      after == {c \in t.tabs : c > s.cursor.col}
      to    == IF t.tabs = {} THEN 8 * (s.cursor.col \div 8 + 1)
               ELSE IF after = {} THEN s.size.cols - 1
               ELSE CHOOSE c \in after : \A d \in after : c <= d
  IN  WithActive(t, SetCursor(s, s.cursor.row, to))

(* HTS and TBC *)
SetTab(t)       == [t EXCEPT !.tabs = @ \cup {Active(t).cursor.col}]
ClearTab(t, ps) == [t EXCEPT !.tabs = CASE ps = 0 -> @ \ {Active(t).cursor.col}
                                        [] ps = 3 -> {}
                                        [] OTHER  -> @]

SetStyle(s, style) == [s EXCEPT !.style = IF style = 0 THEN 1 ELSE IF style >= 7 THEN @ ELSE style]

(* OSC 8671: registering for seamless navigation, and not *)
Register(s, how) == [s EXCEPT !.seamless = how]

(* The rendition that is reset is restored with the cursor. *)
ResetScreen(s) ==
  LET clean == DefaultMargins([s EXCEPT !.style = 2, !.saved = <<>>])
      at    == [SaveCursor(s) EXCEPT !.origin = FALSE]
  IN  [RestoreCursor([clean EXCEPT !.sgr = Plain], at) EXCEPT
         !.stack = <<>>, !.keys = {}, !.seamless = {}]

ResetModes(t) ==
  [t EXCEPT !.allowed = FALSE, !.allowForce = FALSE, !.encoding = 0, !.protocol = 0,
            !.osc = @ \ {"palette"}, !.on = (@ \cup {7, 25}) \ {1004, 2026, 2031}]

SoftReset(t) ==
  UNION {Resize(ResetModes(WithActive(u, ResetScreen(Active(u)))), u.visible) :
           u \in UseAlternate(t, FALSE)}

(* Printing the text of the screen again with the cursor saved at `cursor` *)
(* leaves the rendition of the last cell and the cursor at the end.  A     *)
(* cursor with a wrap pending is saved after its cell is printed: past the *)
(* cell, when the row goes on.  Rows that wrapped wrap with auto wrap only. *)
PrintContents(s, cursor, wrap) ==
  LET at == IF cursor.over /\ cursor.col < s.size.cols - 1
            THEN [cursor EXCEPT !.col = @ + 1, !.over = FALSE] ELSE cursor
  IN  {[s EXCEPT !.saved  = <<[cursor |-> c, sgr |-> g, origin |-> s.origin]>>,
                 !.sgr    = h,
                 !.cursor = [row |-> s.size.rows - 1, col |-> s.size.cols - 1, over |-> TRUE]] :
         g, h \in Renditions \cup {Plain}, c \in IF wrap THEN {at} ELSE {at, s.cursor}}

(* The handler of an escape sequence, named by its first component. *)
Handle(t, op) ==
  LET s     == Active(t)
      To(u) == {WithActive(t, u)}
  IN  CASE op[1] = "DECSET"   -> SetMode(t, op[2], TRUE)
        [] op[1] = "DECRST"   -> SetMode(t, op[2], FALSE)
        [] op[1] = "DECSTBM"  -> To(Margins(s, op[2], op[3]))
        [] op[1] = "CUP"      -> To(CursorTo(s, op[2], op[3]))
        [] op[1] \in Moves    -> To(Moved(s, op[1], op[2]))
        [] op[1] = "DECALN"   -> To(Align(s))
        [] op[1] = "text"     -> To(FillRow(s))
        [] op[1] = "contents" -> {WithActive(t, u) : u \in PrintContents(s, op[2], 7 \in t.on)}
        [] op[1] = "DECSC"    -> To(Save(s))
        [] op[1] = "DECRC"    -> To(Restore(s))
        [] op[1] = "SGR"      -> To([s EXCEPT !.sgr = op[2]])
        [] op[1] = "DECSCUSR" -> To(SetStyle(s, op[2]))
        [] op[1] = "HT"       -> {NextTab(t)}
        [] op[1] = "HTS"      -> {SetTab(t)}
        [] op[1] = "TBC"      -> {ClearTab(t, op[2])}
        [] op[1] = "set keys" -> To(SetKeys(s, op[2], op[3]))
        [] op[1] = "push"     -> To(PushKeys(s, op[2]))
        [] op[1] = "pop"      -> To(PopKeys(s, op[2]))
        [] op[1] = "size"     -> ForceSize(t, op[2], op[3])
        [] op[1] = "shift"    -> {IF op[2] >= 3 THEN t ELSE [t EXCEPT !.shift = op[2]]}
        [] op[1] = "seamless" -> To(Register(s, op[2]))
        [] op[1] = "OSC"      -> {[t EXCEPT !.osc = @ \cup {op[2]}]}
        [] op[1] = "DECSTR"   -> SoftReset(t)

-----------------------------------------------------------------------------
(***************************************************************************)
(* Situations the runs can leave out because the code goes wrong in them.  *)
(*   "pixels"  a size that differs from the one before only in the size of *)
(*             its cells                                                   *)
(*   "region"  the screen gets so low that the margins are below it        *)
(*   "reset"   a soft reset in 80 or 132 column mode, or with a rendition  *)
(***************************************************************************)
OnlyPixels(a, b) == a # b /\ a.rows = b.rows /\ a.cols = b.cols

MixesPixels(t, u) ==
  \/ \E i \in DOMAIN t.screens : OnlyPixels(t.screens[i].size, u.visible)
  \/ OnlyPixels(t.screens[1].size, Active(t).size)

LosesRegion(t) == \E i \in DOMAIN t.screens :
                    t.screens[i].region.top >= t.screens[i].region.bottom

Leaves(situation, condition) == ~(situation \in Avoid /\ condition)

-----------------------------------------------------------------------------
(***************************************************************************)
(* Actions.                                                                *)
(***************************************************************************)
Init ==
  /\ term \in {NewTerminal(size, FALSE) : size \in Sizes}
  /\ steps = 0

Becomes(outcomes) ==
  /\ steps < MaxSteps
  /\ steps' = steps + 1
  /\ term' \in outcomes
  /\ Leaves("pixels", MixesPixels(term, term')) /\ Leaves("region", LosesRegion(term'))

Receive(op) == Becomes(Handle(term, op))

ReceiveReset     == /\ Leaves("reset", term.columns # 0 \/ Active(term).sgr # Plain)
                    /\ Receive(<<"DECSTR">>)

(* The pane is given a new size when it is drawn. *)
PaneResized(size) == Becomes(SetVisibleSize(term, size))

(* The user navigates into the pane: OSC 8671 *)
NavigateEntered == /\ Active(term).seamless = {"active", "hide"}
                   /\ Becomes({Switch(term, 25, FALSE)})

Next ==
  \/ \E m \in Modes : Receive(<<"DECSET", m>>)
  \/ \E m \in Modes : Receive(<<"DECRST", m>>)
  \/ \E top, bottom \in Params : Receive(<<"DECSTBM", top, bottom>>)
  \/ \E row, col \in Params : Receive(<<"CUP", row, col>>)
  \/ \E move \in Moves, n \in Params \ {0} : Receive(<<move, n>>)
  \/ Receive(<<"DECALN">>)
  \/ Receive(<<"text">>)
  \/ Receive(<<"DECSC">>)
  \/ Receive(<<"DECRC">>)
  \/ \E sgr \in Renditions : Receive(<<"SGR", sgr>>)
  \/ \E style \in Styles : Receive(<<"DECSCUSR", style>>)
  \/ Receive(<<"HT">>)
  \/ Receive(<<"HTS">>)
  \/ \E ps \in {0, 3} : Receive(<<"TBC", ps>>)
  \/ \E flags \in KeyFlags, mode \in 1 .. 3 : Receive(<<"set keys", flags, mode>>)
  \/ \E flags \in KeyFlags : Receive(<<"push", flags>>)
  \/ \E n \in Params : Receive(<<"pop", n>>)
  \/ \E n \in Params : Receive(<<"shift", n>>)
  \/ \E how \in {{}, {"active"}, {"active", "hide"}} : Receive(<<"seamless", how>>)
  \/ \E name \in {"title", "palette"} : Receive(<<"OSC", name>>)
  \/ ReceiveReset
  \/ \E size \in Sizes : PaneResized(size)
  \/ NavigateEntered

Spec == Init /\ [][Next]_vars

-----------------------------------------------------------------------------
(***************************************************************************)
(* Properties.                                                             *)
(***************************************************************************)
ScreenOK(s) ==
  /\ s.size.rows \in Nat \ {0} /\ s.size.cols \in Nat \ {0} /\ s.size.cell \in Nat
  /\ s.cursor \in [row : 0 .. s.size.rows - 1, col : 0 .. s.size.cols - 1, over : BOOLEAN]
  /\ s.region \in [top : 0 .. s.size.rows - 1, bottom : 1 .. s.size.rows]
  /\ s.region.top < s.region.bottom
  /\ s.stack \in Seq(SUBSET UNION KeyFlags) /\ Len(s.stack) <= MaxStack
  /\ Len(s.saved) <= 1

(* The cursor and the margins of both screens are on them, as              *)
(* set_scroll_region and set_cursor_col assert, and the stack of flags     *)
(* does not grow without bound.                                            *)
TypeOK ==
  /\ Len(term.screens) \in {1, 2}
  /\ \A i \in DOMAIN term.screens : ScreenOK(term.screens[i])
  /\ term.columns \in {0, NarrowCols, WideCols}
  /\ term.protocol \in {0, 9} \cup Protocols /\ term.encoding \in {0} \cup Encodings

(* The program has last been told the size the screen it draws on has, and *)
(* that is the size of the pane unless the program has chosen the columns. *)
SizeTold ==
  /\ TypeOK
  /\ term.told = Active(term).size
  /\ term.inBand => term.reported = Active(term).size
  /\ term.columns = 0 /\ ~term.forced => Active(term).size = term.visible
  /\ term.columns # 0 => term.allowed /\ Active(term).size.cols = term.columns

(* What a program does on the alternate screen leaves the primary screen   *)
(* alone: leaving it brings back the flags, the saved cursor, the margins  *)
(* and the rendition there were.                                           *)
Kept(s) == [keys |-> s.keys, stack |-> s.stack, saved |-> s.saved, seamless |-> s.seamless,
            style |-> s.style, sgr |-> s.sgr, origin |-> s.origin, top |-> s.region.top]
PrimaryKept ==
  [][InAlternate(term) =>
       IF InAlternate(term') THEN term'.screens[1] = term.screens[1]
       ELSE Kept(term'.screens[1]) = Kept(term.screens[1]) \/ ReceiveReset]_vars
=============================================================================
