------------------------------- MODULE History ------------------------------
(***************************************************************************)
(* The main screen of a terminal and its scroll back                       *)
(* (lib/src/terminal/screen.cpp, scroll_back.cpp): rows that scroll out of *)
(* the screen, the row it is scrolled to, the selection, and the commands  *)
(* of the shell, all of which name rows by their absolute positions.       *)
(*                                                                         *)
(* Scroll back is kept in groups of rows that are closed when they hold    *)
(* enough cells.  A change of the width reflows the rows on the screen at  *)
(* once and a group only when its rows are to be seen; a change of the     *)
(* height moves rows into scroll back or takes them out of it.  Each time  *)
(* every position has to follow the text it names, and when the oldest     *)
(* group is dropped the positions in it have to go.                        *)
(*                                                                         *)
(* The scroll region is the whole screen, and the background the default   *)
(* one.  How characters overwrite cells is the subject of module Screen.   *)
(***************************************************************************)
EXTENDS Reflow, Commands, FiniteSets

CONSTANTS
  Sizes,              \* the sizes <<rows, cols>> the screen has
  Chars,              \* narrow characters printed, and Left for a wide one
  TargetCells,        \* ScrollBack::target_cells_per_group
  MaxCells,           \* ScrollBack::max_cells_per_group
  MaxGroups,          \* ScrollBack::max_groups
  Printed,            \* what programs have printed at the start, see Feed
  Apps,               \* application ids of commands, "" for none
  Redraws,            \* whether shells say that they redraw their prompts
  Modes,              \* selection modes of further clicks: "word", "line"
  Avoid,              \* situations that are left out, see Awkward
  MaxOutput,          \* bounds on what is printed, on marks,
  MaxMarks,           \* on resizes and on selecting
  MaxResizes,
  MaxMouse,
  MaxSteps            \* and on all of these together

ASSUME HistoryAssumption ==
  /\ Sizes \subseteq (Nat \ {0}) \X (Nat \ {0})
  /\ TargetCells \in Nat \ {0} /\ MaxCells \in Nat /\ MaxCells >= TargetCells
  /\ MaxGroups \in Nat \ {0}
  /\ Redraws \subseteq BOOLEAN /\ Modes \subseteq {"word", "line"}

VARIABLES
  screen,     \* the Screen object
  used        \* how much of the bounds has been used

vars == <<screen, used>>

Least(a, b)    == IF a < b THEN a ELSE b
Clamp(x, a, b) == IF x < a THEN a ELSE IF x > b THEN b ELSE x
NoPoint        == <<>>
NoReflow       == 0

Rows(s) == s.size[1]
Cols(s) == s.size[2]

BlankRow(cols) == Row([c \in 1 .. cols |-> Blank], FALSE)

RECURSIVE BlankRows(_, _)
BlankRows(n, cols) == IF n = 0 THEN <<>> ELSE Append(BlankRows(n - 1, cols), BlankRow(cols))

NewScreen(size) ==
  [size |-> size, active |-> BlankRows(size[1], size[2]),
   cursor |-> [row |-> 0, col |-> 0, over |-> FALSE],
   groups |-> <<>>, start |-> 0, total |-> 0,
   scroll |-> 0, commands |-> NoCommands, sel |-> NoPoint]

-----------------------------------------------------------------------------
(***************************************************************************)
(* Rows and positions.                                                     *)
(***************************************************************************)
ScreenStart(s) == s.start + s.total
End(s)         == ScreenStart(s) + Rows(s)
AtBottom(s)    == s.scroll = ScreenStart(s)
CursorRow(s)   == ScreenStart(s) + s.cursor.row
PosOf(s)       == <<CursorRow(s), s.cursor.col>>

RECURSIVE GroupRows(_)
GroupRows(groups) == IF groups = <<>> THEN <<>> ELSE Head(groups).rows \o GroupRows(Tail(groups))

AllRows(s)    == GroupRows(s.groups) \o s.active
RowAt(s, row) == AllRows(s)[row - s.start + 1]

(* The position of a cell next to the one given, at the start of a wide    *)
(* character.                                                              *)
ClampPoint(s, point) ==
  LET row   == Clamp(point[1], s.start, End(s) - 1)
      cells == RowAt(s, row).cells
      col   == IF cells = <<>> THEN 0 ELSE Clamp(point[2], 0, Len(cells) - 1)
  IN  <<row, IF col > 0 /\ cells[col + 1] = Right THEN col - 1 ELSE col>>

ClampSelection(s) ==
  IF s.sel = NoPoint THEN s
  ELSE [s EXCEPT !.sel = <<ClampPoint(s, @[1]), ClampPoint(s, @[2])>>]

ClampPrompts(s) == [s EXCEPT !.commands = ClampCommands(@, s.start, End(s))]

(* Positions other than the cursor follow a reflow. *)
ApplyReflow(s, ranges) ==
  LET Map(pos) == MapPosition(ranges, pos)
  IN  [s EXCEPT !.sel      = IF @ = NoPoint THEN NoPoint ELSE <<Map(@[1]), Map(@[2])>>,
                !.commands = MapCommands(@, Map),
                !.scroll   = Least(Map(<<@, 0>>)[1], ScreenStart(s))]

-----------------------------------------------------------------------------
(***************************************************************************)
(* ScrollBack.                                                             *)
(***************************************************************************)
EmptyGroup    == [rows |-> <<>>, count |-> 0, width |-> NoReflow]
Target(over)  == IF over THEN MaxCells ELSE TargetCells
CellsIn(row)  == IF row.cells = <<>> THEN 1 ELSE Len(row.cells)

RECURSIVE CellCount(_)
CellCount(rows) == IF rows = <<>> THEN 0 ELSE CellsIn(Head(rows)) + CellCount(Tail(rows))

StripTrailing(row) ==
  IF row.over THEN row
  ELSE [row EXCEPT !.cells =
          SubSeq(@, 1, Least(Len(@), IF EffectiveWidth(@) = 0 THEN 1 ELSE EffectiveWidth(@)))]

EndsFull(rows) == rows # <<>> /\ rows[Len(rows)].over

LastGroupFull(s) ==
  \/ s.groups = <<>>
  \/ LET g == Last(s.groups) IN g.count >= Target(EndsFull(g.rows))

AddGroup(s) ==
  LET gone == IF Len(s.groups) < MaxGroups THEN 0 ELSE Len(Head(s.groups).rows)
  IN  [s EXCEPT !.start  = @ + gone,
                !.total  = @ - gone,
                !.groups = Append(IF Len(@) < MaxGroups THEN @ ELSE Tail(@), EmptyGroup)]

(* Moves the first n rows of the screen into scroll back.  Whether a group *)
(* takes one more depends on the flag of the row to be moved, not on that  *)
(* of the row before it.  The flag is read once more after the last row,   *)
(* on a screen of one row from beyond its end; as no row is left to take,  *)
(* what is read there decides nothing (unless the read itself is checked). *)
RECURSIVE AddRows(_, _)
AddRows(s, n) ==
  IF n = 0 THEN s
  ELSE LET s1       == IF LastGroupFull(s) THEN AddGroup(s) ELSE s
           g        == Last(s1.groups)
           Moved(k) == [i \in 1 .. k |-> StripTrailing(s1.active[i])]
           Stops(k) == k = n \/ g.count + CellCount(Moved(k)) >=
                                Target(IF k = 0 THEN EndsFull(g.rows) ELSE s1.active[k + 1].over)
           k        == Min({i \in 0 .. n : Stops(i)})
       IN  AddRows([s1 EXCEPT
                      !.active = SubSeq(@, k + 1, Len(@)),
                      !.total  = @ + k,
                      !.groups[Len(s1.groups)] =
                         [rows  |-> g.rows \o Moved(k),
                          count |-> Unsigned(g.count + CellCount(Moved(k))),
                          width |-> NoReflow]],
                   n - k)

(* RowGroup::transfer_from with desired_cols. *)
FitRow(row, cols) ==
  LET most == Least(cols, Len(row.cells))
      cut  == most < Len(row.cells) /\ row.cells[most + 1] = Right
      kept == IF cut THEN most - 1 ELSE most
  IN  [row EXCEPT !.cells = [c \in 1 .. cols |-> IF c <= kept THEN row.cells[c] ELSE Blank]]

(* The number of cells of a group goes down by the cells the rows have on  *)
(* the screen, though they had fewer in the group.                         *)
RECURSIVE TakeRows(_, _, _)
TakeRows(s, cols, n) ==
  IF n = 0 THEN s
  ELSE LET g    == Last(s.groups)
           k    == Least(n, Len(g.rows))
           left == SubSeq(g.rows, 1, Len(g.rows) - k)
           took == SubSeq(g.rows, Len(g.rows) - k + 1, Len(g.rows))
       IN  TakeRows([s EXCEPT
                       !.active = [i \in DOMAIN took |-> FitRow(took[i], cols)] \o @,
                       !.total  = @ - k,
                       !.groups = IF left = <<>> THEN Front(@)
                                  ELSE Append(Front(@), [g EXCEPT !.rows  = left,
                                                                  !.count = Unsigned(@ - k * cols)])],
                    cols, n - k)

(* The rows of the last group that go on with the first row of the screen. *)
TakeRowsForReflow(s) ==
  IF s.groups = <<>> THEN s
  ELSE LET g      == Last(s.groups)
           whole  == Max({0} \cup {i \in DOMAIN g.rows : ~g.rows[i].over})
           took   == SubSeq(g.rows, whole + 1, Len(g.rows))
       IN  [s EXCEPT !.active = took \o @,
                     !.total  = @ - Len(took),
                     !.groups[Len(s.groups)] =
                        [@ EXCEPT !.rows  = SubSeq(@, 1, whole),
                                  !.count = Unsigned(@ - CellCount(took))]]

GroupStart(s, i) == s.start + Len(GroupRows(SubSeq(s.groups, 1, i - 1)))

(* Reflows the groups that hold `count` rows from `row` on; gives the      *)
(* screen with the ranges of all of them, unless none was reflowed.        *)
RECURSIVE ReflowVisual(_, _, _, _, _)
ReflowVisual(s, result, row, count, cols) ==
  IF row >= ScreenStart(s) \/ count <= 0 THEN [screen |-> s, result |-> result]
  ELSE LET i      == CHOOSE j \in DOMAIN s.groups :
                       row - GroupStart(s, j) \in 0 .. Len(s.groups[j].rows) - 1
           g      == s.groups[i]
           start  == GroupStart(s, i)
           flow   == ReflowRows(g.rows, start, cols)
           offset == MapPosition(flow.ranges, <<row, 0>>)[1] - start
           s1     == [s EXCEPT !.groups[i] = [@ EXCEPT !.rows = flow.rows, !.width = cols],
                               !.total     = @ - Len(g.rows) + Len(flow.rows)]
       IN  IF g.width = cols
           THEN ReflowVisual(s, result, start + Len(g.rows),
                             count - (start + Len(g.rows) - row), cols)
           ELSE ReflowVisual(s1, Append(result, flow.ranges), start + Len(flow.rows),
                             count - (Len(flow.rows) - offset), cols)

RECURSIVE MergeAll(_)
MergeAll(results) ==
  IF Len(results) = 1 THEN results[1]
  ELSE MergeAll(<<Merge(results[1], results[2])>> \o SubSeq(results, 3, Len(results)))

FollowReflow(s, flow) ==
  IF flow.result = <<>> THEN s ELSE ApplyReflow(flow.screen, MergeAll(flow.result))

ReflowRowsSeen(s, row, count, cols) == FollowReflow(s, ReflowVisual(s, <<>>, row, count, cols))

-----------------------------------------------------------------------------
(***************************************************************************)
(* Output of the program.                                                  *)
(***************************************************************************)
(* A cell of the cursor's row is overwritten; what is left of a wide       *)
(* character is blank.                                                     *)
PutCell(cells, col, c) ==
  [i \in DOMAIN cells |->
     CASE i = col                                      -> c
       [] i = col - 1 /\ cells[col] = Right /\ c # Right -> Blank
       [] i = col + 1 /\ cells[i] = Right /\ c # Left    -> Blank
       [] OTHER                                        -> cells[i]]

PutText(cells, col, c) ==
  IF c = Left THEN PutCell(PutCell(cells, col, Left), col + 1, Right) ELSE PutCell(cells, col, c)

(* Mutant: what is looked at stays when its rows are dropped. *)
ScrollDown_KeepView(s) ==
  LET s1 == AddRows(s, 1)
      s2 == [s1 EXCEPT !.active = Append(@, BlankRow(Cols(s))),
                       !.scroll = IF AtBottom(s) THEN ScreenStart(s1) ELSE @]
  IN  ClampPrompts(ClampSelection(s2))

ScrollDown(s) ==
  LET bottom == AtBottom(s)
      s1     == AddRows(s, 1)
      s2     == [s1 EXCEPT !.active = Append(@, BlankRow(Cols(s))),
                           !.scroll = IF bottom THEN ScreenStart(s1)
                                      ELSE IF @ < s1.start THEN s1.start ELSE @]
  IN  ClampPrompts(ClampSelection(s2))

NextRow(s) ==
  IF s.cursor.row + 1 = Rows(s) THEN ScrollDown(s) ELSE [s EXCEPT !.cursor.row = @ + 1]

SetCursor(s, row, col) ==
  [s EXCEPT !.cursor = [row |-> Least(row, Rows(s) - 1), col |-> Least(col, Cols(s) - 1),
                        over |-> FALSE]]

CarriageReturn(s) == SetCursor(s, s.cursor.row, 0)
NewLineOn(s)      == NextRow(CarriageReturn(s))

Wrap(s) ==
  CarriageReturn(NextRow([s EXCEPT !.active[s.cursor.row + 1] = [@ EXCEPT !.over = TRUE]]))

(* At the cursor, which there is room after. *)
PutHere(s, c) ==
  LET after == s.cursor.col + Width(c)
  IN  [s EXCEPT
         !.active[s.cursor.row + 1] = [@ EXCEPT !.cells = PutText(@, s.cursor.col + 1, c)],
         !.cursor = IF after >= Cols(s) THEN [@ EXCEPT !.col = Cols(s) - 1, !.over = TRUE]
                    ELSE [@ EXCEPT !.col = after, !.over = FALSE]]

PutCodePoint(s, c) ==
  LET full == IF Width(c) = 1 THEN s.cursor.over ELSE s.cursor.col + 2 > Cols(s)
  IN  IF Width(c) > Cols(s) THEN s ELSE PutHere(IF full THEN Wrap(s) ELSE s, c)

(* From the cursor on, with the whole of a wide character. *)
ClearAfterCursor(s) ==
  LET at    == s.active[s.cursor.row + 1].cells
      from  == IF at[s.cursor.col + 1] = Right THEN s.cursor.col ELSE s.cursor.col + 1
      Keep(r) == IF r <= s.cursor.row THEN s.active[r]
                 ELSE IF r > s.cursor.row + 1 THEN BlankRow(Cols(s))
                 ELSE Row([c \in DOMAIN at |-> IF c < from THEN at[c] ELSE Blank], FALSE)
  IN  [s EXCEPT !.active = [r \in DOMAIN s.active |-> Keep(r)], !.cursor.over = FALSE]

Clear(s) == [s EXCEPT !.active = BlankRows(Rows(s), Cols(s)),
                      !.cursor.over = FALSE]

ClearScrollBack(s) ==
  [s EXCEPT !.scroll = ScreenStart(s), !.start = ScreenStart(s), !.total = 0, !.groups = <<>>]

-----------------------------------------------------------------------------
(***************************************************************************)
(* Screen::resize.                                                         *)
(***************************************************************************)
(* The prompt that the shell redraws is cleared, or else what is after the *)
(* cursor.  A prompt that starts in scroll back is sought far below the    *)
(* screen (the difference of the rows is unsigned).                        *)
ClearForResize(s) ==
  LET prompt == RedrawPromptRow(s.commands, CursorRow(s))
      there  == SetCursor(s, IF prompt < ScreenStart(s) THEN Rows(s) ELSE prompt - ScreenStart(s), 0)
  IN  IF prompt = NoRow THEN ClearAfterCursor(s)
      ELSE SetCursor(ClearAfterCursor(there), s.cursor.row, s.cursor.col)

(* The rows on the screen, of which the first `extra` came out of scroll   *)
(* back, are replaced with those of a flow; the cursor does not go above   *)
(* what was on the screen.                                                 *)
PlaceReflowed(s, extra, flow) ==
  LET start == ScreenStart(s)
      at    == MapPosition(flow.ranges, <<start + extra + s.cursor.row, s.cursor.col>>)
      row   == at[1] - start
  IN  ApplyReflow([s EXCEPT !.active = flow.rows,
                            !.cursor = IF row < extra THEN [@ EXCEPT !.row = extra, !.col = 0]
                                       ELSE [@ EXCEPT !.row = row, !.col = at[2]]],
                  flow.ranges)

ReflowActive(s, extra, cols) ==
  PlaceReflowed(s, extra, ReflowRows(s.active, ScreenStart(s), cols))

ReflowScreen(s, cols) ==
  LET s1 == TakeRowsForReflow(s)
  IN  IF cols = Cols(s) THEN s ELSE ReflowActive(s1, s.total - s1.total, cols)

(* Rows above the cursor go into scroll back, others are deleted at the end. *)
ShrinkRows(s, rows) ==
  LET extra == Len(s.active) - rows
      out   == Least(s.cursor.row, extra)
      s1    == AddRows(s, out)
  IN  [s1 EXCEPT !.scroll     = IF AtBottom(s) THEN ScreenStart(s1) ELSE @,
                 !.active     = SubSeq(@, 1, rows),
                 !.cursor.row = @ - out]

(* Rows out of scroll back, then blank ones, until there are enough. *)
Grown(s, taken, missing, cols) ==
  [s EXCEPT !.active     = @ \o BlankRows(missing, cols),
            !.cursor.row = @ + taken,
            !.scroll     = Least(@, ScreenStart(s))]

TakeBack(s, size) ==
  LET wanted == size[1] - Len(s.active)
      taken  == Least(s.total, wanted)
  IN  Grown(TakeRows(s, size[2], taken), taken, wanted - taken, size[2])

(* Mutant: rows come out of scroll back as wide as they went in. *)
GrowRows_NoReflow(s, size) == TakeBack(s, size)

GrowRows(s, size) ==
  LET seen == Least(s.total, size[1] - Len(s.active))
  IN  TakeBack(ReflowRowsSeen(s, ScreenStart(s) - seen, seen, size[2]), size)

FitCols(s, cols) == [s EXCEPT !.active = [r \in DOMAIN s.active |-> FitRow(s.active[r], cols)]]

FitRows(s, size) ==
  IF Len(s.active) > size[1] THEN ShrinkRows(s, size[1])
  ELSE IF Len(s.active) < size[1] THEN GrowRows(s, size) ELSE s

(* The cursor and what names positions stay within the new size. *)
ClampAll(s, size) ==
  ClampPrompts(ClampSelection(
    [s EXCEPT !.cursor.row = Least(@, size[1] - 1), !.cursor.col = Least(@, size[2] - 1),
              !.size = size]))

Resize(s, size) ==
  ClampAll(FitRows(FitCols(ReflowScreen(ClearForResize(s), size[2]), size[2]), size), size)

-----------------------------------------------------------------------------
(***************************************************************************)
(* The user: scrolling, drawing and selecting.                             *)
(***************************************************************************)
ScrollTo(s, row) == [s EXCEPT !.scroll = row]

VisualScrolls(s) ==
  (IF s.scroll > s.start THEN {s.scroll - 1} ELSE {})
  \cup (IF s.scroll < ScreenStart(s) THEN {s.scroll + 1} ELSE {})
  \cup {s.start, ScreenStart(s)}

PrevCommand(s) ==
  LET row == FirstBefore(s.commands, s.scroll) IN IF row = NoRow THEN s ELSE ScrollTo(s, row)

NextCommand(s) ==
  LET row == FirstAfter(s.commands, s.scroll)
  IN  IF row = NoRow THEN s ELSE ScrollTo(s, Least(row, ScreenStart(s)))

(* The columns of a word: up to the next blanks, or of a whole row. *)
WordAround(cells, col) ==
  LET gaps == {c \in 0 .. Len(cells) - 1 : cells[c + 1] = Blank}
  IN  <<Max({0} \cup {c + 1 : c \in {g \in gaps : g < col}}),
        Min({Len(cells) - 1} \cup {c - 1 : c \in {g \in gaps : g > col}})>>

BeginSelection(s, point, mode) ==
  LET at    == ClampPoint(s, point)
      cells == RowAt(s, at[1]).cells
      cols  == CASE cells = <<>> \/ mode = "single" -> <<at[2], at[2]>>
                 [] mode = "word"                   -> WordAround(cells, at[2])
                 [] mode = "line"                   -> <<0, Len(cells) - 1>>
  IN  [s EXCEPT !.sel = <<<<at[1], cols[1]>>, <<at[1], cols[2]>>>>]

UpdateSelection(s, point) ==
  LET s1 == IF s.sel = NoPoint THEN BeginSelection(s, point, "single") ELSE s
  IN  [s1 EXCEPT !.sel[2] = ClampPoint(s, point)]

-----------------------------------------------------------------------------
(***************************************************************************)
(* Situations the runs can leave out because the code goes wrong in them.  *)
(*   "erased"  scroll back is cleared while something in it is selected or *)
(*             a command starts there                                      *)
(*   "full"    a change of the height drops the rows that are looked at    *)
(*   "gap"     rows are reflowed while a cell after the text of a row that *)
(*             is part of a longer line is selected or marked              *)
(*   "empty"   rows are reflowed of which one is blank but goes on         *)
(*   "groups"  two groups are reflowed for one frame                       *)
(*   "outer"   the end of a prompt or of an input is marked after the end  *)
(*             of the command, or that of a prompt after that of the       *)
(*             input, or that of the input in a row above the prompt's end *)
(*   "row"     rows are reflowed while the output of a command starts in   *)
(*             the row in which its prompt ends                            *)
(*   "silent"  a command ends whose output was not marked                  *)
(*   "cut"     a change of the height deletes the row in which a command   *)
(*             without output has ended                                    *)
(***************************************************************************)
InScrollBack(s) ==
  \/ \E i \in DOMAIN s.sel : s.sel[i][1] < ScreenStart(s)
  \/ \E i \in DOMAIN s.commands.list : s.commands.list[i].promptStart[1] < ScreenStart(s)

Positions(s) ==
  {s.sel[i] : i \in DOMAIN s.sel}
  \cup UNION {{c.promptStart, c.promptEnd, c.outputStart, c.outputEnd} :
               c \in {s.commands.list[i] : i \in DOMAIN s.commands.list}}

InGap(s, pos) ==
  LET row   == RowAt(s, pos[1])
      text  == EffectiveWidth(row.cells)
      inner == row.over \/ (text = 0 /\ pos[1] > s.start /\ RowAt(s, pos[1] - 1).over)
  IN  inner /\ pos[2] >= text

HasGap(s) == \E pos \in Positions(s) : pos[1] \in s.start .. End(s) - 1 /\ InGap(s, pos)

HasEmptyWrap(s) ==
  \E i \in DOMAIN AllRows(s) : AllRows(s)[i].over /\ EffectiveWidth(AllRows(s)[i].cells) = 0

LastEnded(s)     == s.commands.list # <<>> /\ Last(s.commands.list).ended
LastHasOutput(s) == s.commands.list # <<>> /\ Last(s.commands.list).outputStart # NoPos
AboveInput(s)    == s.commands.list # <<>> /\ CursorRow(s) < Last(s.commands.list).promptEnd[1]

SharesRow(s) ==
  \E i \in DOMAIN s.commands.list :
    LET c == s.commands.list[i]
    IN  c.outputStart[1] = c.promptEnd[1] /\ c.outputStart[2] < c.promptEnd[2]

EndsSilent(s, id) ==
  LET ended == EndCommand(s.commands, id, PosOf(s)).list
  IN  \E i \in DOMAIN ended : ended[i].ended /\ ended[i].outputStart = NoPos

EndsOutside(s) ==
  \E i \in DOMAIN s.commands.list :
    LET c == s.commands.list[i]
    IN  c.outputEnd[1] = End(s) /\ c.outputEnd[1] \in {c.promptEnd[1], c.outputStart[1]}

GroupsReflowed(s, t) == {i \in DOMAIN s.groups : s.groups[i].width # t.groups[i].width}

Leaves(situation, condition) == ~(situation \in Avoid /\ condition)

Uses(what, bound) ==
  /\ used[what] < bound
  /\ used.output + used.marks + used.resizes + used.mouse < MaxSteps
  /\ used' = [used EXCEPT ![what] = @ + 1]
Free              == UNCHANGED used

-----------------------------------------------------------------------------
(***************************************************************************)
(* Actions.                                                                *)
(***************************************************************************)
(* The screen after a text: characters, "\n" for CR LF, and the four marks *)
(* of a command, "133;A" to "133;D".                                       *)
RECURSIVE Feed(_, _)
Feed(s, text) ==
  IF text = <<>> THEN s
  ELSE Feed(CASE Head(text) = "\n"    -> NewLineOn(s)
              [] Head(text) = "133;A" -> [s EXCEPT !.commands = BeginPrompt(@, "", TRUE, PosOf(s))]
              [] Head(text) = "133;B" -> [s EXCEPT !.commands = EndPrompt(@, PosOf(s))]
              [] Head(text) = "133;C" -> [s EXCEPT !.commands = EndInput(@, PosOf(s))]
              [] Head(text) = "133;D" -> [s EXCEPT !.commands = EndCommand(@, "", PosOf(s))]
              [] OTHER                -> PutCodePoint(s, Head(text)),
            Tail(text))

Init ==
  /\ screen \in {Feed(NewScreen(size), text) : size \in Sizes, text \in Printed}
  /\ used = [output |-> 0, marks |-> 0, resizes |-> 0, mouse |-> 0]

Output(s) == screen' = s /\ Uses("output", MaxOutput)

PutChar(c) == Output(PutCodePoint(screen, c))

(* CR LF *)
NewLine == Output(NewLineOn(screen))

(* CUP *)
CursorTo(row, col) == Output(SetCursor(screen, row, col))

(* ED 2 and ED 3 *)
EraseScreen     == Output(Clear(screen))
EraseScrollBack == /\ Leaves("erased", InScrollBack(screen))
                   /\ Output(Clear(ClearScrollBack(screen)))

(* OSC 133 *)
PutSemanticPrompt(commands) ==
  screen' = [screen EXCEPT !.commands = commands] /\ Uses("marks", MaxMarks)

MarkPrompt(id, redraw) ==
  PutSemanticPrompt(BeginPrompt(screen.commands, id, redraw, PosOf(screen)))

MarkInput  == /\ Leaves("outer", LastEnded(screen) \/ LastHasOutput(screen))
              /\ PutSemanticPrompt(EndPrompt(screen.commands, PosOf(screen)))
MarkOutput == /\ Leaves("outer", LastEnded(screen) \/ AboveInput(screen))
              /\ PutSemanticPrompt(EndInput(screen.commands, PosOf(screen)))

MarkEnd(id) == /\ Leaves("silent", EndsSilent(screen, id))
               /\ PutSemanticPrompt(EndCommand(screen.commands, id, PosOf(screen)))

Reflowable(s) ==
  /\ Leaves("gap", HasGap(s)) /\ Leaves("empty", HasEmptyWrap(s)) /\ Leaves("row", SharesRow(s))

ResizeTo(size) ==
  /\ size # screen.size
  /\ Reflowable(screen) /\ Reflowable(ClearForResize(screen))
  /\ screen' = Resize(screen, size)
  /\ Leaves("full", screen'.scroll < screen'.start) /\ Leaves("cut", EndsOutside(screen'))
  /\ Uses("resizes", MaxResizes)

(* A frame reflows what it is going to show. *)
Draw ==
  /\ Reflowable(screen)
  /\ screen' = ReflowRowsSeen(screen, screen.scroll, Rows(screen), Cols(screen))
  /\ Leaves("groups", Cardinality(GroupsReflowed(screen, screen')) > 1)
  /\ Free

(* The wheel and the key bindings. *)
VisualScroll == \E row \in VisualScrolls(screen) :
                  screen' = ScrollTo(screen, row) /\ Free
GoPrevCommand == screen' = PrevCommand(screen) /\ Free
GoNextCommand == screen' = NextCommand(screen) /\ Free

(* The cells of the pane, as positions of what it shows. *)
Shown == {<<screen.scroll + r, c>> : r \in 0 .. Rows(screen) - 1, c \in 0 .. Cols(screen) - 1}

(* A button pressed again selects a word or a row.  A button pressed once  *)
(* is remembered until the mouse moves, which starts the selection there.  *)
MouseAgain(mode) == \E point \in Shown :
                      /\ screen' = BeginSelection(screen, point, mode)
                      /\ Uses("mouse", MaxMouse)

MouseDrag ==
  /\ screen.sel = NoPoint
  /\ \E pressed, point \in Shown :
       screen' = UpdateSelection(BeginSelection(screen, pressed, "single"), point)
  /\ Uses("mouse", MaxMouse)

MouseMove ==
  /\ screen.sel # NoPoint
  /\ \E point \in Shown : screen' = UpdateSelection(screen, point)
  /\ Free

(* Copies what is selected; other events of the mouse and pasted text only *)
(* drop the selection.                                                     *)
MouseRelease ==
  /\ screen.sel # NoPoint
  /\ screen' = [screen EXCEPT !.sel = NoPoint]
  /\ Free

KeyPress ==
  /\ screen' = [screen EXCEPT !.sel = NoPoint, !.scroll = ScreenStart(screen)]
  /\ Free

Next ==
  \/ \E c \in Chars : PutChar(c)
  \/ NewLine
  \/ \E row \in 0 .. Rows(screen) - 1, col \in {0, Cols(screen) - 1} : CursorTo(row, col)
  \/ EraseScreen
  \/ EraseScrollBack
  \/ \E id \in Apps, redraw \in Redraws : MarkPrompt(id, redraw)
  \/ MarkInput
  \/ MarkOutput
  \/ \E id \in Apps : MarkEnd(id)
  \/ \E size \in Sizes : ResizeTo(size)
  \/ Draw
  \/ VisualScroll
  \/ GoPrevCommand
  \/ GoNextCommand
  \/ \E mode \in Modes : MouseAgain(mode)
  \/ MouseDrag
  \/ MouseMove
  \/ MouseRelease
  \/ KeyPress

Spec == Init /\ [][Next]_vars

-----------------------------------------------------------------------------
(***************************************************************************)
(* Properties.                                                             *)
(***************************************************************************)
IsPos(p) == p \in Seq(Int) /\ Len(p) = 2 /\ p[1] >= 0 /\ p[2] >= 0

RowOK(row) ==
  /\ row.over \in BOOLEAN
  /\ \A i \in DOMAIN row.cells :
       /\ row.cells[i] \in Chars \cup {Blank, Right}
       /\ row.cells[i] = Left  => i < Len(row.cells) /\ row.cells[i + 1] = Right
       /\ row.cells[i] = Right => i > 1 /\ row.cells[i - 1] = Left

(* The screen has its size, every wide character both halves, and the      *)
(* number of rows in scroll back is the one that is kept.                  *)
TypeOK ==
  /\ screen.size \in Sizes
  /\ Len(screen.active) = Rows(screen)
  /\ \A r \in DOMAIN screen.active : Len(screen.active[r].cells) = Cols(screen)
  /\ \A r \in DOMAIN AllRows(screen) : RowOK(AllRows(screen)[r])
  /\ screen.cursor \in [row : 0 .. Rows(screen) - 1, col : 0 .. Cols(screen) - 1, over : BOOLEAN]
  /\ Len(screen.groups) <= MaxGroups
  /\ screen.total = Len(GroupRows(screen.groups))
  /\ \A i \in DOMAIN screen.groups : screen.groups[i].count \in 0 .. Word - 1
  /\ screen.start \in Nat /\ screen.scroll \in Int

(* What is shown is in scroll back or the screen, and so is what is        *)
(* selected: the assertions of visual_scroll_offset, invalidate_region and *)
(* selected_text, which run when the screen is drawn and a selection ends. *)
ViewOK    == screen.scroll \in screen.start .. ScreenStart(screen)
Exists(p) == /\ p[1] \in screen.start .. End(screen) - 1
             /\ LET cells == RowAt(screen, p[1]).cells
                IN  p[2] \in 0 .. Len(cells) - 1 \/ cells = <<>>
InBounds  == TypeOK /\ ViewOK /\ \A i \in DOMAIN screen.sel : Exists(screen.sel[i])

(* Commands are in the order of their prompts, and no more than there may  *)
(* be.  None starts in rows that are gone: first_command_before gives a    *)
(* row to scroll to, which has to exist.  And of every command that ended, *)
(* the rows that are read when it is copied are there: it may be the last  *)
(* one later, when those after it are popped.                              *)
CommandsOK ==
  LET list == screen.commands.list
  IN  /\ Len(list) <= MaxCommands
      /\ screen.commands.depth \in 0 .. MaxDepth
      /\ \A i \in 2 .. Len(list) : ~Before(list[i].promptStart, list[i - 1].promptStart)
      /\ \A i \in DOMAIN list :
           /\ list[i].promptStart[1] >= screen.start
           /\ list[i].ended => \A with \in BOOLEAN :
                CopiedRows(list[i], with) \subseteq screen.start .. End(screen) - 1

(* The characters before a position, over all rows that are kept. *)
RECURSIVE Letters(_)
Letters(rows) ==
  IF rows = <<>> THEN <<>>
  ELSE SelectSeq(Head(rows).cells, LAMBDA c : c \notin {Blank, Right}) \o Letters(Tail(rows))

LettersBefore(s, pos) ==
  LET rows == SubSeq(AllRows(s), 1, pos[1] - s.start)
      row  == SubSeq(RowAt(s, pos[1]).cells, 1, pos[2])
  IN  Letters(Append(rows, Row(row, FALSE)))

OnText(s, pos) ==
  /\ pos[1] \in s.start .. End(s) - 1
  /\ LET cells == RowAt(s, pos[1]).cells
     IN  pos[2] \in 0 .. Len(cells) - 1 /\ cells[pos[2] + 1] \notin {Blank, Right}

(* What a change of size erases: the prompt the shell redraws, when it is  *)
(* on the screen, or what is after the cursor.                             *)
CursorOn(s) ==
  LET cells == s.active[s.cursor.row + 1].cells
  IN  <<CursorRow(s), IF cells[s.cursor.col + 1] = Right THEN s.cursor.col - 1 ELSE s.cursor.col>>
ErasedFrom(s) ==
  LET prompt == RedrawPromptRow(s.commands, CursorRow(s))
  IN  IF prompt = NoRow THEN CursorOn(s)
      ELSE <<IF prompt < ScreenStart(s) THEN End(s) - 1 ELSE prompt, 0>>

IsResize    == screen'.size # screen.size
IsFrame     == screen'.groups # screen.groups /\ UNCHANGED used
Survives(p) == OnText(screen, p) /\ (IsResize => Before(p, ErasedFrom(screen)))

(* A resize or a frame neither loses nor repeats nor reorders text: scroll *)
(* back and screen hold what they held, up to where the resize erases and  *)
(* without the oldest rows if they had to go.                              *)
TextKept ==
  [][LET new == Letters(AllRows(screen'))
     IN  /\ IsFrame  => new = Letters(AllRows(screen))
         /\ IsResize => LET old == LettersBefore(screen, ErasedFrom(screen))
                        IN  IF screen'.start = screen.start THEN new = old
                            ELSE IsSuffix(new, old)]_vars

(* A selected character is still the one that is selected, and a prompt    *)
(* still where it is marked, after a resize or a frame has moved the rows. *)
Follows(p, q) ==
  Survives(p) => /\ OnText(screen', q)
                 /\ LettersBefore(screen', q) = LettersBefore(screen, p)
PositionsFollow ==
  [][(IsResize \/ IsFrame) /\ screen'.start = screen.start =>
       /\ screen.sel # NoPoint => \A i \in 1 .. 2 : Follows(screen.sel[i], screen'.sel[i])
       /\ \A i \in DOMAIN screen'.commands.list :
            Follows(screen.commands.list[i].promptStart, screen'.commands.list[i].promptStart)]_vars
=============================================================================
