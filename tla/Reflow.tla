------------------------------- MODULE Reflow -------------------------------
(***************************************************************************)
(* Reflow: how rows of a terminal are broken again when its width changes, *)
(* and where a position then is (lib/src/terminal/row_group.cpp,           *)
(* reflow_result.cpp).                                                     *)
(*                                                                         *)
(* A row is a sequence of cells with the flag `over`: the row ended because*)
(* it was full, and the next one goes on with the same logical line.       *)
(* A cell is blank ("."), holds the left ("W") or the right ("w") half of  *)
(* a wide character, or a character one column wide.  Attributes and text  *)
(* move with their cells and are left out.                                 *)
(*                                                                         *)
(* A position is <<row, column>> from 0, rows counted from the first one   *)
(* that was ever printed (AbsolutePosition).                               *)
(***************************************************************************)
EXTENDS Integers, Sequences, FiniteSetsExt

Blank    == "."
Left     == "W"
Right    == "w"
Width(c) == IF c = Left THEN 2 ELSE 1

Row(cells, over) == [cells |-> cells, over |-> over]

(* Columns and counts of cells are unsigned; Word stands for 2^32 and 2^64. *)
Word        == 1024
Unsigned(n) == n % Word

Before(p, q) == p[1] < q[1] \/ (p[1] = q[1] /\ p[2] < q[2])

(* The columns up to the last cell that is not blank. *)
EffectiveWidth(cells) == Max({0} \cup {c \in DOMAIN cells : cells[c] # Blank})

-----------------------------------------------------------------------------
(***************************************************************************)
(* ReflowResult: ranges in the order of their positions.  A range moves    *)
(* the positions from its own up to the next range's by dr rows and dc     *)
(* columns, or to the column dc when abs.                                  *)
(***************************************************************************)
NoChange == <<>>
Offset(pos, dr, dc, abs) == [pos |-> pos, dr |-> dr, dc |-> dc, abs |-> abs]

AddOffset(ranges, pos, dr, dc, abs) ==
  LET prev == IF ranges = <<>> THEN Offset(pos, 0, 0, FALSE) ELSE ranges[Len(ranges)]
  IN  IF prev.dr = dr /\ prev.dc = dc /\ prev.abs = abs THEN ranges
      ELSE Append(ranges, Offset(pos, dr, dc, abs))

(* The first range at the position or else the last one before it. *)
MapPosition(ranges, pos) ==
  LET at    == {i \in DOMAIN ranges : ranges[i].pos = pos}
      prior == {i \in DOMAIN ranges : Before(ranges[i].pos, pos)}
      Moved(range) == <<pos[1] + range.dr,
                        IF range.abs THEN range.dc ELSE Unsigned(pos[2] + range.dc)>>
  IN  IF at # {} THEN Moved(ranges[Min(at)])
      ELSE IF prior # {} THEN Moved(ranges[Max(prior)])
      ELSE pos

(* Each range that is appended adds to the offset of the last one so far,  *)
(* which after the first is a range appended itself.                       *)
RECURSIVE AppendRanges(_, _)
AppendRanges(ranges, other) ==
  IF other = <<>> THEN ranges
  ELSE AppendRanges(Append(ranges, Offset(other[1].pos, other[1].dr + ranges[Len(ranges)].dr,
                                          other[1].dc, FALSE)),
                    Tail(other))

Merge(ranges, other) ==
  IF other = <<>> THEN ranges
  ELSE IF ranges = <<>> THEN other
  ELSE IF Before(other[1].pos, ranges[Len(ranges)].pos)
       THEN other \o [i \in DOMAIN ranges |-> [ranges[i] EXCEPT !.dr = @ + other[Len(other)].dr]]
  ELSE AppendRanges(ranges, other)

-----------------------------------------------------------------------------
(***************************************************************************)
(* RowGroup::reflow.  `st` is what has been built: the new rows, the       *)
(* ranges, and whether a cell wider than the target has been dropped since *)
(* the last range.                                                         *)
(***************************************************************************)
LastRow(st) == st.rows[Len(st.rows)]
NewRow(st)  == [st EXCEPT !.rows = Append(@, Row(<<>>, FALSE))]
(* Mutant: the number of new rows is taken for the index of the last one. *)
Mark_OffByOne(st, pos, index, dc, abs) ==
  [st EXCEPT !.ranges = AddOffset(@, pos, Len(st.rows) - index, dc, abs)]

Mark(st, pos, index, dc, abs) ==
  [st EXCEPT !.ranges = AddOffset(@, pos, Len(st.rows) - index - 1, dc, abs)]

PourCell(st, cells, pos, index, target) ==
  LET col   == pos[2]
      width == Width(cells[col + 1])
      used  == Len(LastRow(st).cells)
      fresh == NewRow([st EXCEPT !.rows[Len(st.rows)] = [@ EXCEPT !.over = TRUE]])
      ready == IF used + width > target THEN Mark(fresh, pos, index, -col, FALSE)
               ELSE IF col = 0 /\ used > 0 THEN Mark(st, pos, index, used, FALSE)
               ELSE IF st.dropped THEN Mark(st, pos, index, used - col, FALSE)
               ELSE st
  IN  IF width > target
      THEN [Mark(st, pos, index, used, TRUE) EXCEPT !.dropped = TRUE]
      ELSE [ready EXCEPT !.dropped = FALSE,
                         !.rows[Len(ready.rows)] =
                            [@ EXCEPT !.cells = @ \o SubSeq(cells, col + 1, col + width)]]

RECURSIVE PourCells(_, _, _, _, _)
PourCells(st, cells, pos, index, target) ==
  IF pos[2] >= EffectiveWidth(cells) THEN st
  ELSE PourCells(PourCell(st, cells, pos, index, target), cells,
                 <<pos[1], pos[2] + Width(cells[pos[2] + 1])>>, index, target)

(* A row that does not go on with the one before starts a new row. *)
RECURSIVE PourRows(_, _, _, _, _)
PourRows(st, rows, index, start, target) ==
  IF index = Len(rows) THEN st
  ELSE LET pos   == <<start + index, 0>>
           goes  == index > 0 /\ rows[index].over
           ready == IF goes THEN st ELSE Mark(NewRow(st), pos, index, 0, FALSE)
       IN  PourRows(PourCells([ready EXCEPT !.dropped = FALSE], rows[index + 1].cells, pos,
                              index, target),
                    rows, index + 1, start, target)

ReflowRows(rows, start, target) ==
  LET st  == PourRows([rows |-> <<>>, ranges |-> NoChange, dropped |-> FALSE],
                      rows, 0, start, target)
      end == AddOffset(st.ranges, <<start + Len(rows), 0>>, Len(st.rows) - Len(rows), 0, FALSE)
  IN  [rows   |-> IF rows = <<>> THEN <<>>
                  ELSE [st.rows EXCEPT ![Len(st.rows)] = [@ EXCEPT !.over = rows[Len(rows)].over]],
       ranges |-> end]
=============================================================================
