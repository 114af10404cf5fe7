------------------------------- MODULE Screen -------------------------------
(***************************************************************************)
(* The cells of a terminal's screen (lib/src/terminal/screen.cpp) under    *)
(* the control sequences of lib/src/terminal.cpp that edit them: the       *)
(* alternate screen, from which rows that scroll out are gone.             *)
(*                                                                         *)
(* A row keeps the text of all its cells in one string, and a cell only    *)
(* the size of its part; the cursor caches the offset of its cell's text   *)
(* in that string.  Cells share graphics renditions through ids with       *)
(* reference counts, and a character two columns wide owns two cells.  The *)
(* methods keep strings, sizes, offset, counts and the dirty bits of the   *)
(* renderer consistent by hand; the properties say that they are.          *)
(*                                                                         *)
(* Here a cell holds the text that was put into it: its size is what the   *)
(* source stores, its content what reading the row's string at the cell's  *)
(* offset has to give.  A bit says whether the cell has been drawn; the    *)
(* bits of the row and of the screen, which say that none of their cells   *)
(* has, are folded into it.  Rows and columns count from 0 as in the source.    *)
(* Hyperlinks use their ids just as renditions do; one stands for both.    *)
(* The flag Row::overflow matters when rows are reflowed, in History.      *)
(***************************************************************************)
EXTENDS Integers, Sequences, FiniteSets

CONSTANTS
  Sizes,              \* the sizes <<rows, cols>> the screen has
  Chars,              \* the code points programs print
  Widths,             \* cell widths that programs ask for with OSC 66
  Renditions,         \* graphics renditions other than the default one
  MaxId,              \* the number of ids of an IdMap
  MaxText,            \* Cell::max_text_size
  Counts,             \* parameters of control sequences
  Regions,            \* parameters <<top, bottom>> of DECSTBM
  WrapModes,          \* settings of auto wrap
  Avoid,              \* situations programs stay out of, see Awkward
  MaxPrints           \* bound on the characters printed

ASSUME ScreenAssumption ==
  /\ Sizes \subseteq (Nat \ {0}) \X (Nat \ {0})
  /\ MaxId \in Nat /\ MaxText \in Nat \ {0} /\ MaxPrints \in Nat
  /\ Counts \subseteq Nat /\ Widths \subseteq Nat \ {0}
  /\ WrapModes \subseteq BOOLEAN

VARIABLES
  screen,   \* the Screen object
  prints    \* characters printed so far, for the bound

vars == <<screen, prints>>

Least(a, b)    == IF a < b THEN a ELSE b
Clamp(x, a, b) == IF x < a THEN a ELSE IF x > b THEN b ELSE x

(***************************************************************************)
(* Code points.  "e" is an emoji one column wide, "W" two columns wide,    *)
(* "j" one column wide but no grapheme boundary after another character,   *)
(* "^" a combining mark of no width and "v" variation selector 16.         *)
(***************************************************************************)
WidthOf(ch)  == CASE ch = "W" -> 2 [] ch \in {"^", "v"} -> 0 [] OTHER -> 1
IsEmoji(ch)  == ch = "e"

(* Renditions with a background colour of their own. *)
HasBackground(r) == r = "bg"

-----------------------------------------------------------------------------
(***************************************************************************)
(* Cells and rows.                                                         *)
(***************************************************************************)
NoText    == <<>>
EmptyCell == [text |-> NoText, gfx |-> 0, bg |-> FALSE, multi |-> 0, left |-> FALSE,
              stale |-> FALSE]

IsEmpty(c)    == ~c.bg /\ c.gfx = 0 /\ c.multi = 0 /\ c.text = NoText
IsPrimary(c)  == c.multi # 0 /\ c.left
NonPrimary(c) == c.multi # 0 /\ ~c.left

(* A blank cell keeps the current background colour (bce). *)
BlankCell(s) == [EmptyCell EXCEPT !.bg = s.bg]

BlankRow(s, cols) == [cells |-> [c \in 0 .. cols - 1 |-> BlankCell(s)], text |-> NoText]

Cols(s) == s.size[2]
Height(s) == s.size[1]

(* The bytes of text in the cells [from, to) of a row. *)
TextSize(cells, from, to) ==
  LET sum[i \in from .. to] == IF i = from THEN 0 ELSE sum[i - 1] + Len(cells[i - 1].text)
  IN  IF to <= from THEN 0 ELSE sum[to]

(* The text of a row as its cells have it. *)
CellsText(cells, cols) ==
  LET join[i \in 0 .. cols] == IF i = 0 THEN NoText ELSE join[i - 1] \o cells[i - 1].text
  IN  join[cols]

(* Replaces the bytes [from, to) of a string. *)
Splice(text, from, to, new) ==
  SubSeq(text, 1, from) \o new \o SubSeq(text, to + 1, Len(text))

(* Where the cell that covers column c begins, and where it has ended from column c on. *)
CellStart(cells, c) ==
  IF ~NonPrimary(cells[c]) THEN c
  ELSE CHOOSE d \in 0 .. c : IsPrimary(cells[d]) /\ \A e \in d + 1 .. c : ~IsPrimary(cells[e])

(* Mutant: a wide cell that reaches beyond what is cleared keeps its last column. *)
CellEnd_NoExtend(cells, c, cols) == c

CellEnd(cells, c, cols) ==
  CHOOSE d \in c .. cols : /\ \A e \in c .. d - 1 : NonPrimary(cells[e])
                           /\ d = cols \/ ~NonPrimary(cells[d])

-----------------------------------------------------------------------------
(***************************************************************************)
(* Ids with reference counts.                                              *)
(***************************************************************************)
FreeId == [val |-> "none", refs |-> 0]

(* use_id and drop_id, n[i] times for id i; an id nobody uses is free again. *)
UseIds(ids, n)  == [i \in DOMAIN ids |-> [ids[i] EXCEPT !.refs = @ + n[i]]]
DropIds(ids, n) == [i \in DOMAIN ids |-> IF n[i] > 0 /\ ids[i].refs = n[i] THEN FreeId
                                         ELSE [ids[i] EXCEPT !.refs = @ - n[i]]]
Once(ids, id) == [i \in DOMAIN ids |-> IF i = id THEN 1 ELSE 0]

Lookup(ids, r) == {i \in DOMAIN ids : ids[i].refs > 0 /\ ids[i].val = r}
FreeIds(ids)   == {i \in DOMAIN ids : ids[i].refs = 0}

(* How many of the cells of a set of positions have each id. *)
UsesIn(ids, cells, set) == [i \in DOMAIN ids |-> Cardinality({c \in set : cells[c].gfx = i})]
WideIn(s, cells, set)   == [w \in DOMAIN s.multi |-> Cardinality({c \in set : cells[c].multi = w})]

AddMulti(s, n)  == [w \in DOMAIN s.multi |-> s.multi[w] + n[w]]
DropMulti(s, n) == [w \in DOMAIN s.multi |-> s.multi[w] - n[w]]
OneMulti(s, w, n) == [v \in DOMAIN s.multi |-> IF v = w THEN n ELSE 0]

(* Mutant: a cell that had content stays marked as drawn when it is dropped. *)
DroppedCell_KeepStale(c) == [EmptyCell EXCEPT !.stale = c.stale]

(* RowGroup::drop_cell, with the text dropped by the caller; the bit stale survives in empty cells. *)
DroppedCell(c)   == [EmptyCell EXCEPT !.stale = c.stale /\ IsEmpty(c)]
(* Screen::clear_cell. *)
ClearedCell(s, c) == [DroppedCell(c) EXCEPT !.bg = s.bg]

(* Mutant: the cells are assigned, not dropped. *)
ClearCells_NoDrop(s, r, set) ==
  [s EXCEPT !.rows[r] = [@ EXCEPT !.cells =
     [c \in DOMAIN @ |-> IF c \in set THEN ClearedCell(s, @[c]) ELSE @[c]]]]

(* Clears the cells of a set of columns of row r, but not the row's string. *)
ClearCells(s, r, set) ==
  LET cells == s.rows[r].cells
  IN  [s EXCEPT !.rows[r] = [@ EXCEPT !.cells =
                   [c \in DOMAIN @ |-> IF c \in set THEN ClearedCell(s, @[c]) ELSE @[c]]],
                !.ids   = DropIds(@, UsesIn(s.ids, cells, set)),
                !.multi = DropMulti(s, WideIn(s, cells, set))]

ClearLine(s, r) ==
  LET t == ClearCells(s, r, DOMAIN s.rows[r].cells)
  IN  [t EXCEPT !.rows[r] = [@ EXCEPT !.text = NoText]]

ClearLines(s, from, to) ==
  LET done[r \in from .. to] == IF r = from THEN s ELSE ClearLine(done[r - 1], r - 1)
  IN  IF to <= from THEN s ELSE done[to]

(* set_current_graphics_rendition: the old id is given up before a new one is looked for. *)
SetRendition(s, r) ==
  LET bare  == [s EXCEPT !.bg = HasBackground(r)]
      drop  == [bare EXCEPT !.ids = DropIds(@, Once(@, s.gfx)), !.gfx = 0]
      known == Lookup(s.ids, r)
      id    == CHOOSE i \in known : TRUE
      free  == FreeIds(drop.ids)
      new   == CHOOSE i \in free : \A j \in free : i <= j
  IN  IF r = "none" THEN drop
      ELSE IF known # {}
      THEN IF id = s.gfx THEN bare
           ELSE [drop EXCEPT !.gfx = id, !.ids = UseIds(@, Once(@, id))]
      ELSE IF free = {} THEN drop
      ELSE [drop EXCEPT !.gfx = new, !.ids[new] = [val |-> r, refs |-> 1]]

CurrentRendition(s) == IF s.gfx = 0 THEN "none" ELSE s.ids[s.gfx].val

-----------------------------------------------------------------------------
(***************************************************************************)
(* The cursor.                                                             *)
(***************************************************************************)
MinRow(s) == IF s.origin THEN s.region[1] ELSE 0
MaxRow(s) == IF s.origin THEN s.region[2] - 1 ELSE Height(s) - 1

TranslateRow(s, r) == IF s.origin THEN r + s.region[1] ELSE r

InRegion(s) == s.cur.row >= s.region[1] /\ s.cur.row < s.region[2]

(* Moving within the row adjusts the cached offset by the text passed over. *)
SetCursorCol(s, c) ==
  LET col   == Clamp(c, 0, Cols(s) - 1)
      cells == s.rows[s.cur.row].cells
      off   == IF col = 0 /\ s.cur.col # 0 THEN 0
               ELSE IF s.cur.col < col THEN s.cur.off + TextSize(cells, s.cur.col, col)
               ELSE s.cur.off - TextSize(cells, col, s.cur.col)
  IN  [s EXCEPT !.cur = [@ EXCEPT !.col = col, !.off = off, !.pend = FALSE]]

SetCursor(s, r, c) ==
  LET row == Clamp(r, MinRow(s), MaxRow(s))
      col == Clamp(c, 0, Cols(s) - 1)
  IN  IF s.cur.row = row THEN SetCursorCol(s, col)
      ELSE [s EXCEPT !.cur = [row |-> row, col |-> col, pend |-> FALSE,
                              off |-> TextSize(s.rows[row].cells, 0, col)]]

SetOrigin(s, mode) ==
  IF s.origin = mode THEN s ELSE SetCursor([s EXCEPT !.origin = mode], 0, 0)

-----------------------------------------------------------------------------
(***************************************************************************)
(* Rows that move: insert and delete lines, scrolling.                     *)
(***************************************************************************)
(* rotate([from, to)) so that row mid comes first. *)
Rotate(rows, from, mid, to) ==
  [r \in DOMAIN rows |-> IF r < from \/ r >= to THEN rows[r]
                         ELSE rows[from + (((r - from) + (mid - from)) % (to - from))]]

(* All cells of a row, or of the screen, are to be drawn: Row::stale, m_whole_screen_dirty. *)
FreshRow(row)    == [row EXCEPT !.cells = [c \in DOMAIN @ |-> [@[c] EXCEPT !.stale = FALSE]]]
InvalidateAll(s) == [s EXCEPT !.rows = [r \in DOMAIN @ |-> FreshRow(@[r])]]

(* Moved rows are drawn again: all of the screen if the first is among them. *)
Invalidate(s, from, to) ==
  IF from = 0 THEN InvalidateAll(s)
  ELSE [s EXCEPT !.rows = [r \in DOMAIN @ |-> IF r \in from .. to - 1 THEN FreshRow(@[r]) ELSE @[r]]]

InsertLines(s0, count) ==
  LET s   == [s0 EXCEPT !.cur.pend = FALSE]
      row == s.cur.row
      n   == Least(count, s.region[2] - row)
      t   == ClearLines(s, s.region[2] - n, s.region[2])
      m   == [t EXCEPT !.rows = Rotate(@, row, s.region[2] - n, s.region[2]),
                       !.cur.off = 0, !.cur.col = 0]
  IN  IF ~InRegion(s) THEN s ELSE Invalidate(m, row, s.region[2])

DeleteLines(s0, count) ==
  LET s   == [s0 EXCEPT !.cur.pend = FALSE]
      row == s.cur.row
      n   == Least(count, s.region[2] - row)
      t   == ClearLines(s, row, row + n)
      m   == [t EXCEPT !.rows = Rotate(@, row, row + n, s.region[2]),
                       !.cur.off = 0, !.cur.col = 0]
  IN  IF ~InRegion(s) THEN s ELSE Invalidate(m, row, s.region[2])

(* The first row of the region is cleared and comes last; with scroll back it would be kept. *)
ScrollDown(s) ==
  LET t == ClearLine(s, s.region[1])
  IN  InvalidateAll([t EXCEPT !.rows = Rotate(@, s.region[1], s.region[1] + 1, s.region[2]),
                              !.cur.off = 0, !.cur.pend = FALSE])

(* csi_su and csi_sd: delete or insert lines at the top of the region, with the cursor kept. *)
Pan(s, count, Op(_, _)) ==
  LET t == Op(SetCursor(s, s.region[1], 0), count)
  IN  [SetCursor(t, s.cur.row, s.cur.col) EXCEPT !.cur.pend = s.cur.pend]

LineFeed(s) ==
  IF s.cur.row + 1 = s.region[2] THEN ScrollDown(s) ELSE SetCursor(s, s.cur.row + 1, s.cur.col)

(* Above a region, on the first row, the unsigned row number wraps around: to the last row. *)
ReverseIndex(s) ==
  IF s.cur.row = s.region[1] THEN Pan(s, 1, InsertLines)
  ELSE SetCursor(s, IF s.cur.row = 0 THEN MaxRow(s) ELSE s.cur.row - 1, s.cur.col)

-----------------------------------------------------------------------------
(***************************************************************************)
(* Erasing, inserting and deleting within a row.                           *)
(***************************************************************************)
CursorRow(s) == s.rows[s.cur.row]

(* Mutant: the offset is not moved to the beginning of a wide cell the cursor is inside of. *)
ReplaceCells_KeepOffset(s, from, to, new) ==
  LET row   == CursorRow(s)
      start == s.cur.off - TextSize(row.cells, from, s.cur.col)
      end   == start + TextSize(row.cells, from, to)
      t     == ClearCells(s, s.cur.row, from .. to - 1)
  IN  [t EXCEPT !.rows[s.cur.row] = [@ EXCEPT !.text = Splice(@, start, end, new)]]

(* Clears the cells [from, to) of the cursor's row, replaces their part of the row's text by new *)
(* and leaves the cached offset where that part began; from is the column or left of it.         *)
ReplaceCells(s, from, to, new) ==
  LET row   == CursorRow(s)
      start == s.cur.off - TextSize(row.cells, from, s.cur.col)
      end   == start + TextSize(row.cells, from, to)
      t     == ClearCells(s, s.cur.row, from .. to - 1)
  IN  [t EXCEPT !.rows[s.cur.row] = [@ EXCEPT !.text = Splice(@, start, end, new)], !.cur.off = start]

NotPending(s) == [s EXCEPT !.cur.pend = FALSE]

ClearRow(s) == [ClearLine(s, s.cur.row) EXCEPT !.cur.off = 0, !.cur.pend = FALSE]

ClearRowAfter(s) ==
  LET from == CellStart(CursorRow(s).cells, s.cur.col)
  IN  ReplaceCells(NotPending(s), from, Cols(s), NoText)

ClearRowBefore(s) ==
  LET cells == CursorRow(s).cells
      to    == CellEnd(cells, s.cur.col + 1, Cols(s))
      t     == ClearCells(NotPending(s), s.cur.row, 0 .. to - 1)
  IN  [t EXCEPT !.rows[s.cur.row] = [@ EXCEPT !.text = Splice(@, 0, TextSize(cells, 0, to), NoText)],
                !.cur.off = 0]

ClearAfter(s)  == ClearLines(ClearRowAfter(s), s.cur.row + 1, Height(s))
ClearBefore(s) == ClearLines(ClearRowBefore(s), 0, s.cur.row)
ClearScreen(s) == [ClearLines(s, 0, Height(s)) EXCEPT !.cur.off = 0, !.cur.pend = FALSE]

EraseChars(s, n) ==
  LET cells == CursorRow(s).cells
  IN  ReplaceCells(NotPending(s), CellStart(cells, s.cur.col),
                   CellEnd(cells, Least(s.cur.col + n, Cols(s)), Cols(s)), NoText)

(* A cell the cursor is inside of is cleared first, up to the cursor. *)
SplitCell(s) ==
  LET cells == CursorRow(s).cells
      from  == CellStart(cells, s.cur.col)
      size  == Len(cells[from].text)
      t     == ClearCells(s, s.cur.row, from .. s.cur.col)
  IN  IF from = s.cur.col THEN s
      ELSE [t EXCEPT !.rows[s.cur.row] =
                       [@ EXCEPT !.cells = [c \in DOMAIN @ |-> IF c \in from + 1 .. s.cur.col
                                                               THEN DroppedCell(cells[c]) ELSE @[c]],
                                 !.text  = Splice(@, s.cur.off - size, s.cur.off, NoText)],
                     !.cur.off = @ - size]

(* Insert blank characters: the cells pushed over the edge are dropped with their text. *)
InsertChars(s0, count) ==
  LET s     == SplitCell(NotPending(s0))
      row   == CursorRow(s)
      col   == s.cur.col
      n     == Least(count, Cols(s) - col)
      from  == IF n = 0 THEN Cols(s) ELSE CellStart(row.cells, Cols(s) - n)
      t     == ClearCells(s, s.cur.row, from .. Cols(s) - 1)
      rest  == t.rows[s.cur.row].cells
      moved == [c \in DOMAIN rest |->
                  IF c < col THEN rest[c] ELSE IF c < col + n THEN BlankCell(s)
                  ELSE [rest[c - n] EXCEPT !.stale = FALSE]]
  IN  [t EXCEPT !.rows[s.cur.row] =
         [@ EXCEPT !.cells = moved, !.text = SubSeq(@, 1, Len(@) - TextSize(row.cells, from, Cols(s)))]]

(* Delete characters: what is right of them moves left, blanks follow. *)
DeleteChars(s, count) ==
  LET row   == CursorRow(s)
      col   == s.cur.col
      n     == Least(count, Cols(s) - col)
      from  == CellStart(row.cells, col)
      to    == CellEnd(row.cells, col + n, Cols(s))
      t     == ReplaceCells(NotPending(s), from, to, NoText)
      rest  == t.rows[s.cur.row].cells
      moved == [c \in DOMAIN rest |->
                  IF c < col THEN rest[c] ELSE IF c + n < Cols(s) THEN [rest[c + n] EXCEPT !.stale = FALSE]
                  ELSE BlankCell(s)]
  IN  [t EXCEPT !.rows[s.cur.row] = [@ EXCEPT !.cells = moved]]

-----------------------------------------------------------------------------
(***************************************************************************)
(* Printing.                                                               *)
(***************************************************************************)
(* Auto wrap: the cursor goes to the next row, or the region scrolls.                             *)
(* Below the region there is no row left to go to.                                                *)
Wrap(s) ==
  IF s.cur.row + 1 = s.region[2] THEN [ScrollDown(s) EXCEPT !.cur.col = 0]
  ELSE [s EXCEPT !.cur = [row |-> @.row + 1, col |-> 0, off |-> 0, pend |-> FALSE]]

OffScreen(s) == s.cur.row >= Height(s)

(* put_cell writes over a cell that looks the same but for its text, without clearing it. *)
Overwrite(s, text) ==
  LET cell == CursorRow(s).cells[s.cur.col]
  IN  [s EXCEPT !.rows[s.cur.row] =
         [@ EXCEPT !.text = Splice(@, s.cur.off, s.cur.off + Len(cell.text), text),
                   !.cells[s.cur.col] = [@ EXCEPT !.text = text, !.stale = @ /\ cell.text = text]]]

(* Clears what the new cell of width w covers, and sets its columns: the first has text and ids. *)
PlaceCell(s, text, w) ==
  LET cells == CursorRow(s).cells
      col   == s.cur.col
      from  == CellStart(cells, col)
      to    == CellEnd(cells, col + w, Cols(s))
      t     == ReplaceCells(s, from, to, text)
      multi == IF w = 1 THEN 0 ELSE w
      first == [EmptyCell EXCEPT !.text = text, !.gfx = s.gfx, !.multi = multi, !.left = w > 1]
      other == [EmptyCell EXCEPT !.multi = multi]
  IN  [t EXCEPT !.rows[s.cur.row] = [@ EXCEPT !.cells =
                  [c \in DOMAIN @ |-> IF c = col THEN first
                                      ELSE IF c \in col + 1 .. col + w - 1 THEN other
                                      ELSE @[c]]],
                !.ids   = IF s.gfx = 0 THEN @ ELSE UseIds(@, Once(@, s.gfx)),
                !.multi = AddMulti(t, OneMulti(t, w, w))]

SameLook(s, cell, multi) == ~cell.bg /\ cell.gfx = s.gfx /\ cell.multi = multi

PutSingle(s0, text, wrap) ==
  LET s    == IF wrap /\ s0.cur.pend THEN Wrap(s0) ELSE s0
      fast == SameLook(s, CursorRow(s).cells[s.cur.col], 0)
      t    == IF fast THEN Overwrite(s, text) ELSE PlaceCell(s, text, 1)
  IN  IF OffScreen(s) THEN s
      ELSE IF s.cur.col + 1 = Cols(s) THEN [t EXCEPT !.cur.pend = TRUE]
      ELSE [t EXCEPT !.cur.col = @ + 1, !.cur.off = @ + Len(text)]

PutWide(s0, text, w, wrap) ==
  LET s     == IF s0.cur.col + w <= Cols(s0) THEN s0
               ELSE IF wrap THEN Wrap(s0) ELSE SetCursorCol(s0, Cols(s0) - w)
      cell  == CursorRow(s).cells[s.cur.col]
      t     == IF IsPrimary(cell) /\ SameLook(s, cell, w) THEN Overwrite(s, text)
               ELSE PlaceCell(s, text, w)
      atEnd == s.cur.col + w >= Cols(s)
  IN  IF w > Cols(s0) THEN s0
      ELSE IF OffScreen(s) THEN s
      ELSE [t EXCEPT !.cur = [@ EXCEPT !.col = IF atEnd THEN Cols(s) - 1 ELSE @ + w,
                                       !.off = @ + Len(text), !.pend = @ \/ atEnd]]

PutCell(s, text, w, wrap) ==
  IF Len(text) > MaxText THEN s
  ELSE IF w = 1 THEN PutSingle(s, text, wrap) ELSE PutWide(s, text, w, wrap)

(* The cell before the cursor, which may be the last one of the row above; with a wrap pending it *)
(* is the cursor's own.  off is where its text begins, width the columns up to the cursor.        *)
PrevCell(s) ==
  LET above == s.cur.col = 0
      row   == IF above THEN s.cur.row - 1 ELSE s.cur.row
      last  == IF above THEN Cols(s) - 1 ELSE IF s.cur.pend THEN s.cur.col ELSE s.cur.col - 1
      cells == s.rows[row].cells
      col   == CellStart(cells, last)
      size  == Len(cells[col].text)
  IN  [row |-> row, col |-> col, width |-> last - col + 1, text |-> cells[col].text,
       off |-> IF above THEN Len(s.rows[row].text) - size
               ELSE IF col = s.cur.col THEN s.cur.off ELSE s.cur.off - size]

HasPrevCell(s) == s.cur.col > 0 \/ s.cur.row > 0

(* The code point joins the text of the previous cell. *)
Append1(s, p, ch) ==
  LET end == p.off + Len(p.text)
  IN  IF Len(p.text) + 1 > MaxText THEN s
      ELSE [s EXCEPT !.rows[p.row] =
                       [@ EXCEPT !.text = Splice(@, end, end, <<ch>>),
                                 !.cells[p.col] = [@ EXCEPT !.text = Append(@, ch), !.stale = FALSE]],
                     !.cur.off = IF s.cur.col > 0 /\ p.col < s.cur.col THEN @ + 1 ELSE @]

(* Variation selector 16 makes the previous cell two columns wide: it is taken out and put again *)
(* with its own rendition as the current one.                                                    *)
Promote(s, p, ch, wrap) ==
  LET cell  == s.rows[p.row].cells[p.col]
      gone  == [s EXCEPT !.rows[p.row] =
                           [@ EXCEPT !.text = Splice(@, p.off, p.off + Len(p.text), NoText),
                                     !.cells[p.col] = [EmptyCell EXCEPT !.stale = cell.stale]],
                         !.cur = [@ EXCEPT !.row = p.row, !.col = p.col, !.off = p.off],
                         !.gfx = cell.gfx]
      t     == PutCell(gone, Append(p.text, ch), 2, wrap)
  IN  IF cell.bg THEN [s EXCEPT !.fault = "no_ids"]
      ELSE [t EXCEPT !.ids = DropIds(@, Once(@, cell.gfx)), !.gfx = s.gfx]

(* The code point before the place where the selector goes decides; junk stands for what is read *)
(* before the beginning of the string.                                                           *)
BeforeIsEmoji(s, p, junk) ==
  LET end == p.off + Len(p.text)
  IN  IF end = 0 THEN junk ELSE IsEmoji(s.rows[p.row].text[end])

PutCodePoint(s, ch, wrap, junk) ==
  LET p == PrevCell(s)
  IN  IF WidthOf(ch) = 0
      THEN IF ~HasPrevCell(s) \/ Len(p.text) + 1 > MaxText THEN s
           ELSE IF ch = "v" /\ p.width = 1 /\ BeforeIsEmoji(s, p, junk) THEN Promote(s, p, ch, wrap)
           ELSE Append1(s, p, ch)
      ELSE IF ch = "j" /\ HasPrevCell(s) /\ p.text # NoText THEN Append1(s, p, ch)
      ELSE PutCell(s, <<ch>>, WidthOf(ch), wrap)

-----------------------------------------------------------------------------
(***************************************************************************)
(* A new size, for a screen without scroll back (History has the other).   *)
(***************************************************************************)
(* A row of other width: blank cells are added, or cells dropped with their text. *)
FitRow(s, row, cols) ==
  [row EXCEPT !.cells = [c \in 0 .. cols - 1 |-> IF c < Cols(s) THEN row.cells[c] ELSE BlankCell(s)],
              !.text  = SubSeq(@, 1, Len(@) - TextSize(row.cells, cols, Cols(s)))]

(* Rows are taken from the top or added below; the region keeps its first row. *)
Resize(s, rows, cols) ==
  LET drop == IF rows < Height(s) THEN Height(s) - rows ELSE 0
      lost == {<<r, c>> \in (0 .. Height(s) - 1) \X (0 .. Cols(s) - 1) : r < drop \/ c >= cols}
      uses == [i \in DOMAIN s.ids |-> Cardinality({p \in lost : s.rows[p[1]].cells[p[2]].gfx = i})]
      wide == [w \in DOMAIN s.multi |-> Cardinality({p \in lost : s.rows[p[1]].cells[p[2]].multi = w})]
      new  == [r \in 0 .. rows - 1 |-> IF r + drop < Height(s) THEN FitRow(s, s.rows[r + drop], cols)
                                       ELSE BlankRow(s, cols)]
      row  == Least(s.cur.row, rows - 1)
      col  == Least(s.cur.col, cols - 1)
  IN  IF s.size = <<rows, cols>> THEN s
      ELSE InvalidateAll(
           [s EXCEPT !.rows = new, !.size = <<rows, cols>>,
                     !.ids = DropIds(@, uses), !.multi = DropMulti(s, wide),
                     !.cur = [@ EXCEPT !.row = row, !.col = col, !.off = TextSize(new[row].cells, 0, col)],
                     !.region = <<@[1], IF @[2] = Height(s) THEN rows ELSE Least(@[2], rows)>>])

SetRegion(s, top, bottom) ==
  LET line(p) == IF p = 0 THEN Height(s) - 1 ELSE Least(p - 1, Height(s) - 1)
  IN  IF line(bottom) <= line(top) THEN s
      ELSE SetCursor([s EXCEPT !.region = <<line(top), line(bottom) + 1>>], 0, 0)

(* Pane::draw puts every cell that is not stale and makes it so, but for the columns of a wide *)
(* cell after its first.                                                                       *)
Draw(s) ==
  [s EXCEPT !.rows = [r \in DOMAIN @ |->
     [@[r] EXCEPT !.cells = [c \in DOMAIN @ |-> IF NonPrimary(@[c]) THEN @[c]
                                                ELSE [@[c] EXCEPT !.stale = TRUE]]]]]

-----------------------------------------------------------------------------
(***************************************************************************)
(* Situations programs do not get into as long as Avoid names them.        *)
(***************************************************************************)
Awkward(name, s, ch, wrap) ==
  CASE name = "below"   -> wrap /\ s.cur.row + 1 = Height(s) /\ s.region[2] # Height(s)
    [] name = "edge"    -> ch = "v" /\ (wrap \/ Cols(s) = 1) /\ HasPrevCell(s) /\ PrevCell(s).col + 2 > Cols(s)
    [] OTHER -> FALSE

Sensible(s, ch, wrap) == \A name \in Avoid : ~Awkward(name, s, ch, wrap)

Init ==
  /\ \E size \in Sizes :
     LET s == [cur |-> [row |-> 0, col |-> 0, off |-> 0, pend |-> FALSE], origin |-> FALSE,
               region |-> <<0, size[1]>>, gfx |-> 0, bg |-> FALSE, size |-> size,
               ids |-> [i \in 1 .. MaxId |-> FreeId],
               multi |-> [w \in {v \in Widths : v > 2} |-> 0],
               fault |-> "none", rows |-> <<>>]
     IN  screen = [s EXCEPT !.rows = [r \in 0 .. size[1] - 1 |-> BlankRow(s, size[2])]]
  /\ prints = 0

Running == screen.fault = "none" /\ ~OffScreen(screen)

Do(s) == Running /\ screen' = s /\ UNCHANGED prints

PrintCodePoint(ch, wrap, junk) ==
  /\ Running /\ prints < MaxPrints
  /\ Sensible(screen, ch, wrap)
  /\ screen' = PutCodePoint(screen, ch, wrap, junk)
  /\ prints' = prints + 1

(* OSC 66 with an explicit width; the text is one character. *)
PrintSized(w, wrap) ==
  /\ Running /\ prints < MaxPrints
  /\ Sensible(screen, "a", wrap)
  /\ screen' = PutCell(screen, <<"a">>, w, wrap)
  /\ prints' = prints + 1

CarriageReturn   == Do(SetCursorCol(screen, 0))
Backspace        == screen.cur.col > 0 /\ Do(SetCursorCol(screen, screen.cur.col - 1))
CursorForward(n) == Do(SetCursorCol(screen, screen.cur.col + n))
CursorUp(n)      == Do(SetCursor(screen, screen.cur.row - n, screen.cur.col))
CursorDown(n)    == Do(SetCursor(screen, screen.cur.row + n, screen.cur.col))
CursorTo(r, c)   == Do(SetCursor(screen, TranslateRow(screen, r), c))
LineFeeds        == Do(LineFeed(screen))
ReverseLineFeed  == Do(ReverseIndex(screen))

EraseDisplay(n) == Do(CASE n = 0 -> ClearAfter(screen) [] n = 1 -> ClearBefore(screen)
                        [] n = 2 -> ClearScreen(screen))
EraseLine(n)    == Do(CASE n = 0 -> ClearRowAfter(screen) [] n = 1 -> ClearRowBefore(screen)
                        [] n = 2 -> ClearRow(screen))
EraseCharacters(n)  == Do(EraseChars(screen, n))
InsertCharacters(n) ==
  /\ Running
  /\ "split" \in Avoid => ~(\E c \in screen.cur.col .. Cols(screen) - 2 :
                               {NonPrimary(CursorRow(screen).cells[d]) : d \in screen.cur.col .. c + 1} = {TRUE})
  /\ Do(InsertChars(screen, n))
DeleteCharacters(n) == Do(DeleteChars(screen, n))
InsertLine(n)       == Do(InsertLines(screen, n))
DeleteLine(n)       == Do(DeleteLines(screen, n))
PanDown(n)          == Do(Pan(screen, n, DeleteLines))
PanUp(n)            == Do(Pan(screen, n, InsertLines))

SetMargins(region)  == Do(SetRegion(screen, region[1], region[2]))
SetOriginMode(mode) == Do(SetOrigin(screen, mode))
SelectRendition(r)  == Do(SetRendition(screen, r))

ResizeTo(size) ==
  /\ Running
  /\ "region" \in Avoid => screen.region[1] < size[1]
  /\ "cut" \in Avoid => \A r \in DOMAIN screen.rows, c \in 0 .. Cols(screen) - 1 :
       LET cell == screen.rows[r].cells[c]
       IN  IsPrimary(cell) /\ c < size[2] => c + cell.multi <= size[2]
  /\ Do(Resize(screen, size[1], size[2]))

Render == Do(Draw(screen))

Next ==
  \/ \E ch \in Chars, wrap \in WrapModes : \E junk \in IF ch = "v" THEN BOOLEAN ELSE {FALSE} : PrintCodePoint(ch, wrap, junk)
  \/ \E w \in Widths, wrap \in WrapModes : PrintSized(w, wrap)
  \/ CarriageReturn \/ Backspace \/ LineFeeds \/ ReverseLineFeed
  \/ \E n \in Counts : \/ CursorForward(n) \/ CursorUp(n) \/ CursorDown(n)
                       \/ EraseCharacters(n) \/ InsertCharacters(n) \/ DeleteCharacters(n)
                       \/ InsertLine(n) \/ DeleteLine(n) \/ PanDown(n) \/ PanUp(n)
  \/ \E r \in 0 .. Height(screen) - 1, c \in 0 .. Cols(screen) - 1 : CursorTo(r, c)
  \/ \E n \in 0 .. 2 : EraseDisplay(n) \/ EraseLine(n)
  \/ \E region \in Regions : SetMargins(region)
  \/ \E mode \in BOOLEAN : SetOriginMode(mode)
  \/ \E r \in Renditions \cup {"none"} : SelectRendition(r)
  \/ \E size \in Sizes : ResizeTo(size)
  \/ Render

Spec == Init /\ [][Next]_vars

-----------------------------------------------------------------------------
(***************************************************************************)
(* Properties.                                                             *)
(***************************************************************************)
Positions(s) == (0 .. Height(s) - 1) \X (0 .. Cols(s) - 1)
CellAt(s, p) == s.rows[p[1]].cells[p[2]]

(* No sequence of operations puts the cursor outside of the screen or leaves an empty scroll      *)
(* region, as the assertions of set_cursor_col and set_scroll_region have it.                     *)
InBounds ==
  /\ screen.cur.row < Height(screen) /\ screen.cur.col < Cols(screen)
  /\ screen.region[1] < screen.region[2] /\ screen.region[2] <= Height(screen)

(* The screen has the rows and columns of its size, cells are no larger than a cell may be and    *)
(* refer to ids there are, and the cursor and the region are on the screen.                       *)
TypeOK ==
  /\ screen.size \in Sizes
  /\ DOMAIN screen.rows = 0 .. Height(screen) - 1
  /\ \A r \in DOMAIN screen.rows : DOMAIN screen.rows[r].cells = 0 .. Cols(screen) - 1
  /\ \A p \in Positions(screen) :
       LET cell == CellAt(screen, p)
       IN  /\ Len(cell.text) <= MaxText /\ cell.gfx \in 0 .. MaxId
           /\ cell.multi \in {0, 2} \cup Widths /\ {cell.bg, cell.left, cell.stale} \subseteq BOOLEAN
  /\ screen.cur \in [row : Nat, col : Nat, off : Nat, pend : BOOLEAN]
  /\ screen.region \in Nat \X Nat
  /\ screen.gfx \in 0 .. MaxId /\ prints \in 0 .. MaxPrints
  /\ InBounds

(* A row's string is the text of its cells in order, and the offset the cursor carries along is   *)
(* where the text of its cell begins: whatever is inserted, cut in half, wrapped, rotated away or *)
(* resized, text goes to and comes from the cell it belongs to.                                   *)
TextOK ==
  /\ TypeOK
  /\ \A r \in DOMAIN screen.rows :
       screen.rows[r].text = CellsText(screen.rows[r].cells, Cols(screen))
  /\ Running => screen.cur.off = TextSize(CursorRow(screen).cells, 0, screen.cur.col)

(* A wide cell has all of its columns, and a column that continues one has the first column of    *)
(* that cell, of the same width, at its left: the loops that look for it end on it, and never run *)
(* off the row.                                                                                   *)
WideOK ==
  \A r \in DOMAIN screen.rows :
    LET cells    == screen.rows[r].cells
        Whole(c) == /\ c + cells[c].multi <= Cols(screen)
                    /\ \A d \in c + 1 .. c + cells[c].multi - 1 :
                         NonPrimary(cells[d]) /\ cells[d].multi = cells[c].multi
    IN  \A c \in DOMAIN cells :
          /\ IsPrimary(cells[c]) => Whole(c)
          /\ NonPrimary(cells[c]) => \E d \in 0 .. c - 1 :
                                       IsPrimary(cells[d]) /\ Whole(d) /\ d + cells[d].multi > c

(* The reference count of a rendition is the number of cells that have it, and one more when it   *)
(* is the current one; a rendition has one id; cells refer to ids in use.  An id given up too     *)
(* early changes the look of other cells, one never given up is lost.                             *)
RefsOK ==
  /\ \A i \in DOMAIN screen.ids :
       screen.ids[i].refs = Cardinality({p \in Positions(screen) : CellAt(screen, p).gfx = i})
                            + (IF screen.gfx = i THEN 1 ELSE 0)
  /\ \A i, j \in DOMAIN screen.ids :
       i # j /\ screen.ids[i].refs > 0 => screen.ids[i].val # screen.ids[j].val
  /\ \A w \in DOMAIN screen.multi :
       screen.multi[w] = Cardinality({p \in Positions(screen) : CellAt(screen, p).multi = w})

(* The cell a column belongs to, whether two columns show the same, and whether the next drawing  *)
(* will put a column.                                                                             *)
Owner(s, p) == LET cells == s.rows[p[1]].cells IN cells[CellStart(cells, p[2])]
Look(s, cell) == IF cell.gfx = 0 THEN "none" ELSE s.ids[cell.gfx].val
ShowsSame(s, t, p) ==
  LET c == Owner(s, p)
      d == Owner(t, p)
  IN  c.text = d.text /\ c.bg = d.bg /\ c.multi = d.multi /\ Look(s, c) = Look(t, d)
Marked(s, p) == ~Owner(s, p).stale

(* Damage tracking: a column that shows something else after an operation is marked to be drawn,  *)
(* and what is marked stays so until it is drawn.  Otherwise the terminal shows what is gone.     *)
DamageOK ==
  [][\/ \A p \in Positions(screen) : p \in Positions(screen') =>
          Marked(screen', p) \/ (~Marked(screen, p) /\ ShowsSame(screen, screen', p))
     \/ Render]_vars

(* Only what follows text has no width of its own: put_code_point ignores a combining character   *)
(* "if there is no previous cell or the previous cell has no text".                               *)
CombiningOK ==
  \A p \in Positions(screen) :
    CellAt(screen, p).text # NoText => WidthOf(CellAt(screen, p).text[1]) > 0
=============================================================================
