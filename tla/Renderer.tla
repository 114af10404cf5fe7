----------------------------- MODULE Renderer -----------------------------
(***************************************************************************)
(* The renderer (lib/src/renderer.cpp): panes, borders and the status bar  *)
(* put cells on a desired screen; at the end of a frame what differs from  *)
(* the current screen is written to the outer terminal, in an order that   *)
(* saves bytes and with relative movements of the cursor.  The outer       *)
(* terminal, which is modelled here by what the renderer relies on, may    *)
(* give a text another width than ttx does.                                *)
(*                                                                         *)
(* Texts: "" is a blank, "a" narrow and "w" wide, "c" a cluster of wide    *)
(* code points that takes two columns, and "s" a wide code point that is   *)
(* explicitly sized to one column.  Renditions are numbers, 0 the default, *)
(* all with the same background; hyperlinks and colors are left out.       *)
(***************************************************************************)
EXTENDS Integers, SequencesExt

CONSTANTS
    Cells,      \* those put on the screen: [text, gfx]
    Labels,     \* what borders and the status bar put there: [characters, gfx]
    FeatureSets,\* what outer terminals support: subsets of {"clustering", "sizing", "seamless"}
    Sizes,      \* sizes of the outer terminal: [rows, cols]
    Bounds,     \* what panes cover: [row, col, width, height]
    Frames,     \* cursors of panes and window titles: [cursor: [row, col, hidden], title]
    MaxPuts     \* bound: cells and labels put after a Renderer::setup

ASSUME RendererAssumption ==
    /\ Cells \subseteq [text : {"", "a", "w", "c", "s"}, gfx : Nat]
    /\ Labels \subseteq [characters : Seq({"", "a", "w"}), gfx : Nat]
    /\ \A features \in FeatureSets : features \subseteq {"clustering", "sizing", "seamless"}
    /\ Sizes \subseteq [rows: Nat \ {0}, cols: Nat \ {0, 1}]
    /\ MaxPuts \in Nat

VARIABLES
    features,     \* m_features
    resized,      \* a Size event is in the queue of the render thread
    drawing,      \* between start and finish
    puts,         \* cells and labels put since setup, for MaxPuts
    current,      \* m_current_screen: [cells, row, col, gfx]
    desired,      \* the cells of m_desired_screen
    size,         \* the size of both
    sizeChanged,  \* m_size_changed
    cursor,       \* m_current_cursor
    title,        \* m_window_title
    dropped,      \* history: the title was taken over in a frame that wrote nothing
    outer         \* the outer terminal: [size, cells, row, col, gfx, visible, title]

vars == <<features, resized, drawing, puts, current, desired, size, sizeChanged, cursor,
          title, dropped, outer>>

Width(text) == IF text \in {"w", "c"} THEN 2 ELSE 1

\* What the outer terminal prints: glyphs, each with its width.
Glyphs(text) ==
    CASE text = "c" -> IF "clustering" \in features THEN <<<<"c", 2>>>> ELSE <<<<"c", 2>>, <<"c2", 2>>>>
      [] text = "s" -> <<<<"s", 2>>>>
      [] text = ""  -> <<<<"", 1>>>>
      [] OTHER      -> <<<<text, Width(text)>>>>

\* compute_text_upper_bound: the widths of the code points taken together
UpperBound(text) == IF text = "c" THEN 4 ELSE IF text = "s" THEN 2 ELSE Width(text)

NeedsSizing(text) == text = "s" \/ (text = "c" /\ "clustering" \notin features)
Phase(text) == IF NeedsSizing(text) /\ "sizing" \notin features THEN 0 ELSE 1

-----------------------------------------------------------------------------
(* Screens *)

NarrowCell(text, gfx) == [text |-> text, gfx |-> gfx, width |-> 1, first |-> TRUE]
Blank == NarrowCell("", 0)
RestOf(width) == [text |-> "", gfx |-> 0, width |-> width, first |-> FALSE]
Lost == [text |-> "?", gfx |-> 0, width |-> 1, first |-> TRUE]

BlankScreen(s) == [r \in 0 .. s.rows - 1 |-> [c \in 0 .. s.cols - 1 |-> Blank]]

FirstOf(line, c) == IF line[c].first THEN c ELSE c - 1
Columns(line, c) == FirstOf(line, c) .. FirstOf(line, c) + line[c].width - 1

\* A line with other cells in a set of columns; what is left of a cell that is cut becomes rest.
Cut(line, columns, rest) ==
    [c \in DOMAIN line |-> IF Columns(line, c) \cap columns # {} THEN rest ELSE line[c]]

Place(line, col, text, gfx, width, rest) ==
    LET cut == Cut(line, col .. col + width - 1, rest)
    IN  [c \in DOMAIN line |->
            IF c = col THEN [text |-> text, gfx |-> gfx, width |-> width, first |-> TRUE]
            ELSE IF c \in col + 1 .. col + width - 1 THEN RestOf(width) ELSE cut[c]]

\* Screen::put_cell without wrapping, which moves a cell that does not fit to the left.
Fitted(col, text) == IF col + Width(text) > size.cols THEN size.cols - Width(text) ELSE col
PutOn(cells, row, col, text, gfx) ==
    LET at == Fitted(col, text)
    IN  [cells EXCEPT ![row] = Place(@, at, text, gfx, Width(text), Blank)]

-----------------------------------------------------------------------------
(* The outer terminal, without automatic wrapping *)

Least(x, y) == IF x < y THEN x ELSE y
Clamped(x, limit) == IF x < 0 THEN 0 ELSE Least(x, limit - 1)

\* A glyph that does not fit is not shown; what is left of one that is cut looks like anything.
PrintGlyph(term, glyph, width) ==
    IF term.col + width > term.size.cols THEN term
    ELSE [term EXCEPT !.cells = [@ EXCEPT ![term.row] =
                          Place(@, term.col, glyph, term.gfx, width, Lost)],
                      !.col = Least(@ + width, term.size.cols - 1)]

PrintText(term, text) ==
    FoldLeft(LAMBDA t, glyph : PrintGlyph(t, glyph[1], glyph[2]), term, Glyphs(text))

PrintSpaces(term, n) == FoldLeft(LAMBDA t, i : PrintGlyph(t, "", 1), term, [i \in 1 .. n |-> i])

ColTo(term, col) == [term EXCEPT !.col = Clamped(col, term.size.cols)]
MoveTo(term, row, col) ==
    [term EXCEPT !.row = Clamped(row, term.size.rows), !.col = Clamped(col, term.size.cols)]
RowBy(term, n) == [term EXCEPT !.row = Clamped(@ + n, term.size.rows)]

Unknown == -1

MoveCol(term, from, to) ==
    IF to = 0 THEN ColTo(term, 0)
    ELSE IF from = Unknown THEN ColTo(term, to)
    ELSE ColTo(term, term.col + (to - from))

\* move_cursor: relative where it can be
MoveCursor(term, row, col, toRow, toCol) ==
    IF row = toRow THEN IF col = toCol THEN term ELSE MoveCol(term, col, toCol)
    ELSE IF col = toCol THEN RowBy(term, toRow - row)
    ELSE IF toCol = 0 THEN IF toRow = 0 THEN MoveTo(term, 0, 0)
                           ELSE RowBy(ColTo(term, 0), toRow - row)
    ELSE IF toRow - row \in {-1, 1} THEN RowBy(MoveCol(term, col, toCol), toRow - row)
    ELSE MoveTo(term, toRow, toCol)

-----------------------------------------------------------------------------
(* Renderer::finish *)

\* Mutant: what follows a text whose width is not certain is left alone.
ForcedBy_Nothing(text) == 0

\* The columns that are written again from that of the text on
ForcedBy(text) ==
    IF Phase(text) = 0 /\ UpperBound(text) > Width(text) THEN UpperBound(text) ELSE 0

\* The columns of a row that are written: whatever differs, and what a text of uncertain width
\* may cover on the outer terminal.  left[c] is force_change when column c is reached.
Changed(row) ==
    LET now == current.cells[row]
        want == desired[row]
        Differs(c) == <<want[c].text, want[c].gfx, want[c].width>>
                          # <<now[c].text, now[c].gfx, now[c].width>>
        Writes(c, n) == want[c].first /\ (n > 0 \/ Differs(c))
        left[c \in 0 .. size.cols - 1] ==
            IF c = 0 THEN 0
            ELSE LET before == left[c - 1]
                     n == before + IF Writes(c - 1, before) THEN ForcedBy(want[c - 1].text) ELSE 0
                 IN  IF n = 0 THEN 0 ELSE n - 1
    IN  {c \in 0 .. size.cols - 1 : Writes(c, left[c])}

Changes ==
    UNION {{[phase |-> Phase(desired[row][col].text), row |-> row, col |-> col,
             text |-> desired[row][col].text, gfx |-> desired[row][col].gfx] :
                col \in Changed(row)} : row \in DOMAIN desired}

\* Change::operator<=>
Before(x, y) ==
    LET Position == x.row < y.row \/ (x.row = y.row /\ x.col < y.col)
    IN  \/ x.phase < y.phase
        \/ x.phase = 0 /\ y.phase = 0 /\ Position
        \/ x.phase = 1 /\ y.phase = 1 /\ (x.gfx < y.gfx \/ (x.gfx = y.gfx /\ Position))

\* The text of a change, and the column that is known then.
Written(term, change) ==
    LET width == Width(change.text)
        after == Least(change.col + width, size.cols - 1)
        known == IF change.col + width >= size.cols THEN Unknown ELSE change.col + width
    IN  IF ~NeedsSizing(change.text) THEN <<PrintText(term, change.text), known>>
        ELSE IF "sizing" \in features THEN <<PrintGlyph(term, change.text, width), known>>
        ELSE <<PrintText(MoveCursor(PrintSpaces(term, width), change.row, after, change.row,
                                    change.col), change.text), Unknown>>

\* state: the current screen, the outer terminal, and where its cursor is known to be
Apply(state, change) ==
    LET drawn == IF state.screen.gfx = change.gfx THEN state.term
                 ELSE [state.term EXCEPT !.gfx = change.gfx]
        moved == MoveCursor(drawn, state.row, state.col, change.row, change.col)
        written == Written(moved, change)
    IN  [screen |-> [state.screen EXCEPT !.gfx = change.gfx,
                        !.cells = PutOn(@, change.row, change.col, change.text, change.gfx)],
         term |-> written[1], row |-> change.row, col |-> written[2]]

\* A cursor outside of the screen is hidden.
Inside(c) ==
    LET out == c.row >= size.rows \/ c.col >= size.cols
    IN  [row |-> Least(c.row, size.rows - 1), col |-> Least(c.col, size.cols - 1),
         hidden |-> c.hidden \/ out]

\* After a change of the size the outer terminal is cleared.
Cleared(term) ==
    [term EXCEPT !.row = 0, !.col = 0, !.gfx = 0, !.cells = BlankScreen(term.size)]

\* Mutant: the cursor is not drawn when it has not changed.
Nothing_Seamless(changes, c) == ~sizeChanged /\ changes = {} /\ c = cursor

\* Nothing is written, not the title either, unless the terminal may have hidden the cursor.
Nothing(changes, c) ==
    ~sizeChanged /\ changes = {} /\ c = cursor /\ "seamless" \notin features

\* What a terminal shows when its size has changed
Garbled(term) ==
    [term EXCEPT !.row = 0, !.col = 0, !.gfx = 0,
        !.cells = [r \in 0 .. term.size.rows - 1 |-> [c \in 0 .. term.size.cols - 1 |-> Lost]]]

\* The end of a frame: what the terminal shows, with its title and cursor as they were, and the
\* current screen.
Drawn(changes, c) ==
    LET start == IF sizeChanged
                 THEN [screen |-> [current EXCEPT !.row = 0, !.col = 0, !.gfx = 0],
                       term |-> Cleared(outer), row |-> 0, col |-> 0]
                 ELSE [screen |-> current, term |-> outer, row |-> current.row, col |-> current.col]
        end == FoldLeft(Apply, start, SetToSortSeq(changes, Before))
    IN  [screen |-> [end.screen EXCEPT !.row = c.row, !.col = c.col],
         term |-> MoveCursor(end.term, end.row, end.col, c.row, c.col)]

Finish ==
    /\ drawing /\ drawing' = FALSE
    /\ \E frame \in Frames :
         LET c == Inside(frame.cursor)
             text == frame.title
             changes == Changes
             drawn == Drawn(changes, c)
         IN  /\ title' = text
             /\ dropped' = IF text = title THEN dropped ELSE Nothing(changes, c)
             /\ IF Nothing(changes, c) THEN UNCHANGED <<current, outer, cursor>>
                ELSE /\ current' = drawn.screen
                     /\ outer' = [drawn.term EXCEPT
                                     !.title = IF text # title THEN text ELSE @,
                                     !.visible = IF ~c.hidden THEN TRUE
                                                 ELSE @ /\ cursor.hidden]
                     /\ cursor' = c
    /\ sizeChanged' = FALSE
    /\ UNCHANGED <<features, resized, puts, desired, size>>

-----------------------------------------------------------------------------
(* The other operations *)

NoCursor == [row |-> -1, col |-> -1, hidden |-> FALSE]
NoTitle == ""

\* Renderer::setup, when the render thread takes a Size event (render.cpp)
SetUp ==
    /\ ~drawing /\ resized
    /\ resized' = FALSE
    /\ sizeChanged' = TRUE /\ puts' = 0
    /\ current' = [current EXCEPT !.cells = BlankScreen(size)]
    /\ desired' = BlankScreen(size)
    /\ cursor' = NoCursor /\ title' = NoTitle
    /\ outer' = [outer EXCEPT !.title = NoTitle]
    /\ dropped' = FALSE
    /\ UNCHANGED <<features, drawing, size>>

\* Renderer::start.  Frames between a resize and its event are left out: setup has the screen
\* cleared afterwards.
Start ==
    /\ ~drawing /\ ~resized /\ drawing' = TRUE
    /\ IF sizeChanged \/ size # outer.size
       THEN /\ sizeChanged' = TRUE
            /\ size' = outer.size
            /\ current' = [current EXCEPT !.cells = BlankScreen(outer.size), !.row = 0, !.col = 0]
            /\ desired' = BlankScreen(outer.size)
            /\ cursor' = NoCursor /\ title' = NoTitle
       ELSE UNCHANGED <<sizeChanged, size, current, desired, cursor, title>>
    /\ UNCHANGED <<features, resized, puts, dropped, outer>>

Fits(bound, col, text) == col + Width(text) <= bound.width

Whole == [row |-> 0, col |-> 0, width |-> size.cols, height |-> size.rows]

\* Renderer::put_cell, with the bounds of Renderer::set_bound: a cell that does not fit into them
\* is replaced with blanks.
PutCell ==
    /\ drawing /\ puts < MaxPuts /\ puts' = puts + 1
    /\ \E bound \in Bounds \cup {Whole} :
       \E row \in 0 .. bound.height - 1, col \in 0 .. bound.width - 1, cell \in Cells :
         LET r == bound.row + row
             c == bound.col + col
         IN  /\ bound.row + bound.height <= size.rows /\ bound.col + bound.width <= size.cols
             /\ desired' =
                   IF Fits(bound, col, cell.text) THEN PutOn(desired, r, c, cell.text, cell.gfx)
                   ELSE [desired EXCEPT ![r] = Cut(@, c .. bound.col + bound.width - 1, Blank)]
    /\ UNCHANGED <<features, resized, drawing, current, size, sizeChanged, cursor, title, dropped,
                   outer>>

\* The characters of a label are put one after the other, until one ends beyond the bound, which
\* it may.
PutLabel(cells, row, col, end, label) ==
    LET Put(state, text) ==
            IF state.col >= end THEN state
            ELSE [cells |-> PutOn(state.cells, row, state.col, text, label.gfx),
                  col |-> Least(Fitted(state.col, text) + Width(text), size.cols - 1)]
    IN  FoldLeft(Put, [cells |-> cells, col |-> col], label.characters).cells

\* Renderer::put_text
PutText ==
    /\ drawing /\ puts < MaxPuts /\ puts' = puts + 1
    /\ \E bound \in Bounds \cup {Whole} :
       \E row \in 0 .. bound.height - 1, col \in 0 .. bound.width - 1, label \in Labels :
         /\ bound.row + bound.height <= size.rows /\ bound.col + bound.width <= size.cols
         /\ desired' = PutLabel(desired, bound.row + row, bound.col + col,
                                bound.col + bound.width, label)
    /\ UNCHANGED <<features, resized, drawing, current, size, sizeChanged, cursor, title, dropped,
                   outer>>

\* The terminal is resized: what it shows then is not known.
Resize ==
    /\ ~drawing
    /\ \E s \in Sizes \ {outer.size} : outer' = Garbled([outer EXCEPT !.size = s])
    /\ resized' = TRUE
    /\ UNCHANGED <<features, drawing, puts, current, desired, size, sizeChanged, cursor, title,
                   dropped>>

\* A terminal that takes part in seamless navigation hides the cursor when it enters ttx.
Enter ==
    /\ ~drawing /\ "seamless" \in features
    /\ outer' = [outer EXCEPT !.visible = FALSE]
    /\ UNCHANGED <<features, resized, drawing, puts, current, desired, size, sizeChanged,
                   cursor, title, dropped>>

\* After the first Renderer::setup
Init ==
    /\ features \in FeatureSets
    /\ resized = FALSE /\ drawing = FALSE /\ puts = 0
    /\ size \in Sizes
    /\ current = [cells |-> BlankScreen(size), row |-> 0, col |-> 0, gfx |-> 0]
    /\ desired = BlankScreen(size)
    /\ sizeChanged = TRUE
    /\ cursor = NoCursor /\ title = NoTitle /\ dropped = FALSE
    /\ outer = Garbled([size |-> size, row |-> 0, col |-> 0, gfx |-> 0, visible |-> TRUE,
                        title |-> NoTitle, cells |-> <<>>])

Next == SetUp \/ Start \/ PutCell \/ PutText \/ Finish \/ Resize \/ Enter

Spec == Init /\ [][Next]_vars

-----------------------------------------------------------------------------
(* Properties *)

\* A text of uncertain width may be cut off, but nothing else is shown in its place.
CellShown(row, col) ==
    LET cell == desired[row][col]
        glyphs == {glyph[1] : glyph \in Range(Glyphs(cell.text))}
    IN  IF Phase(cell.text) = 1 THEN outer.cells[row][col] = cell
        ELSE \A c \in col .. col + cell.width - 1 :
                 outer.cells[row][c].text \in glyphs \cup {"", "?"}

\* Once a frame is finished the outer terminal shows the desired screen: each text in its columns
\* with its rendition, whatever was there before and however wide the terminal takes the texts
\* beside it, unless it has just been resized (Renderer::finish).
Shown ==
    ~drawing /\ ~sizeChanged /\ ~resized =>
        \A row \in DOMAIN desired : \A col \in DOMAIN desired[row] :
            desired[row][col].first => CellShown(row, col)

\* At the end of every frame, of one that has nothing to write as well, its cursor is where the
\* active pane has it, or hidden; and its title is the one of the frame, unless that has changed in
\* a frame that had nothing else to write, and not since (Renderer::finish).
CursorShown ==
    [][drawing /\ ~drawing' =>
          /\ outer'.visible = ~cursor'.hidden
          /\ outer'.row = cursor'.row /\ outer'.col = cursor'.col
          /\ ~dropped' => outer'.title = title']_vars

\* A frame that writes nothing has nothing to write ("No updates, so do nothing",
\* renderer.cpp:506): but for the size, the cells and the cursor, which are looked at then, a new
\* title is one.
NoUpdatesDropped ==
    [][drawing /\ ~drawing' /\ UNCHANGED <<current, outer, cursor>> => UNCHANGED title]_vars
=============================================================================
