--------------------------- MODULE TerminalProofs ---------------------------
(***************************************************************************)
(* Proofs about Terminal, for any number of steps, any sizes and any       *)
(* parameters, as long as the situations that lead to known faults are     *)
(* left out (Avoid).                                                       *)
(*                                                                         *)
(* The argument.  What acts on a screen keeps its size, and its cursor and *)
(* margins on it (ScreenKept); what changes the size of a screen tells the *)
(* program (ResizeTells).  The screens are sound in between too, but for   *)
(* the order of the margins: that they are not lost is what the situation  *)
(* "region" is about.                                                      *)
(***************************************************************************)
EXTENDS Terminal, SequenceTheorems, WellFoundedInduction, TLAPS

-----------------------------------------------------------------------------
(* Screens *)

SizeSet == [rows : Nat \ {0}, cols : Nat \ {0}, cell : Nat]

ScreenShape(s) ==
  s = [size |-> s.size, cursor |-> s.cursor, origin |-> s.origin, region |-> s.region,
       sgr |-> s.sgr, saved |-> s.saved, style |-> s.style, keys |-> s.keys, stack |-> s.stack,
       seamless |-> s.seamless]

AllKeys == SUBSET UNION KeyFlags
SavedCursors == [row : Nat, col : Nat, over : BOOLEAN]

CursorOn(s) ==
  s.cursor \in [row : 0 .. s.size.rows - 1, col : 0 .. s.size.cols - 1, over : BOOLEAN]
MarginsOn(s) == s.region \in [top : Nat, bottom : 1 .. s.size.rows]
SavedSound(s) ==
  /\ Len(s.saved) \in {0, 1} /\ (Len(s.saved) = 0 <=> s.saved = <<>>)
  /\ s.saved # <<>> => /\ s.saved[1].cursor \in SavedCursors
                       /\ s.saved[1].origin \in BOOLEAN
KeysSound(s) == s.keys \in AllKeys /\ s.stack \in Seq(AllKeys) /\ Len(s.stack) <= MaxStack

\* All but the cursor, and that the margins are in order
Framed(s) ==
  /\ ScreenShape(s) /\ s.size \in SizeSet /\ s.origin \in BOOLEAN
  /\ MarginsOn(s) /\ SavedSound(s) /\ KeysSound(s)
Sound(s)    == Framed(s) /\ CursorOn(s)
Regioned(s) == s.region.top < s.region.bottom

\* What happens to a screen leaves it sound, and its size alone.
ScreenKept(s, u) == Sound(u) /\ u.size = s.size

LEMMA SetCursorPlaces ==
  ASSUME NEW s, Framed(s), s.origin = TRUE => Regioned(s), NEW row \in Nat, NEW col \in Nat
  PROVE  /\ ScreenKept(s, SetCursor(s, row, col))
         /\ SetCursor(s, row, col).region = s.region
<1> DEFINE low  == IF s.origin THEN s.region.top ELSE 0
           high == IF s.origin THEN s.region.bottom - 1 ELSE s.size.rows - 1
           at   == [row |-> Clamp(row, low, high), col |-> Clamp(col, 0, s.size.cols - 1),
                    over |-> FALSE]
           u    == SetCursor(s, row, col)
<1>1. u = [s EXCEPT !.cursor = at]
  BY DEF SetCursor
<1>2. s.size.rows \in Nat \ {0} /\ s.size.cols \in Nat \ {0}
  BY DEF Framed, SizeSet
<1>3. s.region.top \in Nat /\ s.region.bottom \in 1 .. s.size.rows
  BY DEF Framed, MarginsOn
<1>4. low \in 0 .. s.size.rows - 1 /\ high \in 0 .. s.size.rows - 1
  BY <1>2, <1>3 DEF Regioned, Framed
<1>5. Clamp(row, low, high) \in 0 .. s.size.rows - 1
  BY <1>2, <1>4 DEF Clamp
<1>6. Clamp(col, 0, s.size.cols - 1) \in 0 .. s.size.cols - 1
  BY <1>2 DEF Clamp
<1>7. at \in [row : 0 .. s.size.rows - 1, col : 0 .. s.size.cols - 1, over : BOOLEAN]
  BY <1>5, <1>6
<1> HIDE DEF at, u
<1>8. /\ ScreenShape(u) /\ u.cursor = at /\ u.size = s.size /\ u.region = s.region
      /\ u.saved = s.saved /\ u.keys = s.keys /\ u.stack = s.stack
  BY <1>1 DEF Framed, ScreenShape
<1>9. u.origin = s.origin
  BY <1>1 DEF Framed, ScreenShape
<1>10. Framed(u) /\ CursorOn(u)
  BY <1>7, <1>8, <1>9 DEF Framed, CursorOn, MarginsOn, SavedSound, KeysSound
<1>11. QED
  BY <1>8, <1>10 DEF ScreenKept, Sound, u

\* The row and the column of the cursor, which a screen has
LEMMA SoundNumbers ==
  ASSUME NEW s, Sound(s)
  PROVE  /\ s.size.rows \in Nat \ {0} /\ s.size.cols \in Nat \ {0} /\ s.size.cell \in Nat
         /\ s.cursor.row \in Nat /\ s.cursor.row < s.size.rows
         /\ s.cursor.col \in Nat /\ s.cursor.col < s.size.cols
         /\ s.cursor.over \in BOOLEAN
         /\ s.region.top \in Nat /\ s.region.bottom \in Nat
         /\ 1 <= s.region.bottom /\ s.region.bottom <= s.size.rows
<1>1. s.size \in SizeSet /\ MarginsOn(s) /\ CursorOn(s)
  BY DEF Sound, Framed
<1>2. s.size.rows \in Nat \ {0} /\ s.size.cols \in Nat \ {0} /\ s.size.cell \in Nat
  BY <1>1 DEF SizeSet
<1>3. /\ s.cursor.row \in 0 .. s.size.rows - 1 /\ s.cursor.col \in 0 .. s.size.cols - 1
      /\ s.cursor.over \in BOOLEAN
  BY <1>1 DEF CursorOn
<1>4. s.region.top \in Nat /\ s.region.bottom \in 1 .. s.size.rows
  BY <1>1 DEF MarginsOn
<1>5. QED
  BY <1>2, <1>3, <1>4

LEMMA KeptSame ==
  ASSUME NEW s, Sound(s)
  PROVE  ScreenKept(s, s)
BY DEF ScreenKept

LEMMA KeptTwice ==
  ASSUME NEW s, NEW u, NEW v, ScreenKept(s, u), ScreenKept(u, v)
  PROVE  ScreenKept(s, v)
BY DEF ScreenKept

\* What changes neither the cursor nor the margins
LEMMA KeptIf ==
  ASSUME NEW s, Sound(s), NEW u, ScreenShape(u), u.size = s.size, u.cursor = s.cursor,
         u.region = s.region, u.origin \in BOOLEAN, SavedSound(u), KeysSound(u)
  PROVE  ScreenKept(s, u)
BY DEF ScreenKept, Sound, Framed, CursorOn, MarginsOn

LEMMA MarginsKept ==
  ASSUME NEW s, Framed(s), NEW top \in Nat, NEW bottom \in Nat
  PROVE  LET u == Margins(s, top, bottom)
         IN  u = s \/ ScreenKept(s, u)
<1> DEFINE first == IF top = 0 THEN s.size.rows - 1 ELSE Least(top - 1, s.size.rows - 1)
           last  == IF bottom = 0 THEN s.size.rows - 1 ELSE Least(bottom - 1, s.size.rows - 1)
           region == [top |-> first, bottom |-> last + 1]
           r == [s EXCEPT !.region = region]
           u == Margins(s, top, bottom)
<1>1. s.size.rows \in Nat \ {0}
  BY DEF Framed, SizeSet
<1>2. first \in 0 .. s.size.rows - 1 /\ last \in 0 .. s.size.rows - 1
  BY <1>1 DEF Least
<1>3. u = IF last < first + 1 THEN s ELSE SetCursor(r, 0, 0)
  BY DEF Margins
<1>4. ASSUME ~(last < first + 1)
      PROVE  ScreenKept(s, SetCursor(r, 0, 0))
  <2> HIDE DEF first, last
  <2>1. region.top = first /\ region.bottom = last + 1
    OBVIOUS
  <2>2. region \in [top : Nat, bottom : 1 .. s.size.rows] /\ region.top < region.bottom
    BY <1>1, <1>2, <1>4
  <2> HIDE DEF region
  <2>3. /\ ScreenShape(r) /\ r.size = s.size /\ r.region = region /\ r.saved = s.saved
        /\ r.keys = s.keys /\ r.stack = s.stack
    BY DEF Framed, ScreenShape
  <2>4. r.origin = s.origin
    BY DEF Framed, ScreenShape
  <2> HIDE DEF r
  <2>5. Framed(r) /\ Regioned(r)
    BY <2>2, <2>3, <2>4 DEF Framed, MarginsOn, SavedSound, KeysSound, Regioned
  <2>6. ScreenKept(r, SetCursor(r, 0, 0))
    BY <2>5, SetCursorPlaces
  <2>7. QED
    BY <2>3, <2>6 DEF ScreenKept
<1>5. QED
  BY <1>3, <1>4

LEMMA CursorToKept ==
  ASSUME NEW s, Sound(s), Regioned(s), NEW row \in Nat, NEW col \in Nat
  PROVE  ScreenKept(s, CursorTo(s, row, col))
<1>1. row + (IF s.origin THEN s.region.top ELSE 0) \in Nat
  BY SoundNumbers
<1>2. QED
  BY <1>1, SetCursorPlaces DEF CursorTo, Sound

LEMMA SetOriginKept ==
  ASSUME NEW s, Sound(s), Regioned(s), NEW on \in BOOLEAN
  PROVE  ScreenKept(s, SetOrigin(s, on))
<1> DEFINE r == [s EXCEPT !.origin = on]
<1>1. /\ ScreenShape(r) /\ r.size = s.size /\ r.region = s.region /\ r.saved = s.saved
      /\ r.keys = s.keys /\ r.stack = s.stack
  BY DEF Sound, Framed, ScreenShape
<1>2. r.origin \in BOOLEAN
  BY DEF Sound, Framed, ScreenShape
<1>3. SetOrigin(s, on) = s \/ SetOrigin(s, on) = SetCursor(r, 0, 0)
  BY DEF SetOrigin
<1> HIDE DEF r
<1>4. Framed(r) /\ Regioned(r)
  BY <1>1, <1>2 DEF Sound, Framed, MarginsOn, SavedSound, KeysSound, Regioned
<1>5. ScreenKept(r, SetCursor(r, 0, 0))
  BY <1>4, SetCursorPlaces
<1>6. QED
  BY <1>1, <1>3, <1>5, KeptSame DEF ScreenKept

\* The pending wrap is the last thing that is restored.
LEMMA RestoreCursorKept ==
  ASSUME NEW s, Framed(s), NEW saved, saved.cursor \in SavedCursors, saved.origin \in BOOLEAN,
         saved.origin = TRUE => Regioned(s)
  PROVE  ScreenKept(s, RestoreCursor(s, saved))
<1> DEFINE r == [s EXCEPT !.origin = saved.origin]
           moved == SetCursor(r, saved.cursor.row, saved.cursor.col)
           sgr == saved.sgr
           over == saved.cursor.over
           m == [moved EXCEPT !.sgr = sgr]
           u == RestoreCursor(s, saved)
<1>1. /\ ScreenShape(r) /\ r.size = s.size /\ r.region = s.region /\ r.saved = s.saved
      /\ r.keys = s.keys /\ r.stack = s.stack
  BY DEF Framed, ScreenShape
<1>2. r.origin = saved.origin
  BY DEF Framed, ScreenShape
<1>3. saved.cursor.row \in Nat /\ saved.cursor.col \in Nat /\ over \in BOOLEAN
  BY DEF SavedCursors
<1>4. u = [moved EXCEPT !.sgr = sgr, !.cursor.over = over]
  BY DEF RestoreCursor
<1> HIDE DEF r
<1>5. Framed(r) /\ (r.origin = TRUE => Regioned(r))
  BY <1>1, <1>2 DEF Framed, MarginsOn, SavedSound, KeysSound, Regioned
<1>6. ScreenKept(r, moved)
  BY <1>3, <1>5, SetCursorPlaces
<1> HIDE DEF moved, sgr, over
<1>7. Sound(moved) /\ ScreenShape(moved)
  BY <1>6 DEF ScreenKept, Sound, Framed
<1> DEFINE c == [moved.cursor EXCEPT !.over = over]
<1>8. u = [m EXCEPT !.cursor = c]
  BY <1>4, <1>7 DEF ScreenShape
<1>9. c \in [row : 0 .. moved.size.rows - 1, col : 0 .. moved.size.cols - 1, over : BOOLEAN]
  BY <1>3, <1>7 DEF Sound, CursorOn
<1> HIDE DEF c, u
<1>10. /\ ScreenShape(m) /\ m.size = moved.size /\ m.region = moved.region /\ m.saved = moved.saved
       /\ m.keys = moved.keys /\ m.stack = moved.stack
  BY <1>7 DEF ScreenShape
<1>11. m.origin = moved.origin
  BY <1>7 DEF ScreenShape
<1> HIDE DEF m
<1>12. /\ ScreenShape(u) /\ u.size = moved.size /\ u.region = moved.region /\ u.saved = moved.saved
       /\ u.keys = moved.keys /\ u.stack = moved.stack /\ u.cursor = c
  BY <1>8, <1>10 DEF ScreenShape
<1>13. u.origin = moved.origin
  BY <1>8, <1>10, <1>11 DEF ScreenShape
<1>14. Framed(u) /\ CursorOn(u)
  BY <1>7, <1>9, <1>12, <1>13 DEF Sound, Framed, MarginsOn, SavedSound, KeysSound, CursorOn
<1>15. QED
  BY <1>1, <1>6, <1>12, <1>14 DEF ScreenKept, Sound, u

LEMMA SaveKept ==
  ASSUME NEW s, Sound(s)
  PROVE  ScreenKept(s, Save(s))
<1> DEFINE one == SaveCursor(s)
           saved == <<one>>
           u == Save(s)
<1>1. one.cursor = s.cursor /\ one.origin = s.origin
  BY DEF SaveCursor
<1>2. s.cursor \in SavedCursors
  BY DEF Sound, CursorOn, SavedCursors
<1>3. u = [s EXCEPT !.saved = saved]
  BY DEF Save
<1> HIDE DEF one
<1>4. Len(saved) = 1 /\ saved # <<>> /\ saved[1] = one
  OBVIOUS
<1> HIDE DEF saved, u
<1>5. /\ ScreenShape(u) /\ u.size = s.size /\ u.cursor = s.cursor /\ u.region = s.region
      /\ u.saved = saved /\ u.keys = s.keys /\ u.stack = s.stack
  BY <1>3 DEF Sound, Framed, ScreenShape
<1>6. u.origin = s.origin
  BY <1>3 DEF Sound, Framed, ScreenShape
<1>7. u.saved[1].cursor \in SavedCursors /\ u.saved[1].origin \in BOOLEAN
  BY <1>1, <1>2, <1>4, <1>5 DEF Sound, Framed
<1>8. SavedSound(u)
  BY <1>4, <1>5, <1>7 DEF SavedSound
<1>9. KeysSound(u)
  BY <1>5 DEF KeysSound, Sound, Framed
<1>10. QED
  BY <1>5, <1>6, <1>8, <1>9, KeptIf DEF Sound, Framed, u

LEMMA RestoreKept ==
  ASSUME NEW s, Sound(s), Regioned(s)
  PROVE  ScreenKept(s, Restore(s))
<1>1. CASE s.saved = <<>>
  BY <1>1, KeptSame DEF Restore
<1>2. CASE s.saved # <<>>
  <2> DEFINE one == s.saved[1]
             r == RestoreCursor(s, one)
             none == <<>>
             u == Restore(s)
  <2>1. one.cursor \in SavedCursors /\ one.origin \in BOOLEAN
    BY <1>2 DEF Sound, Framed, SavedSound
  <2>2. u = [r EXCEPT !.saved = none]
    BY <1>2 DEF Restore
  <2> HIDE DEF one
  <2>3. ScreenKept(s, r)
    BY <2>1, RestoreCursorKept DEF Sound
  <2>4. Len(none) = 0 /\ none = <<>>
    OBVIOUS
  <2> HIDE DEF r, none, u
  <2>5. Sound(r) /\ ScreenShape(r) /\ r.size = s.size
    BY <2>3 DEF ScreenKept, Sound, Framed
  <2>6. /\ ScreenShape(u) /\ u.size = r.size /\ u.cursor = r.cursor /\ u.region = r.region
        /\ u.saved = none /\ u.keys = r.keys /\ u.stack = r.stack
    BY <2>2, <2>5 DEF ScreenShape
  <2>7. u.origin = r.origin
    BY <2>2, <2>5 DEF ScreenShape
  <2>8. SavedSound(u)
    BY <2>4, <2>6 DEF SavedSound
  <2>9. KeysSound(u)
    BY <2>5, <2>6 DEF KeysSound, Sound, Framed
  <2>10. ScreenKept(r, u)
    BY <2>5, <2>6, <2>7, <2>8, <2>9, KeptIf DEF Sound, Framed
  <2>11. QED
    BY <2>5, <2>10 DEF ScreenKept, u
<1>3. QED
  BY <1>1, <1>2

LEMMA FillRowKept ==
  ASSUME NEW s, Sound(s)
  PROVE  ScreenKept(s, FillRow(s))
<1> DEFINE col == s.size.cols - 1
           over == TRUE
           at == [s.cursor EXCEPT !.col = col, !.over = over]
           u == FillRow(s)
<1>1. u = [s EXCEPT !.cursor = at]
  BY DEF FillRow
<1>2. col \in 0 .. s.size.cols - 1 /\ over \in BOOLEAN
  BY SoundNumbers
<1> HIDE DEF col, over
<1>3. at \in [row : 0 .. s.size.rows - 1, col : 0 .. s.size.cols - 1, over : BOOLEAN]
  BY <1>2 DEF Sound, CursorOn
<1> HIDE DEF at, u
<1>4. /\ ScreenShape(u) /\ u.size = s.size /\ u.cursor = at /\ u.region = s.region
      /\ u.saved = s.saved /\ u.keys = s.keys /\ u.stack = s.stack
  BY <1>1 DEF Sound, Framed, ScreenShape
<1>5. u.origin = s.origin
  BY <1>1 DEF Sound, Framed, ScreenShape
<1>6. Framed(u) /\ CursorOn(u)
  BY <1>3, <1>4, <1>5 DEF Sound, Framed, MarginsOn, SavedSound, KeysSound, CursorOn
<1>7. QED
  BY <1>4, <1>6 DEF ScreenKept, Sound, u

-----------------------------------------------------------------------------
(* What moves the cursor, changes the margins, the keys or the style *)

LEMMA SetCursorKept ==
  ASSUME NEW s, Sound(s), Regioned(s), NEW row \in Nat, NEW col \in Nat
  PROVE  ScreenKept(s, SetCursor(s, row, col)) /\ SetCursor(s, row, col).region = s.region
BY SetCursorPlaces DEF Sound

LEMMA LineFeedKept ==
  ASSUME NEW s, Sound(s), Regioned(s)
  PROVE  ScreenKept(s, LineFeed(s))
<1>1. s.cursor.row + 1 \in Nat /\ s.cursor.col \in Nat
  BY SoundNumbers
<1>2. ScreenKept(s, SetCursor(s, s.cursor.row + 1, s.cursor.col))
  BY <1>1, SetCursorKept
<1>3. QED
  BY <1>2, KeptSame DEF LineFeed

LEMMA ReverseIndexKept ==
  ASSUME NEW s, Sound(s), Regioned(s)
  PROVE  ScreenKept(s, ReverseIndex(s))
<1> DEFINE row == IF s.cursor.row = 0 THEN s.size.rows ELSE s.cursor.row - 1
<1>1. row \in Nat /\ s.cursor.col \in Nat
  BY SoundNumbers
<1>2. ReverseIndex(s) = s \/ ReverseIndex(s) = SetCursor(s, row, s.cursor.col)
  BY DEF ReverseIndex
<1> HIDE DEF row
<1>3. ScreenKept(s, SetCursor(s, row, s.cursor.col))
  BY <1>1, SetCursorKept
<1>4. QED
  BY <1>2, <1>3, KeptSame

LEMMA UpKept ==
  ASSUME NEW s, Sound(s), Regioned(s), NEW n \in Nat, NEW col \in Nat
  PROVE  ScreenKept(s, Up(s, n, col))
<1> DEFINE row == IF n > s.cursor.row THEN 0 ELSE s.cursor.row - n
<1>1. row \in Nat
  BY SoundNumbers
<1>2. Up(s, n, col) = SetCursor(s, row, col)
  BY DEF Up
<1> HIDE DEF row
<1>3. QED
  BY <1>1, <1>2, SetCursorKept

LEMMA DownKept ==
  ASSUME NEW s, Sound(s), Regioned(s), NEW n \in Nat, NEW col \in Nat
  PROVE  ScreenKept(s, Down(s, n, col))
<1>1. s.cursor.row + n \in Nat
  BY SoundNumbers
<1>2. QED
  BY <1>1, SetCursorKept DEF Down

LEMMA ForwardKept ==
  ASSUME NEW s, Sound(s), Regioned(s), NEW n \in Nat
  PROVE  ScreenKept(s, Forward(s, n))
<1>1. s.cursor.row \in Nat /\ s.cursor.col + n \in Nat
  BY SoundNumbers
<1>2. QED
  BY <1>1, SetCursorKept DEF Forward

LEMMA BackwardKept ==
  ASSUME NEW s, Sound(s), Regioned(s), NEW n \in Nat
  PROVE  ScreenKept(s, Backward(s, n))
<1> DEFINE col == IF n > s.cursor.col THEN 0 ELSE s.cursor.col - n
<1>1. s.cursor.row \in Nat /\ col \in Nat
  BY SoundNumbers
<1>2. Backward(s, n) = SetCursor(s, s.cursor.row, col)
  BY DEF Backward
<1> HIDE DEF col
<1>3. QED
  BY <1>1, <1>2, SetCursorKept

LEMMA MovedKept ==
  ASSUME NEW s, Sound(s), Regioned(s), NEW move \in Moves, NEW n \in Nat \ {0}
  PROVE  ScreenKept(s, Moved(s, move, n))
<1>1. s.cursor.row \in Nat /\ s.cursor.col \in Nat /\ n - 1 \in Nat /\ n \in Nat /\ 0 \in Nat
  BY SoundNumbers
<1>2. CASE move = "CUU"
  BY <1>1, <1>2, UpKept DEF Moved
<1>3. CASE move = "CUD"
  BY <1>1, <1>3, DownKept DEF Moved
<1>4. CASE move = "CUF"
  BY <1>1, <1>4, ForwardKept DEF Moved
<1>5. CASE move = "CUB"
  BY <1>1, <1>5, BackwardKept DEF Moved
<1>6. CASE move = "CPL"
  BY <1>1, <1>6, UpKept DEF Moved
<1>7. CASE move = "CNL"
  BY <1>1, <1>7, DownKept DEF Moved
<1>8. CASE move = "CHA"
  BY <1>1, <1>8, SetCursorKept DEF Moved
<1>9. CASE move = "VPA"
  BY <1>1, <1>9, CursorToKept DEF Moved
<1>10. CASE move = "LF"
  BY <1>10, LineFeedKept DEF Moved
<1>11. CASE move = "CR"
  BY <1>1, <1>11, SetCursorKept DEF Moved
<1>12. CASE move = "NEL"
  <2> DEFINE u == SetCursor(s, s.cursor.row, 0)
  <2>1. ScreenKept(s, u) /\ u.region = s.region
    BY <1>1, SetCursorKept
  <2>2. Moved(s, move, n) = LineFeed(u)
    BY <1>12 DEF Moved
  <2> HIDE DEF u
  <2>3. ScreenKept(u, LineFeed(u))
    BY <2>1, LineFeedKept DEF ScreenKept, Regioned
  <2>4. QED
    BY <2>1, <2>2, <2>3, KeptTwice
<1>13. CASE move = "RI"
  BY <1>13, ReverseIndexKept DEF Moved
<1>14. QED
  BY <1>2, <1>3, <1>4, <1>5, <1>6, <1>7, <1>8, <1>9, <1>10, <1>11, <1>12, <1>13 DEF Moves

LEMMA AlignKept ==
  ASSUME NEW s, Sound(s)
  PROVE  ScreenKept(s, Align(s))
<1> DEFINE bottom == s.size.rows
           region == [top |-> 0, bottom |-> bottom]
           r == [s EXCEPT !.region = region]
<1>1. Align(s) = SetCursor(r, 0, 0)
  BY DEF Align
<1>2. region \in [top : Nat, bottom : 1 .. s.size.rows] /\ region.top < region.bottom
  BY SoundNumbers
<1> HIDE DEF region
<1>3. /\ ScreenShape(r) /\ r.size = s.size /\ r.region = region /\ r.saved = s.saved
      /\ r.keys = s.keys /\ r.stack = s.stack
  BY DEF Sound, Framed, ScreenShape
<1>4. r.origin = s.origin
  BY DEF Sound, Framed, ScreenShape
<1> HIDE DEF r
<1>5. Framed(r) /\ Regioned(r)
  BY <1>2, <1>3, <1>4 DEF Sound, Framed, MarginsOn, SavedSound, KeysSound, Regioned
<1>6. ScreenKept(r, SetCursor(r, 0, 0))
  BY <1>5, SetCursorPlaces
<1>7. QED
  BY <1>1, <1>3, <1>6 DEF ScreenKept

\* What changes the flags and their stack alone
LEMMA NewKeysKept ==
  ASSUME NEW s, Sound(s), NEW keys \in AllKeys, NEW stack \in Seq(AllKeys), Len(stack) <= MaxStack,
         NEW u, u = [s EXCEPT !.keys = keys, !.stack = stack]
  PROVE  ScreenKept(s, u)
<1> DEFINE m == [s EXCEPT !.keys = keys]
<1>1. /\ ScreenShape(m) /\ m.size = s.size /\ m.cursor = s.cursor /\ m.region = s.region
      /\ m.saved = s.saved /\ m.keys = keys
  BY DEF Sound, Framed, ScreenShape
<1>2. m.origin = s.origin
  BY DEF Sound, Framed, ScreenShape
<1>3. u = [m EXCEPT !.stack = stack]
  BY DEF Sound, Framed, ScreenShape
<1> HIDE DEF m
<1>4. /\ ScreenShape(u) /\ u.size = m.size /\ u.cursor = m.cursor /\ u.region = m.region
      /\ u.saved = m.saved /\ u.keys = m.keys /\ u.stack = stack
  BY <1>1, <1>3 DEF ScreenShape
<1>5. u.origin = m.origin
  BY <1>1, <1>3 DEF ScreenShape
<1>6. SavedSound(u) /\ KeysSound(u)
  BY <1>1, <1>4 DEF SavedSound, KeysSound, Sound, Framed
<1>7. QED
  BY <1>1, <1>2, <1>4, <1>5, <1>6, KeptIf DEF Sound, Framed

LEMMA SetKeysKept ==
  ASSUME NEW s, Sound(s), NEW flags \in KeyFlags, NEW mode \in 1 .. 3
  PROVE  ScreenKept(s, SetKeys(s, flags, mode))
<1> DEFINE keys == CASE mode = 1 -> flags
                     [] mode = 2 -> s.keys \cup flags
                     [] mode = 3 -> s.keys \ flags
                     [] OTHER    -> s.keys
           u == SetKeys(s, flags, mode)
<1>1. keys = flags \/ keys = s.keys \cup flags \/ keys = s.keys \ flags
  OBVIOUS
<1>2. u = [s EXCEPT !.keys = keys]
  BY DEF SetKeys
<1> HIDE DEF keys
<1>3. keys \in AllKeys
  BY <1>1 DEF AllKeys, Sound, Framed, KeysSound
<1>4. u = [s EXCEPT !.keys = keys, !.stack = s.stack]
  BY <1>2 DEF Sound, Framed, ScreenShape
<1>5. s.stack \in Seq(AllKeys) /\ Len(s.stack) <= MaxStack
  BY DEF Sound, Framed, KeysSound
<1> HIDE DEF u
<1>6. QED
  BY <1>3, <1>4, <1>5, NewKeysKept DEF u

LEMMA PushKeysKept ==
  ASSUME NEW s, Sound(s), NEW flags \in KeyFlags
  PROVE  ScreenKept(s, PushKeys(s, flags))
<1> DEFINE left  == IF Len(s.stack) >= MaxStack THEN Tail(s.stack) ELSE s.stack
           stack == Append(left, s.keys)
           u == PushKeys(s, flags)
<1>1. s.stack \in Seq(AllKeys) /\ Len(s.stack) \in Nat /\ Len(s.stack) <= MaxStack /\ s.keys \in AllKeys
  BY LenProperties DEF Sound, Framed, KeysSound
<1>2. MaxStack \in Nat \ {0}
  BY TerminalAssumption
<1>5. left \in Seq(AllKeys) /\ Len(left) \in Nat /\ Len(left) < MaxStack
  <2>1. left \in Seq(AllKeys) /\ Len(left) < MaxStack
    <3>1. CASE Len(s.stack) >= MaxStack
      <4>1. s.stack # <<>>
        BY <1>2, <3>1
      <4>2. Tail(s.stack) \in Seq(AllKeys) /\ Len(Tail(s.stack)) = Len(s.stack) - 1
        BY <1>1, <4>1, HeadTailProperties
      <4>3. left = Tail(s.stack)
        BY <3>1
      <4> HIDE DEF left
      <4>4. QED
        BY <1>1, <1>2, <4>2, <4>3
    <3>2. CASE ~(Len(s.stack) >= MaxStack)
      <4>1. left = s.stack
        BY <3>2
      <4> HIDE DEF left
      <4>2. QED
        BY <1>1, <1>2, <3>2, <4>1
    <3>3. QED
      BY <3>1, <3>2
  <2> HIDE DEF left
  <2>2. QED
    BY <2>1, LenProperties
<1>6. u = [s EXCEPT !.stack = stack, !.keys = flags]
  BY DEF PushKeys
<1> HIDE DEF left
<1>7. stack \in Seq(AllKeys) /\ Len(stack) = Len(left) + 1
  BY <1>1, <1>5, AppendProperties
<1>8. Len(stack) <= MaxStack
  BY <1>2, <1>5, <1>7
<1> HIDE DEF stack, u
<1>9. flags \in AllKeys
  BY DEF AllKeys
<1>10. u = [s EXCEPT !.keys = flags, !.stack = stack]
  BY <1>6 DEF Sound, Framed, ScreenShape
<1>11. QED
  BY <1>7, <1>8, <1>9, <1>10, NewKeysKept DEF u

LEMMA PopKeysKept ==
  ASSUME NEW s, Sound(s), NEW n \in Nat
  PROVE  ScreenKept(s, PopKeys(s, n))
<1>1. /\ s.stack \in Seq(AllKeys) /\ Len(s.stack) \in Nat /\ Len(s.stack) <= MaxStack
      /\ s.keys \in AllKeys
  BY LenProperties DEF Sound, Framed, KeysSound
<1>2. MaxStack \in Nat
  BY TerminalAssumption
<1>3. CASE n = 0
  BY <1>3, KeptSame DEF PopKeys
<1>4. CASE n # 0 /\ n >= Len(s.stack)
  <2> DEFINE keys == {}
             stack == <<>>
  <2>1. PopKeys(s, n) = [s EXCEPT !.stack = stack, !.keys = keys]
    BY <1>4 DEF PopKeys
  <2>2. keys \in AllKeys /\ stack \in Seq(AllKeys) /\ Len(stack) <= MaxStack
    BY <1>2 DEF AllKeys
  <2> HIDE DEF keys, stack
  <2>3. PopKeys(s, n) = [s EXCEPT !.keys = keys, !.stack = stack]
    BY <2>1 DEF Sound, Framed, ScreenShape
  <2>4. QED
    BY <2>2, <2>3, NewKeysKept
<1>5. CASE n # 0 /\ ~(n >= Len(s.stack))
  <2> DEFINE left  == Len(s.stack) - n
             keys  == s.stack[left + 1]
             below == SubSeq(s.stack, 1, left)
             above == SubSeq(s.stack, left + 2, Len(s.stack))
             stack == below \o above
  <2>1. PopKeys(s, n) = [s EXCEPT !.keys = keys, !.stack = stack]
    BY <1>5 DEF PopKeys
  <2>2. left \in Nat /\ left + 1 \in 1 .. Len(s.stack) /\ left + 2 \in 1 .. Len(s.stack) + 1
    BY <1>1, <1>5
  <2>3. keys \in AllKeys
    BY <1>1, <2>2, ElementOfSeq
  <2>4. below \in Seq(AllKeys) /\ Len(below) = left
    BY <1>1, <2>2, SubSeqProperties
  <2>5. above \in Seq(AllKeys) /\ Len(above) = Len(s.stack) - (left + 1)
    BY <1>1, <2>2, SubSeqProperties
  <2> HIDE DEF keys, below, above
  <2>6. stack \in Seq(AllKeys) /\ Len(stack) = Len(below) + Len(above)
    BY <2>4, <2>5, ConcatProperties
  <2>7. Len(stack) <= MaxStack
    BY <1>1, <1>2, <2>2, <2>4, <2>5, <2>6
  <2> HIDE DEF stack
  <2>8. QED
    BY <2>1, <2>3, <2>6, <2>7, NewKeysKept
<1>6. QED
  BY <1>3, <1>4, <1>5

LEMMA SetStyleKept ==
  ASSUME NEW s, Sound(s), NEW style
  PROVE  ScreenKept(s, SetStyle(s, style))
<1> DEFINE new == IF style = 0 THEN 1 ELSE IF style >= 7 THEN s.style ELSE style
           u == SetStyle(s, style)
<1>1. u = [s EXCEPT !.style = new]
  BY DEF SetStyle
<1> HIDE DEF new, u
<1>2. /\ ScreenShape(u) /\ u.size = s.size /\ u.cursor = s.cursor /\ u.region = s.region
      /\ u.saved = s.saved /\ u.keys = s.keys /\ u.stack = s.stack
  BY <1>1 DEF Sound, Framed, ScreenShape
<1>3. u.origin = s.origin
  BY <1>1 DEF Sound, Framed, ScreenShape
<1>4. SavedSound(u) /\ KeysSound(u)
  BY <1>2 DEF SavedSound, KeysSound, Sound, Framed
<1>5. QED
  BY <1>2, <1>3, <1>4, KeptIf DEF Sound, Framed, u

LEMMA RegisterKept ==
  ASSUME NEW s, Sound(s), NEW how
  PROVE  ScreenKept(s, Register(s, how))
<1> DEFINE u == Register(s, how)
<1>1. u = [s EXCEPT !.seamless = how]
  BY DEF Register
<1> HIDE DEF u
<1>2. /\ ScreenShape(u) /\ u.size = s.size /\ u.cursor = s.cursor /\ u.region = s.region
      /\ u.saved = s.saved /\ u.keys = s.keys /\ u.stack = s.stack
  BY <1>1 DEF Sound, Framed, ScreenShape
<1>3. u.origin = s.origin
  BY <1>1 DEF Sound, Framed, ScreenShape
<1>4. SavedSound(u) /\ KeysSound(u)
  BY <1>2 DEF SavedSound, KeysSound, Sound, Framed
<1>5. QED
  BY <1>2, <1>3, <1>4, KeptIf DEF Sound, Framed, u

LEMMA RenditionKept ==
  ASSUME NEW s, Sound(s), NEW sgr
  PROVE  ScreenKept(s, [s EXCEPT !.sgr = sgr])
<1> DEFINE u == [s EXCEPT !.sgr = sgr]
<1> SUFFICES ScreenKept(s, u)
  OBVIOUS
<1>1. /\ ScreenShape(u) /\ u.size = s.size /\ u.cursor = s.cursor /\ u.region = s.region
      /\ u.saved = s.saved /\ u.keys = s.keys /\ u.stack = s.stack
  BY DEF Sound, Framed, ScreenShape
<1>2. u.origin = s.origin
  BY DEF Sound, Framed, ScreenShape
<1> HIDE DEF u
<1>3. SavedSound(u) /\ KeysSound(u)
  BY <1>1 DEF SavedSound, KeysSound, Sound, Framed
<1>4. QED
  BY <1>1, <1>2, <1>3, KeptIf DEF Sound, Framed

LEMMA ResetScreenKept ==
  ASSUME NEW s, Sound(s)
  PROVE  ScreenKept(s, ResetScreen(s))
<1> DEFINE none  == <<>>
           style == 2
           off   == {}
           r0    == [s EXCEPT !.saved = none]
           r     == SetStyle(r0, style)
           clean == DefaultMargins(r)
           plain == [clean EXCEPT !.sgr = Plain]
           at    == [SaveCursor(s) EXCEPT !.origin = FALSE]
           back  == RestoreCursor(plain, at)
           k     == [back EXCEPT !.keys = off, !.stack = none]
           u     == ResetScreen(s)
<1>1. r = [s EXCEPT !.style = 2, !.saved = <<>>]
  <2> DEFINE two == 2
  <2>1. r = [r0 EXCEPT !.style = two]
    BY DEF SetStyle
  <2> HIDE DEF two, none
  <2>2. [r0 EXCEPT !.style = two] = [s EXCEPT !.style = two, !.saved = none]
    BY DEF Sound, Framed, ScreenShape
  <2>3. QED
    BY <2>1, <2>2 DEF two, none
<1>2. u = [back EXCEPT !.stack = none, !.keys = off, !.seamless = off]
  BY <1>1 DEF ResetScreen
<1>3. at.cursor = s.cursor /\ at.origin = FALSE
  BY DEF SaveCursor
<1>4. Len(none) = 0 /\ none = <<>> /\ none \in Seq(AllKeys) /\ off \in AllKeys
  BY DEF AllKeys
<1>5. style = 2
  OBVIOUS
<1> HIDE DEF none, off, style
<1>6. ScreenKept(s, r0)
  <2>1. /\ ScreenShape(r0) /\ r0.size = s.size /\ r0.cursor = s.cursor /\ r0.region = s.region
        /\ r0.saved = none /\ r0.keys = s.keys /\ r0.stack = s.stack
    BY DEF Sound, Framed, ScreenShape
  <2>2. r0.origin = s.origin
    BY DEF Sound, Framed, ScreenShape
  <2> HIDE DEF r0
  <2>3. SavedSound(r0) /\ KeysSound(r0)
    BY <1>4, <2>1 DEF SavedSound, KeysSound, Sound, Framed
  <2>4. QED
    BY <2>1, <2>2, <2>3, KeptIf DEF Sound, Framed
<1> HIDE DEF r0
<1>7. ScreenKept(r0, r)
  BY <1>6, SetStyleKept DEF ScreenKept
<1>8. ScreenKept(s, r)
  BY <1>6, <1>7, KeptTwice
<1> HIDE DEF r
<1>9. Sound(r) /\ Framed(r) /\ 1 \in Nat /\ r.size.rows \in Nat
  BY <1>8, SoundNumbers DEF ScreenKept, Sound
<1>10. ScreenKept(r, clean)
  BY <1>9, MarginsKept, KeptSame DEF DefaultMargins
<1> HIDE DEF clean
<1>11. ScreenKept(s, clean) /\ Sound(clean)
  BY <1>8, <1>10, KeptTwice DEF ScreenKept
<1>12. ScreenKept(clean, plain)
  BY <1>11, RenditionKept
<1> HIDE DEF plain
<1>13. ScreenKept(s, plain) /\ Framed(plain)
  BY <1>11, <1>12, KeptTwice DEF ScreenKept, Sound
<1>14. at.cursor \in SavedCursors
  BY <1>3 DEF Sound, CursorOn, SavedCursors
<1>15. at.origin \in BOOLEAN /\ (at.origin = TRUE => Regioned(plain))
  BY <1>3
<1> HIDE DEF at
<1>16. ScreenKept(plain, back)
  BY <1>13, <1>14, <1>15, RestoreCursorKept
<1> HIDE DEF back
<1>17. ScreenKept(s, back) /\ Sound(back)
  BY <1>13, <1>16, KeptTwice DEF ScreenKept
<1>18. Len(none) <= MaxStack
  BY <1>4, TerminalAssumption
<1>19. ScreenKept(back, k)
  BY <1>4, <1>17, <1>18, NewKeysKept
<1>20. u = [k EXCEPT !.seamless = off]
  BY <1>2, <1>17 DEF Sound, Framed, ScreenShape
<1> HIDE DEF k, u
<1>21. u = Register(k, off)
  BY <1>20 DEF Register
<1>22. ScreenKept(k, u)
  BY <1>19, <1>21, RegisterKept DEF ScreenKept
<1>23. QED
  BY <1>17, <1>19, <1>22, KeptTwice DEF u

-----------------------------------------------------------------------------
(* New screens, and screens of another size *)

LEMMA NewScreenSound ==
  ASSUME NEW size \in SizeSet
  PROVE  Sound(NewScreen(size)) /\ NewScreen(size).size = size /\ Regioned(NewScreen(size))
<1> DEFINE none   == <<>>
           cursor == [row |-> 0, col |-> 0, over |-> FALSE]
           off    == {}
           bottom == size.rows
           region == [top |-> 0, bottom |-> bottom]
           u      == NewScreen(size)
<1>1. u = [size |-> size, cursor |-> cursor, origin |-> FALSE, region |-> region, sgr |-> Plain,
           saved |-> none, style |-> 6, keys |-> off, stack |-> none, seamless |-> off]
  BY DEF NewScreen
<1>2. size.rows \in Nat \ {0} /\ size.cols \in Nat \ {0}
  BY DEF SizeSet
<1>3. cursor \in [row : 0 .. size.rows - 1, col : 0 .. size.cols - 1, over : BOOLEAN]
  BY <1>2
<1>4. region \in [top : Nat, bottom : 1 .. size.rows] /\ region.top < region.bottom
  BY <1>2
<1>5. Len(none) = 0 /\ none = <<>> /\ none \in Seq(AllKeys) /\ off \in AllKeys
  BY DEF AllKeys
<1>6. Len(none) <= MaxStack
  BY <1>5, TerminalAssumption
<1> HIDE DEF none, cursor, off, region, u
<1>7. /\ ScreenShape(u) /\ u.size = size /\ u.cursor = cursor /\ u.region = region
      /\ u.saved = none /\ u.keys = off /\ u.stack = none
  BY <1>1 DEF ScreenShape
<1>8. u.origin = FALSE
  BY <1>1
<1>9. SavedSound(u) /\ KeysSound(u)
  BY <1>5, <1>6, <1>7 DEF SavedSound, KeysSound
<1>10. MarginsOn(u) /\ CursorOn(u) /\ Regioned(u)
  BY <1>3, <1>4, <1>7 DEF MarginsOn, CursorOn, Regioned
<1>11. QED
  BY <1>7, <1>8, <1>9, <1>10 DEF Sound, Framed, u

\* The size is the new one, unless it differs in the size of a cell only.
ResizedTo(s, size, u) ==
  /\ Sound(u) /\ Kept(u) = Kept(s)
  /\ ~OnlyPixels(s.size, size) => u.size = size

LEMMA ResizedSound ==
  ASSUME NEW s, Sound(s), NEW size \in SizeSet, NEW isPrimary \in BOOLEAN,
         NEW u \in Resized(s, size, isPrimary)
  PROVE  ResizedTo(s, size, u)
<1> DEFINE bottom == IF s.region.bottom = s.size.rows THEN size.rows
                     ELSE Least(s.region.bottom, size.rows)
           region == [s.region EXCEPT !.bottom = bottom]
           At(cursor) == ResizedAt(s, size, cursor)
           Cursors == [row : 0 .. size.rows - 1, col : 0 .. size.cols - 1, over : BOOLEAN]
           shrunk == [s.cursor EXCEPT !.row = Least(@, size.rows - 1),
                                      !.col = Least(@, size.cols - 1)]
<1>1. size.rows \in Nat \ {0} /\ size.cols \in Nat \ {0} /\ size.cell \in Nat
  BY DEF SizeSet
<1>2. bottom \in 1 .. size.rows
  BY <1>1, SoundNumbers DEF Least
<1>3. ASSUME s.size.rows = size.rows, s.size.cols = size.cols
      PROVE  OnlyPixels(s.size, size) \/ s.size = size
  BY <1>3 DEF OnlyPixels
<1>4. CASE s.size.rows = size.rows /\ s.size.cols = size.cols
  BY <1>3, <1>4 DEF Resized, ResizedTo
<1>5. CASE ~(s.size.rows = size.rows /\ s.size.cols = size.cols)
  <2>1. shrunk \in Cursors
    <3> DEFINE row == Least(s.cursor.row, size.rows - 1)
               col == Least(s.cursor.col, size.cols - 1)
    <3>1. row \in 0 .. size.rows - 1 /\ col \in 0 .. size.cols - 1
      BY <1>1, SoundNumbers DEF Least
    <3>2. shrunk = [s.cursor EXCEPT !.row = row, !.col = col]
      OBVIOUS
    <3> HIDE DEF row, col, shrunk
    <3>3. QED
      BY <3>1, <3>2 DEF Sound, CursorOn
  <2>2. \A r \in 0 .. size.rows - 1, c \in 0 .. size.cols - 1 :
          [row |-> r, col |-> c, over |-> FALSE] \in Cursors
    OBVIOUS
  <2> DEFINE Anywhere == {At([row |-> r, col |-> c, over |-> FALSE]) :
                            r \in 0 .. size.rows - 1, c \in 0 .. size.cols - 1}
  <2>3. Resized(s, size, isPrimary) = IF isPrimary THEN Anywhere ELSE {At(shrunk)}
    <3>1. Resized(s, size, isPrimary) =
            IF s.size.rows = size.rows /\ s.size.cols = size.cols THEN {s}
            ELSE IF isPrimary THEN Anywhere ELSE {At(shrunk)}
      BY DEF Resized
    <3> HIDE DEF Anywhere, At, shrunk
    <3>2. QED
      BY <1>5, <3>1
  <2>4. \E cursor \in Cursors : u = At(cursor)
    <3>1. ASSUME u \in Anywhere
          PROVE  \E cursor \in Cursors : u = At(cursor)
      <4> HIDE DEF At, Cursors, bottom, shrunk
      <4>1. PICK r \in 0 .. size.rows - 1, c \in 0 .. size.cols - 1 :
                   u = At([row |-> r, col |-> c, over |-> FALSE])
        BY <3>1
      <4>2. QED
        BY <2>2, <4>1
    <3> HIDE DEF shrunk, At, Cursors, Anywhere
    <3>2. u \in Anywhere \/ u = At(shrunk)
      BY <2>3
    <3>3. QED
      BY <2>1, <3>1, <3>2
  <2>5. PICK cursor \in Cursors : u = At(cursor)
    BY <2>4
  <2>6. region \in [top : Nat, bottom : 1 .. size.rows]
    <3> HIDE DEF bottom
    <3>1. QED
      BY <1>2 DEF Sound, Framed, MarginsOn
  <2>7. region.top = s.region.top
    <3> HIDE DEF bottom
    <3>1. QED
      BY DEF Sound, Framed, MarginsOn
  <2>8. u = [s EXCEPT !.size = size, !.region = region, !.cursor = cursor]
    <3>1. u = [s EXCEPT !.size = size, !.cursor = cursor, !.region.bottom = bottom]
      BY <2>5 DEF ResizedAt
    <3> HIDE DEF bottom
    <3>2. QED
      BY <3>1 DEF Sound, Framed, ScreenShape
  <2> HIDE DEF region
  <2>9. /\ ScreenShape(u) /\ u.size = size /\ u.cursor = cursor /\ u.region = region
        /\ u.saved = s.saved /\ u.keys = s.keys /\ u.stack = s.stack
    BY <2>8 DEF Sound, Framed, ScreenShape
  <2>10. u.origin = s.origin
    BY <2>8 DEF Sound, Framed, ScreenShape
  <2>11. u.sgr = s.sgr /\ u.style = s.style /\ u.seamless = s.seamless
    BY <2>8 DEF Sound, Framed, ScreenShape
  <2>12. MarginsOn(u) /\ CursorOn(u)
    BY <2>5, <2>6, <2>9 DEF MarginsOn, CursorOn
  <2>13. SavedSound(u) /\ KeysSound(u)
    BY <2>9 DEF SavedSound, KeysSound, Sound, Framed
  <2>14. Sound(u)
    BY <2>9, <2>10, <2>12, <2>13 DEF Sound, Framed
  <2>15. u.region.top = s.region.top
    BY <2>7, <2>9
  <2>16. Kept(u) = Kept(s)
    BY <2>9, <2>10, <2>11, <2>15 DEF Kept
  <2>17. QED
    BY <2>9, <2>14, <2>16 DEF ResizedTo
<1>6. QED
  BY <1>4, <1>5

-----------------------------------------------------------------------------
(* The terminal: its screens and its settings *)

TerminalShape(t) ==
  t = [screens |-> t.screens, visible |-> t.visible, told |-> t.told, reported |-> t.reported,
       columns |-> t.columns, allowed |-> t.allowed, forced |-> t.forced,
       allowForce |-> t.allowForce, on |-> t.on, inBand |-> t.inBand, protocol |-> t.protocol,
       encoding |-> t.encoding, shift |-> t.shift, tabs |-> t.tabs, osc |-> t.osc]

\* The primary screen, and the alternate one after it
Stacked(t) == t.screens = <<t.screens[1]>> \/ t.screens = <<t.screens[1], t.screens[2]>>

ScreensSound(t) == Sound(Active(t)) /\ Sound(t.screens[1])
SettingsOK(t) ==
  /\ t.visible \in SizeSet /\ t.tabs \in SUBSET Nat
  /\ t.columns \in {0, NarrowCols, WideCols}
  /\ t.protocol \in {0, 9} \cup Protocols /\ t.encoding \in {0} \cup Encodings

Typed(t)  == TerminalShape(t) /\ Stacked(t) /\ ScreensSound(t) /\ SettingsOK(t)
InOrder(t) == Regioned(Active(t)) /\ Regioned(t.screens[1])

\* The parts of SizeTold
ToldOK(t)  == t.told = Active(t).size /\ (t.inBand => t.reported = Active(t).size)
PaneSize(t)   == t.columns = 0 /\ ~t.forced => Active(t).size = t.visible
ColumnSize(t) == t.columns # 0 => t.allowed /\ Active(t).size.cols = t.columns
Fits(t)    == ToldOK(t) /\ PaneSize(t) /\ ColumnSize(t)

SameSettings(t, v) ==
  /\ v.visible = t.visible /\ v.columns = t.columns
  /\ v.protocol = t.protocol /\ v.encoding = t.encoding /\ v.tabs = t.tabs
SameChoice(t, v) == v.allowed = t.allowed /\ v.forced = t.forced
SameTold(t, v)   == v.told = t.told /\ v.reported = t.reported
SameBand(t, v)   == v.inBand = t.inBand
SamePlace(t, v)  == Len(v.screens) = Len(t.screens)

\* PrimaryKept, between two states
PrimaryStays(t, v) ==
  InAlternate(t) => IF InAlternate(v) THEN v.screens[1] = t.screens[1]
                    ELSE Kept(v.screens[1]) = Kept(t.screens[1])

\* What is shown of each handler
Stays(t, v) ==
  /\ Typed(v) /\ PrimaryStays(t, v)
  /\ Fits(t) /\ ~MixesPixels(t, v) => Fits(v)

LEMMA Places ==
  ASSUME NEW t, Stacked(t)
  PROVE  \/ /\ Len(t.screens) = 1 /\ Active(t) = t.screens[1] /\ DOMAIN t.screens = 1 .. 1
            /\ t.screens = <<t.screens[1]>>
         \/ /\ Len(t.screens) = 2 /\ Active(t) = t.screens[2] /\ DOMAIN t.screens = 1 .. 2
            /\ t.screens = <<t.screens[1], t.screens[2]>>
<1>1. \A a : Len(<<a>>) = 1 /\ DOMAIN <<a>> = 1 .. 1
  OBVIOUS
<1>2. \A a, b : Len(<<a, b>>) = 2 /\ DOMAIN <<a, b>> = 1 .. 2
  OBVIOUS
<1>3. CASE t.screens = <<t.screens[1]>>
  <2>1. Len(t.screens) = 1 /\ DOMAIN t.screens = 1 .. 1
    BY <1>1, <1>3
  <2>2. Active(t) = t.screens[1]
    BY <2>1 DEF Active
  <2>3. QED
    BY <1>3, <2>1, <2>2
<1>4. CASE t.screens = <<t.screens[1], t.screens[2]>>
  <2>1. Len(t.screens) = 2 /\ DOMAIN t.screens = 1 .. 2
    BY <1>2, <1>4
  <2>2. Active(t) = t.screens[2]
    BY <2>1 DEF Active
  <2>3. QED
    BY <1>4, <2>1, <2>2
<1>5. QED
  BY <1>3, <1>4 DEF Stacked

LEMMA WithActivePlaces ==
  ASSUME NEW t, TerminalShape(t), Stacked(t), NEW s
  PROVE  LET v == WithActive(t, s)
         IN  /\ TerminalShape(v) /\ Stacked(v) /\ SamePlace(t, v) /\ Active(v) = s
             /\ SameSettings(t, v) /\ SameChoice(t, v) /\ SameTold(t, v) /\ SameBand(t, v)
             /\ (InAlternate(t) => v.screens[1] = t.screens[1])
             /\ (~InAlternate(t) => v.screens[1] = s)
<1> DEFINE last == Len(t.screens)
           screens == [t.screens EXCEPT ![last] = s]
           v == WithActive(t, s)
<1>1. v = [t EXCEPT !.screens = screens]
  BY DEF WithActive
<1>2. \A a : [<<a>> EXCEPT ![1] = s] = <<s>>
  OBVIOUS
<1>3. \A a, b : [<<a, b>> EXCEPT ![2] = s] = <<a, s>>
  OBVIOUS
<1>4. \/ last = 1 /\ screens = <<s>>
      \/ last = 2 /\ screens = <<t.screens[1], s>>
  <2>1. CASE last = 1 /\ t.screens = <<t.screens[1]>>
    BY <1>2, <2>1
  <2>2. CASE last = 2 /\ t.screens = <<t.screens[1], t.screens[2]>>
    BY <1>3, <2>2
  <2>3. QED
    BY <2>1, <2>2, Places
<1> HIDE DEF screens, v
<1>5. TerminalShape(v) /\ v.screens = screens
  BY <1>1 DEF TerminalShape
<1>6. SameSettings(t, v) /\ SameTold(t, v)
  BY <1>1 DEF TerminalShape, SameSettings, SameTold
<1>7. SameChoice(t, v)
  BY <1>1 DEF TerminalShape, SameChoice
<1>8. SameBand(t, v)
  BY <1>1 DEF TerminalShape, SameBand
<1>9. CASE last = 1 /\ screens = <<s>>
  <2>1. v.screens = <<s>> /\ v.screens[1] = s /\ Len(v.screens) = 1
    BY <1>5, <1>9
  <2>2. Active(v) = s /\ Stacked(v) /\ SamePlace(t, v)
    BY <1>9, <2>1 DEF Active, Stacked, SamePlace
  <2>3. ~InAlternate(t)
    BY <1>9 DEF InAlternate
  <2>4. QED
    BY <1>5, <1>6, <1>7, <1>8, <2>1, <2>2, <2>3 DEF v
<1>10. CASE last = 2 /\ screens = <<t.screens[1], s>>
  <2>1. /\ v.screens = <<t.screens[1], s>> /\ v.screens[1] = t.screens[1]
        /\ v.screens[2] = s /\ Len(v.screens) = 2
    BY <1>5, <1>10
  <2>2. Active(v) = s /\ Stacked(v) /\ SamePlace(t, v)
    BY <1>10, <2>1 DEF Active, Stacked, SamePlace
  <2>3. InAlternate(t)
    BY <1>10 DEF InAlternate
  <2>4. QED
    BY <1>5, <1>6, <1>7, <1>8, <2>1, <2>2, <2>3 DEF v
<1>11. QED
  BY <1>4, <1>9, <1>10

\* What acts on the screen in use
LEMMA WithActiveTyped ==
  ASSUME NEW t, Typed(t), NEW s, Sound(s)
  PROVE  LET v == WithActive(t, s)
         IN  Typed(v) /\ PrimaryStays(t, v) /\ Active(v) = s
<1> DEFINE v == WithActive(t, s)
<1> SUFFICES Typed(v) /\ PrimaryStays(t, v) /\ Active(v) = s
  OBVIOUS
<1>1. TerminalShape(t) /\ Stacked(t) /\ Sound(t.screens[1])
  BY DEF Typed, ScreensSound
<1>2. /\ TerminalShape(v) /\ Stacked(v) /\ SamePlace(t, v) /\ Active(v) = s /\ SameSettings(t, v)
      /\ (InAlternate(t) => v.screens[1] = t.screens[1])
      /\ (~InAlternate(t) => v.screens[1] = s)
  BY <1>1, WithActivePlaces
<1> HIDE DEF v
<1>3. ScreensSound(v)
  BY <1>1, <1>2 DEF ScreensSound
<1>4. SettingsOK(v)
  BY <1>2 DEF Typed, SettingsOK, SameSettings
<1>5. PrimaryStays(t, v)
  BY <1>2 DEF PrimaryStays, SamePlace, InAlternate
<1>6. QED
  BY <1>2, <1>3, <1>4, <1>5 DEF Typed

LEMMA WithActiveStays ==
  ASSUME NEW t, Typed(t), NEW s, ScreenKept(Active(t), s)
  PROVE  Stays(t, WithActive(t, s))
<1> DEFINE v == WithActive(t, s)
<1> SUFFICES Stays(t, v)
  OBVIOUS
<1>1. Typed(v) /\ PrimaryStays(t, v) /\ Active(v) = s
  BY WithActiveTyped DEF ScreenKept
<1>2. /\ SameSettings(t, v) /\ SameChoice(t, v) /\ SameTold(t, v) /\ SameBand(t, v)
  BY WithActivePlaces DEF Typed
<1> HIDE DEF v
<1>3. Active(v).size = Active(t).size
  BY <1>1 DEF ScreenKept
<1>4. ToldOK(t) => ToldOK(v)
  BY <1>2, <1>3 DEF ToldOK, SameTold, SameBand
<1>5. PaneSize(t) => PaneSize(v)
  BY <1>2, <1>3 DEF PaneSize, SameSettings, SameChoice
<1>6. ColumnSize(t) => ColumnSize(v)
  BY <1>2, <1>3 DEF ColumnSize, SameSettings, SameChoice
<1>7. QED
  BY <1>1, <1>4, <1>5, <1>6 DEF Stays, Fits

\* What changes settings only
LEMMA SettingTyped ==
  ASSUME NEW t, Typed(t), NEW v, TerminalShape(v), v.screens = t.screens, SettingsOK(v)
  PROVE  /\ Typed(v) /\ PrimaryStays(t, v) /\ Active(v) = Active(t)
         /\ SamePlace(t, v) /\ v.screens[1] = t.screens[1]
<1>1. Active(v) = Active(t) /\ v.screens[1] = t.screens[1] /\ Stacked(v)
  BY DEF Active, Typed, Stacked
<1>2. Typed(v)
  BY <1>1 DEF Typed, ScreensSound
<1>3. SamePlace(t, v) /\ PrimaryStays(t, v)
  BY DEF PrimaryStays, SamePlace, InAlternate
<1>4. QED
  BY <1>1, <1>2, <1>3

LEMMA SettingStays ==
  ASSUME NEW t, Typed(t), NEW v, TerminalShape(v), v.screens = t.screens, SettingsOK(v),
         v.visible = t.visible, v.columns = t.columns,
         SameChoice(t, v), SameTold(t, v), SameBand(t, v)
  PROVE  Stays(t, v)
<1>1. Typed(v) /\ PrimaryStays(t, v) /\ Active(v) = Active(t)
  BY SettingTyped
<1>2. ToldOK(t) => ToldOK(v)
  BY <1>1 DEF ToldOK, SameTold, SameBand
<1>3. PaneSize(t) => PaneSize(v)
  BY <1>1 DEF PaneSize, SameChoice
<1>4. ColumnSize(t) => ColumnSize(v)
  BY <1>1 DEF ColumnSize, SameChoice
<1>5. QED
  BY <1>1, <1>2, <1>3, <1>4 DEF Stays, Fits

LEMMA SameStays ==
  ASSUME NEW t, Typed(t)
  PROVE  Stays(t, t)
BY DEF Stays, PrimaryStays

-----------------------------------------------------------------------------
(* The size of the terminal *)

ResizedWell(t, size, v) ==
  /\ Typed(v) /\ PrimaryStays(t, v) /\ SamePlace(t, v)
  /\ SameSettings(t, v) /\ SameChoice(t, v) /\ SameBand(t, v)
  /\ ToldOK(t) /\ ~OnlyPixels(Active(t).size, size) => ToldOK(v) /\ Active(v).size = size

\* A new size is told to the program.
LEMMA ResizeTells ==
  ASSUME NEW t, Typed(t), NEW size \in SizeSet, NEW v \in Resize(t, size)
  PROVE  ResizedWell(t, size, v)
<1>1. CASE Active(t).size = size
  <2>1. v = t
    BY <1>1 DEF Resize
  <2>2. SameSettings(t, t) /\ SameChoice(t, t) /\ SameBand(t, t) /\ SamePlace(t, t)
    BY DEF SameSettings, SameChoice, SameBand, SamePlace
  <2>3. PrimaryStays(t, t)
    BY DEF PrimaryStays
  <2>4. QED
    BY <1>1, <2>1, <2>2, <2>3 DEF ResizedWell
<1>2. CASE Active(t).size # size
  <2> DEFINE isPrimary == ~InAlternate(t)
             To(s) == [WithActive(t, s) EXCEPT !.told = size,
                                               !.reported = IF t.inBand THEN size ELSE @]
  <2>1. Resize(t, size) = {To(s) : s \in Resized(Active(t), size, isPrimary)}
    BY <1>2 DEF Resize
  <2>2. isPrimary \in BOOLEAN
    OBVIOUS
  <2> HIDE DEF To, isPrimary
  <2>3. PICK s \in Resized(Active(t), size, isPrimary) : v = To(s)
    BY <2>1
  <2>4. Sound(Active(t))
    BY DEF Typed, ScreensSound
  <2>5. ResizedTo(Active(t), size, s)
    BY <2>2, <2>4, ResizedSound
  <2> DEFINE w == WithActive(t, s)
             report == IF t.inBand THEN size ELSE w.reported
  <2>6. Typed(w) /\ PrimaryStays(t, w) /\ Active(w) = s
    BY <2>5, WithActiveTyped DEF ResizedTo
  <2>7. SamePlace(t, w) /\ SameSettings(t, w) /\ SameChoice(t, w) /\ SameBand(t, w)
    BY WithActivePlaces DEF Typed
  <2>8. v = [w EXCEPT !.told = size, !.reported = report]
    BY <2>3 DEF To
  <2>9. t.inBand => report = size
    OBVIOUS
  <2> HIDE DEF w, report
  <2>10. TerminalShape(v) /\ v.screens = w.screens /\ v.told = size /\ v.reported = report
    BY <2>6, <2>8 DEF Typed, TerminalShape
  <2>11. SameSettings(w, v)
    BY <2>6, <2>8 DEF Typed, TerminalShape, SameSettings
  <2>12. SameChoice(w, v)
    BY <2>6, <2>8 DEF Typed, TerminalShape, SameChoice
  <2>13. SameBand(w, v)
    BY <2>6, <2>8 DEF Typed, TerminalShape, SameBand
  <2>14. SettingsOK(v)
    BY <2>6, <2>11 DEF Typed, SettingsOK, SameSettings
  <2>15. Typed(v) /\ Active(v) = s /\ SamePlace(w, v) /\ v.screens[1] = w.screens[1]
    BY <2>6, <2>10, <2>14, SettingTyped
  <2>16. PrimaryStays(t, v) /\ SamePlace(t, v)
    BY <2>6, <2>7, <2>15 DEF PrimaryStays, SamePlace, InAlternate
  <2>17. SameSettings(t, v) /\ SameChoice(t, v)
    BY <2>7, <2>11, <2>12 DEF SameSettings, SameChoice
  <2>18. SameBand(t, v)
    BY <2>7, <2>13 DEF SameBand
  <2>19. ASSUME ~OnlyPixels(Active(t).size, size)
         PROVE  ToldOK(v) /\ Active(v).size = size
    <3>1. Active(v).size = size
      BY <2>5, <2>15, <2>19 DEF ResizedTo
    <3>2. v.inBand => v.reported = size
      BY <2>9, <2>10, <2>18 DEF SameBand
    <3>3. QED
      BY <2>10, <3>1, <3>2 DEF ToldOK
  <2>20. QED
    BY <2>15, <2>16, <2>17, <2>18, <2>19 DEF ResizedWell
<1>3. QED
  BY <1>1, <1>2

\* The sizes that differ in the size of a cell only
LEMMA MixedSizes ==
  ASSUME NEW t, Stacked(t), NEW v, ~MixesPixels(t, v)
  PROVE  /\ ~OnlyPixels(Active(t).size, v.visible) /\ ~OnlyPixels(t.screens[1].size, v.visible)
         /\ ~OnlyPixels(t.screens[1].size, Active(t).size)
<1>1. /\ ~OnlyPixels(t.screens[1].size, Active(t).size)
      /\ \A i \in DOMAIN t.screens : ~OnlyPixels(t.screens[i].size, v.visible)
  BY DEF MixesPixels
<1>2. 1 \in DOMAIN t.screens
  BY Places
<1>3. \E i \in DOMAIN t.screens : Active(t) = t.screens[i]
  <2>1. CASE Len(t.screens) = 1 /\ Active(t) = t.screens[1] /\ DOMAIN t.screens = 1 .. 1
    BY <2>1
  <2>2. CASE Len(t.screens) = 2 /\ Active(t) = t.screens[2] /\ DOMAIN t.screens = 1 .. 2
    BY <2>2
  <2>3. QED
    BY <2>1, <2>2, Places
<1>4. QED
  BY <1>1, <1>2, <1>3

LEMMA SetVisibleSizeStays ==
  ASSUME NEW t, Typed(t), NEW size \in SizeSet, NEW v \in SetVisibleSize(t, size)
  PROVE  Stays(t, v)
<1>1. CASE t.visible = size
  BY <1>1, SameStays DEF SetVisibleSize
<1>2. CASE t.visible # size
  <2> DEFINE u == [t EXCEPT !.visible = size]
  <2>1. v \in (IF t.columns # 0 \/ t.forced THEN {u} ELSE Resize(u, size))
    BY <1>2 DEF SetVisibleSize
  <2> HIDE DEF u
  <2>2. /\ TerminalShape(u) /\ u.screens = t.screens /\ u.visible = size /\ u.columns = t.columns
        /\ u.tabs = t.tabs /\ u.protocol = t.protocol /\ u.encoding = t.encoding
    BY DEF Typed, TerminalShape, u
  <2>3. SameTold(t, u)
    BY DEF Typed, TerminalShape, u, SameTold
  <2>4. SameChoice(t, u)
    BY DEF Typed, TerminalShape, u, SameChoice
  <2>5. SameBand(t, u)
    BY DEF Typed, TerminalShape, u, SameBand
  <2>6. SettingsOK(u)
    BY <2>2 DEF Typed, SettingsOK
  <2>7. /\ Typed(u) /\ PrimaryStays(t, u) /\ Active(u) = Active(t) /\ SamePlace(t, u)
        /\ u.screens[1] = t.screens[1]
    BY <2>2, <2>6, SettingTyped
  <2>8. ToldOK(t) => ToldOK(u)
    BY <2>3, <2>5, <2>7 DEF ToldOK, SameTold, SameBand
  <2>9. ColumnSize(t) => ColumnSize(u)
    BY <2>2, <2>4, <2>7 DEF ColumnSize, SameChoice
  <2>10. CASE t.columns # 0 \/ t.forced
    <3>1. v = u
      BY <2>1, <2>10
    <3>2. PaneSize(u)
      BY <2>2, <2>4, <2>10 DEF PaneSize, SameChoice
    <3>3. QED
      BY <2>7, <2>8, <2>9, <3>1, <3>2 DEF Stays, Fits
  <2>11. CASE ~(t.columns # 0 \/ t.forced)
    <3>1. v \in Resize(u, size)
      BY <2>1, <2>11
    <3>2. ResizedWell(u, size, v)
      BY <2>7, <3>1, ResizeTells
    <3>3. Typed(v) /\ PrimaryStays(t, v)
      BY <2>7, <3>2 DEF ResizedWell, PrimaryStays, SamePlace, InAlternate
    <3>4. v.visible = size /\ v.columns = 0
      BY <2>2, <2>11, <3>2 DEF ResizedWell, SameSettings
    <3>5. ASSUME Fits(t), ~MixesPixels(t, v)
          PROVE  Fits(v)
      <4>1. ~OnlyPixels(Active(u).size, size)
        BY <2>7, <3>4, <3>5, MixedSizes DEF Typed
      <4>2. ToldOK(v) /\ Active(v).size = size
        BY <2>8, <3>2, <3>5, <4>1 DEF ResizedWell, Fits
      <4>3. QED
        BY <3>4, <4>2 DEF Fits, PaneSize, ColumnSize
    <3>6. QED
      BY <3>3, <3>5 DEF Stays
  <2>12. QED
    BY <2>10, <2>11
<1>3. QED
  BY <1>1, <1>2

LEMMA ClearedKept ==
  ASSUME NEW s, Sound(s)
  PROVE  ScreenKept(s, [s EXCEPT !.cursor.over = FALSE])
<1> DEFINE over == FALSE
           at == [s.cursor EXCEPT !.over = over]
           u == [s EXCEPT !.cursor.over = FALSE]
<1> SUFFICES ScreenKept(s, u)
  OBVIOUS
<1>1. u = [s EXCEPT !.cursor = at]
  BY DEF Sound, Framed, ScreenShape
<1>2. over \in BOOLEAN
  OBVIOUS
<1> HIDE DEF over
<1>3. at \in [row : 0 .. s.size.rows - 1, col : 0 .. s.size.cols - 1, over : BOOLEAN]
  BY <1>2 DEF Sound, CursorOn
<1> HIDE DEF at, u
<1>4. /\ ScreenShape(u) /\ u.size = s.size /\ u.cursor = at /\ u.region = s.region
      /\ u.saved = s.saved /\ u.keys = s.keys /\ u.stack = s.stack
  BY <1>1 DEF Sound, Framed, ScreenShape
<1>5. u.origin = s.origin
  BY <1>1 DEF Sound, Framed, ScreenShape
<1>6. Framed(u) /\ CursorOn(u)
  BY <1>3, <1>4, <1>5 DEF Sound, Framed, MarginsOn, SavedSound, KeysSound, CursorOn
<1>7. QED
  BY <1>4, <1>6 DEF ScreenKept, Sound

LEMMA DefaultMarginsKept ==
  ASSUME NEW s, Sound(s)
  PROVE  ScreenKept(s, DefaultMargins(s))
<1>1. Framed(s) /\ 1 \in Nat /\ s.size.rows \in Nat
  BY SoundNumbers DEF Sound
<1>2. QED
  BY <1>1, MarginsKept, KeptSame DEF DefaultMargins

\* The size of 80 or 132 columns is not one in pixels.
LEMMA SetColumnsStays ==
  ASSUME NEW t, Typed(t), NEW cols \in {NarrowCols, WideCols}, NEW v \in SetColumns(t, cols)
  PROVE  Stays(t, v)
<1>1. CASE ~t.allowed
  BY <1>1, SameStays DEF SetColumns
<1>2. CASE t.allowed
  <2> DEFINE c == [t EXCEPT !.columns = cols]
             cleared == [Active(c) EXCEPT !.cursor.over = FALSE]
             u == Cleared(c)
             old == Active(t).size
             size == [old EXCEPT !.rows = PageRows, !.cols = cols]
  <2>1. SetColumns(t, cols) = {Unscroll(w) : w \in Resize(u, size)}
    BY <1>2 DEF SetColumns
  <2>2. PageRows \in Nat \ {0} /\ cols \in Nat \ {0}
    BY TerminalAssumption
  <2>3. old \in SizeSet
    BY DEF Typed, ScreensSound, Sound, Framed
  <2>4. size \in SizeSet /\ size.cols = cols /\ size.rows = PageRows /\ size.cell = old.cell
    <3> HIDE DEF old
    <3>1. QED
      BY <2>2, <2>3 DEF SizeSet
  <2>5. old = [rows |-> old.rows, cols |-> old.cols, cell |-> old.cell]
    <3> HIDE DEF old
    <3>1. QED
      BY <2>3 DEF SizeSet
  <2>6. size = [rows |-> size.rows, cols |-> size.cols, cell |-> size.cell]
    <3> HIDE DEF old, size
    <3>1. QED
      BY <2>4 DEF SizeSet
  <2>7. ~OnlyPixels(old, size)
    <3> HIDE DEF old, size
    <3>1. QED
      BY <2>4, <2>5, <2>6 DEF OnlyPixels
  <2> HIDE DEF size, old, c
  <2>8. /\ TerminalShape(c) /\ c.screens = t.screens /\ c.visible = t.visible /\ c.columns = cols
        /\ c.tabs = t.tabs /\ c.protocol = t.protocol /\ c.encoding = t.encoding
    BY DEF Typed, TerminalShape, c
  <2>9. SameTold(t, c)
    BY DEF Typed, TerminalShape, c, SameTold
  <2>10. SameChoice(t, c)
    BY DEF Typed, TerminalShape, c, SameChoice
  <2>11. SameBand(t, c)
    BY DEF Typed, TerminalShape, c, SameBand
  <2>12. SettingsOK(c)
    BY <2>8 DEF Typed, SettingsOK
  <2>13. Typed(c) /\ PrimaryStays(t, c) /\ Active(c) = Active(t) /\ SamePlace(t, c)
    BY <2>8, <2>12, SettingTyped
  <2>14. ScreenKept(Active(c), cleared)
    BY <2>13, ClearedKept DEF Typed, ScreensSound
  <2>15. u = WithActive(c, cleared)
    BY DEF Cleared
  <2> HIDE DEF cleared, u
  <2>16. Typed(u) /\ PrimaryStays(c, u) /\ Active(u) = cleared
    BY <2>13, <2>14, <2>15, WithActiveTyped DEF ScreenKept
  <2>17. /\ SamePlace(c, u) /\ SameSettings(c, u) /\ SameChoice(c, u) /\ SameTold(c, u)
         /\ SameBand(c, u)
    BY <2>13, <2>15, WithActivePlaces DEF Typed
  <2>18. Active(u).size = old
    BY <2>13, <2>14, <2>16 DEF ScreenKept, old
  <2>19. ToldOK(t) => ToldOK(u)
    BY <2>9, <2>11, <2>17, <2>18 DEF ToldOK, SameTold, SameBand, old
  <2>20. PICK w \in Resize(u, size) : v = Unscroll(w)
    BY <2>1
  <2>21. ResizedWell(u, size, w)
    BY <2>4, <2>16, <2>20, ResizeTells
  <2>22. Typed(w)
    BY <2>21 DEF ResizedWell
  <2>23. ScreenKept(Active(w), DefaultMargins(Active(w)))
    BY <2>22, DefaultMarginsKept DEF Typed, ScreensSound
  <2>24. Typed(v) /\ PrimaryStays(w, v) /\ Active(v).size = Active(w).size
    BY <2>20, <2>22, <2>23, WithActiveTyped DEF Unscroll, ScreenKept
  <2>25. /\ SamePlace(w, v) /\ SameSettings(w, v) /\ SameChoice(w, v) /\ SameTold(w, v)
         /\ SameBand(w, v)
    BY <2>20, <2>22, WithActivePlaces DEF Typed, Unscroll
  <2>26. PrimaryStays(t, v)
    <3>1. SamePlace(t, c) /\ SamePlace(c, u) /\ SamePlace(u, w) /\ SamePlace(w, v)
      BY <2>13, <2>17, <2>21, <2>25 DEF ResizedWell
    <3>2. PrimaryStays(u, w)
      BY <2>21 DEF ResizedWell
    <3>3. QED
      BY <2>13, <2>16, <2>24, <3>1, <3>2 DEF PrimaryStays, SamePlace, InAlternate
  <2>27. v.columns = cols
    BY <2>8, <2>17, <2>21, <2>25 DEF ResizedWell, SameSettings
  <2>28. v.allowed = t.allowed
    BY <2>10, <2>17, <2>21, <2>25 DEF ResizedWell, SameChoice
  <2>29. ASSUME Fits(t)
         PROVE  Fits(v)
    <3>1. ToldOK(w) /\ Active(w).size = size
      BY <2>7, <2>18, <2>19, <2>21, <2>29 DEF ResizedWell, Fits
    <3>2. ToldOK(v)
      BY <2>24, <2>25, <3>1 DEF ToldOK, SameTold, SameBand
    <3>3. PaneSize(v)
      BY <2>2, <2>27 DEF PaneSize
    <3>4. ColumnSize(v)
      BY <1>2, <2>4, <2>24, <2>27, <2>28, <3>1 DEF ColumnSize
    <3>5. QED
      BY <3>2, <3>3, <3>4 DEF Fits
  <2>30. QED
    BY <2>24, <2>26, <2>29 DEF Stays
<1>3. QED
  BY <1>1, <1>2

LEMMA AllowColumnsStays ==
  ASSUME NEW t, Typed(t), NEW on \in BOOLEAN, NEW v \in AllowColumns(t, on)
  PROVE  Stays(t, v)
<1> DEFINE yes == TRUE
           no  == FALSE
           zero == 0
           a == [t EXCEPT !.allowed = yes]
           u == [t EXCEPT !.allowed = no, !.columns = zero]
<1>1. v \in (IF on THEN {a} ELSE IF t.columns = 0 THEN {u} ELSE Resize(u, t.visible))
  BY DEF AllowColumns
<1>2. yes = TRUE /\ no = FALSE /\ zero = 0
  OBVIOUS
<1> HIDE DEF yes, no, zero, a, u
<1>3. CASE on
  <2>1. v = a
    BY <1>1, <1>3
  <2>2. /\ TerminalShape(a) /\ a.screens = t.screens /\ a.visible = t.visible /\ a.columns = t.columns
        /\ a.tabs = t.tabs /\ a.protocol = t.protocol /\ a.encoding = t.encoding
    BY DEF Typed, TerminalShape, a
  <2>3. SameTold(t, a)
    BY DEF Typed, TerminalShape, a, SameTold
  <2>4. a.allowed = yes /\ a.forced = t.forced
    BY DEF Typed, TerminalShape, a
  <2>5. SameBand(t, a)
    BY DEF Typed, TerminalShape, a, SameBand
  <2>6. SettingsOK(a)
    BY <2>2 DEF Typed, SettingsOK
  <2>7. Typed(a) /\ PrimaryStays(t, a) /\ Active(a) = Active(t)
    BY <2>2, <2>6, SettingTyped
  <2>8. ToldOK(t) => ToldOK(a)
    BY <2>3, <2>5, <2>7 DEF ToldOK, SameTold, SameBand
  <2>9. PaneSize(t) => PaneSize(a)
    BY <2>2, <2>4, <2>7 DEF PaneSize
  <2>10. ColumnSize(t) => ColumnSize(a)
    BY <1>2, <2>2, <2>4, <2>7 DEF ColumnSize
  <2>11. QED
    BY <2>1, <2>7, <2>8, <2>9, <2>10 DEF Stays, Fits
<1>4. CASE ~on
  <2>1. v \in (IF t.columns = 0 THEN {u} ELSE Resize(u, t.visible))
    BY <1>1, <1>4
  <2>2. /\ TerminalShape(u) /\ u.screens = t.screens /\ u.visible = t.visible /\ u.columns = zero
        /\ u.tabs = t.tabs /\ u.protocol = t.protocol /\ u.encoding = t.encoding
    <3> DEFINE w == [t EXCEPT !.columns = zero]
    <3>1. /\ TerminalShape(w) /\ w.screens = t.screens /\ w.visible = t.visible /\ w.columns = zero
          /\ w.tabs = t.tabs /\ w.protocol = t.protocol /\ w.encoding = t.encoding
      BY DEF Typed, TerminalShape
    <3>2. u = [w EXCEPT !.allowed = no]
      BY DEF Typed, TerminalShape, u
    <3> HIDE DEF w
    <3>3. /\ TerminalShape(u) /\ u.screens = w.screens /\ u.visible = w.visible
          /\ u.columns = w.columns /\ u.tabs = w.tabs /\ u.protocol = w.protocol
          /\ u.encoding = w.encoding
      BY <3>1, <3>2 DEF TerminalShape
    <3>4. QED
      BY <3>1, <3>3
  <2>3. SameTold(t, u)
    BY DEF Typed, TerminalShape, u, SameTold
  <2>4. u.forced = t.forced
    BY DEF Typed, TerminalShape, u
  <2>5. SameBand(t, u)
    BY DEF Typed, TerminalShape, u, SameBand
  <2>6. SettingsOK(u)
    BY <1>2, <2>2 DEF Typed, SettingsOK
  <2>7. Typed(u) /\ PrimaryStays(t, u) /\ Active(u) = Active(t) /\ SamePlace(t, u)
    BY <2>2, <2>6, SettingTyped
  <2>8. ToldOK(t) => ToldOK(u)
    BY <2>3, <2>5, <2>7 DEF ToldOK, SameTold, SameBand
  <2>9. ColumnSize(u)
    BY <1>2, <2>2 DEF ColumnSize
  <2>10. CASE t.columns = 0
    <3>1. v = u
      BY <2>1, <2>10
    <3>2. PaneSize(t) => PaneSize(u)
      BY <2>2, <2>4, <2>7, <2>10 DEF PaneSize
    <3>3. QED
      BY <2>7, <2>8, <2>9, <3>1, <3>2 DEF Stays, Fits
  <2>11. CASE t.columns # 0
    <3>1. v \in Resize(u, t.visible)
      BY <2>1, <2>11
    <3>2. t.visible \in SizeSet
      BY DEF Typed, SettingsOK
    <3>3. ResizedWell(u, t.visible, v)
      BY <2>7, <3>1, <3>2, ResizeTells
    <3>4. Typed(v) /\ PrimaryStays(t, v)
      BY <2>7, <3>3 DEF ResizedWell, PrimaryStays, SamePlace, InAlternate
    <3>5. v.visible = t.visible /\ v.columns = 0
      BY <1>2, <2>2, <3>3 DEF ResizedWell, SameSettings
    <3>6. ASSUME Fits(t), ~MixesPixels(t, v)
          PROVE  Fits(v)
      <4>1. ~OnlyPixels(Active(u).size, t.visible)
        BY <2>7, <3>5, <3>6, MixedSizes DEF Typed
      <4>2. ToldOK(v) /\ Active(v).size = t.visible
        BY <2>8, <3>3, <3>6, <4>1 DEF ResizedWell, Fits
      <4>3. QED
        BY <3>5, <4>2 DEF Fits, PaneSize, ColumnSize
    <3>7. QED
      BY <3>4, <3>6 DEF Stays
  <2>12. QED
    BY <2>10, <2>11
<1>5. QED
  BY <1>3, <1>4

\* The primary screen is as it was, but for its size.
LEMMA UseAlternateStays ==
  ASSUME NEW t, Typed(t), NEW on \in BOOLEAN, NEW v \in UseAlternate(t, on)
  PROVE  /\ Stays(t, v) /\ (InAlternate(v) <=> on = TRUE)
         /\ SameSettings(t, v) /\ SameChoice(t, v) /\ SameTold(t, v) /\ SameBand(t, v)
         /\ ~OnlyPixels(t.screens[1].size, Active(t).size) => Active(v).size = Active(t).size
<1> DEFINE size == Active(t).size
           fresh == NewScreen(size)
           first == t.screens[1]
           both == <<first, fresh>>
<1>1. Sound(Active(t)) /\ Sound(first) /\ size \in SizeSet /\ Stacked(t)
  BY DEF Typed, ScreensSound, Sound, Framed
<1>2. CASE InAlternate(t) = on
  <2>1. v = t
    BY <1>2 DEF UseAlternate
  <2>2. SameSettings(t, t) /\ SameChoice(t, t) /\ SameTold(t, t) /\ SameBand(t, t)
    BY DEF SameSettings, SameChoice, SameTold, SameBand
  <2>3. InAlternate(t) <=> on = TRUE
    BY <1>2 DEF InAlternate
  <2>4. QED
    BY <2>1, <2>2, <2>3, SameStays
<1>3. CASE InAlternate(t) # on /\ on = TRUE
  <2>1. Len(t.screens) = 1 /\ t.screens = <<first>>
    BY <1>1, <1>3, Places DEF InAlternate
  <2>2. UseAlternate(t, on) = {[t EXCEPT !.screens = Append(t.screens, fresh)]}
    BY <1>3 DEF UseAlternate
  <2> HIDE DEF fresh, first
  <2>3. ASSUME NEW a, NEW b
        PROVE  Append(<<a>>, b) = <<a, b>>
    <3> DEFINE S == {a, b}
               l == <<a>>
               r == <<a, b>>
    <3>1. l \in Seq(S) /\ Len(l) = 1 /\ l[1] = a
      OBVIOUS
    <3>2. r \in Seq(S) /\ Len(r) = 2 /\ r[1] = a /\ r[2] = b
      OBVIOUS
    <3>3. b \in S
      OBVIOUS
    <3> HIDE DEF S, l, r
    <3>4. /\ Append(l, b) \in Seq(S) /\ Len(Append(l, b)) = 2
          /\ Append(l, b)[1] = a /\ Append(l, b)[2] = b
      <4>1. Append(l, b) \in Seq(S) /\ Len(Append(l, b)) = Len(l) + 1
        BY <3>1, <3>3, AppendProperties
      <4>2. \A i \in 1 .. Len(l) : Append(l, b)[i] = l[i]
        BY <3>1, <3>3, AppendProperties
      <4>3. Append(l, b)[Len(l) + 1] = b
        <5>1. l \in Seq(S)
          BY <3>1
        <5>2. QED
          BY <3>3, <5>1, AppendProperties, Zenon
      <4>4. QED
        BY <3>1, <4>1, <4>2, <4>3
    <3>5. \A i \in 1 .. 2 : Append(l, b)[i] = r[i]
      BY <3>2, <3>4
    <3>6. Append(l, b) = r
      BY <3>2, <3>4, <3>5, SeqEqual
    <3>7. QED
      BY <3>6 DEF l, r
  <2>4. Append(t.screens, fresh) = both
    BY <2>1, <2>3
  <2>5. v = [t EXCEPT !.screens = both]
    BY <2>2, <2>4
  <2>6. Len(both) = 2 /\ both[1] = first /\ both[2] = fresh
    OBVIOUS
  <2> HIDE DEF both
  <2>7. TerminalShape(v) /\ v.screens = both
    BY <2>5 DEF Typed, TerminalShape
  <2>8. SameSettings(t, v) /\ SameTold(t, v)
    BY <2>5 DEF Typed, TerminalShape, SameSettings, SameTold
  <2>9. SameChoice(t, v)
    BY <2>5 DEF Typed, TerminalShape, SameChoice
  <2>10. SameBand(t, v)
    BY <2>5 DEF Typed, TerminalShape, SameBand
  <2>11. Stacked(v) /\ InAlternate(v) /\ Active(v) = fresh /\ v.screens[1] = first
    BY <2>6, <2>7 DEF Stacked, InAlternate, Active, both
  <2>12. Sound(fresh) /\ fresh.size = size
    BY <1>1, NewScreenSound DEF fresh
  <2>13. ScreensSound(v)
    BY <1>1, <2>11, <2>12 DEF ScreensSound
  <2>14. SettingsOK(v)
    BY <2>8 DEF Typed, SettingsOK, SameSettings
  <2>15. Typed(v)
    BY <2>7, <2>11, <2>13, <2>14 DEF Typed
  <2>16. PrimaryStays(t, v)
    BY <2>1 DEF PrimaryStays, InAlternate
  <2>17. ToldOK(t) => ToldOK(v)
    BY <2>8, <2>10, <2>11, <2>12 DEF ToldOK, SameTold, SameBand
  <2>18. PaneSize(t) => PaneSize(v)
    BY <2>8, <2>9, <2>11, <2>12 DEF PaneSize, SameSettings, SameChoice
  <2>19. ColumnSize(t) => ColumnSize(v)
    BY <2>8, <2>9, <2>11, <2>12 DEF ColumnSize, SameSettings, SameChoice
  <2>20. Stays(t, v)
    BY <2>15, <2>16, <2>17, <2>18, <2>19 DEF Stays, Fits
  <2>21. InAlternate(v) <=> on = TRUE
    BY <1>3, <2>11
  <2>22. QED
    BY <2>8, <2>9, <2>10, <2>11, <2>12, <2>20, <2>21
<1>4. CASE InAlternate(t) # on /\ on = FALSE
  <2>1. Len(t.screens) = 2 /\ InAlternate(t)
    BY <1>1, <1>4, Places DEF InAlternate
  <2> DEFINE isPrimary == TRUE
             Only(s) == [t EXCEPT !.screens = <<s>>]
  <2>2. UseAlternate(t, on) = {Only(s) : s \in Resized(first, size, isPrimary)}
    BY <1>4 DEF UseAlternate
  <2>3. isPrimary \in BOOLEAN
    OBVIOUS
  <2> HIDE DEF isPrimary, Only, size, first
  <2>4. PICK s \in Resized(first, size, isPrimary) : v = Only(s)
    BY <2>2
  <2>5. ResizedTo(first, size, s)
    BY <1>1, <2>3, ResizedSound
  <2> DEFINE one == <<s>>
  <2>6. v = [t EXCEPT !.screens = one]
    BY <2>4 DEF Only
  <2>7. Len(one) = 1 /\ one[1] = s
    OBVIOUS
  <2> HIDE DEF one
  <2>8. TerminalShape(v) /\ v.screens = one
    BY <2>6 DEF Typed, TerminalShape
  <2>9. SameSettings(t, v) /\ SameTold(t, v)
    BY <2>6 DEF Typed, TerminalShape, SameSettings, SameTold
  <2>10. SameChoice(t, v)
    BY <2>6 DEF Typed, TerminalShape, SameChoice
  <2>11. SameBand(t, v)
    BY <2>6 DEF Typed, TerminalShape, SameBand
  <2>12. Stacked(v) /\ ~InAlternate(v) /\ Active(v) = s /\ v.screens[1] = s
    BY <2>7, <2>8 DEF Stacked, InAlternate, Active, one
  <2>13. ScreensSound(v)
    BY <2>5, <2>12 DEF ScreensSound, ResizedTo
  <2>14. SettingsOK(v)
    BY <2>9 DEF Typed, SettingsOK, SameSettings
  <2>15. Typed(v)
    BY <2>8, <2>12, <2>13, <2>14 DEF Typed
  <2>16. PrimaryStays(t, v)
    BY <2>5, <2>12 DEF PrimaryStays, ResizedTo, first
  <2>17. ~OnlyPixels(first.size, size) => Active(v).size = size
    BY <2>5, <2>12 DEF ResizedTo
  <2>18. ASSUME Fits(t), ~MixesPixels(t, v)
         PROVE  Fits(v)
    <3>1. Active(v).size = Active(t).size
      BY <1>1, <2>17, <2>18, MixedSizes DEF size, first
    <3>2. ToldOK(v)
      BY <2>9, <2>11, <2>18, <3>1 DEF Fits, ToldOK, SameTold, SameBand
    <3>3. PaneSize(v)
      BY <2>9, <2>10, <2>18, <3>1 DEF Fits, PaneSize, SameSettings, SameChoice
    <3>4. ColumnSize(v)
      BY <2>9, <2>10, <2>18, <3>1 DEF Fits, ColumnSize, SameSettings, SameChoice
    <3>5. QED
      BY <3>2, <3>3, <3>4 DEF Fits
  <2>19. Stays(t, v)
    BY <2>15, <2>16, <2>18 DEF Stays
  <2>20. InAlternate(v) <=> on = TRUE
    BY <1>4, <2>12
  <2>21. QED
    BY <2>9, <2>10, <2>11, <2>17, <2>19, <2>20 DEF size, first
<1>5. QED
  BY <1>2, <1>3, <1>4

-----------------------------------------------------------------------------
(* Modes and settings *)

LEMMA SetInBandStays ==
  ASSUME NEW t, Typed(t), NEW on \in BOOLEAN
  PROVE  Stays(t, SetInBand(t, on))
<1> DEFINE report == IF on THEN Active(t).size ELSE t.reported
           w == [t EXCEPT !.reported = report]
           v == SetInBand(t, on)
<1>1. on => report = Active(t).size
  OBVIOUS
<1>2. v = [t EXCEPT !.inBand = on, !.reported = report]
  BY DEF SetInBand
<1> SUFFICES Stays(t, v)
  OBVIOUS
<1> HIDE DEF report, v
<1>3. /\ TerminalShape(w) /\ w.screens = t.screens /\ w.told = t.told /\ w.reported = report
  BY DEF Typed, TerminalShape
<1>4. SameSettings(t, w)
  BY DEF Typed, TerminalShape, SameSettings
<1>5. SameChoice(t, w)
  BY DEF Typed, TerminalShape, SameChoice
<1>6. v = [w EXCEPT !.inBand = on]
  BY <1>2 DEF Typed, TerminalShape
<1> HIDE DEF w
<1>7. /\ TerminalShape(v) /\ v.screens = w.screens /\ v.told = w.told /\ v.reported = w.reported
  BY <1>3, <1>6 DEF TerminalShape
<1>8. SameSettings(w, v)
  BY <1>3, <1>6 DEF TerminalShape, SameSettings
<1>9. SameChoice(w, v)
  BY <1>3, <1>6 DEF TerminalShape, SameChoice
<1>10. v.inBand = on
  BY <1>3, <1>6 DEF TerminalShape
<1>11. SameSettings(t, v) /\ SameChoice(t, v)
  BY <1>4, <1>5, <1>8, <1>9 DEF SameSettings, SameChoice
<1>12. SettingsOK(v)
  BY <1>11 DEF Typed, SettingsOK, SameSettings
<1>13. Typed(v) /\ PrimaryStays(t, v) /\ Active(v) = Active(t)
  BY <1>3, <1>7, <1>12, SettingTyped
<1>14. ToldOK(t) => ToldOK(v)
  BY <1>1, <1>3, <1>7, <1>10, <1>13 DEF ToldOK
<1>15. PaneSize(t) => PaneSize(v)
  BY <1>11, <1>13 DEF PaneSize, SameSettings, SameChoice
<1>16. ColumnSize(t) => ColumnSize(v)
  BY <1>11, <1>13 DEF ColumnSize, SameSettings, SameChoice
<1>17. QED
  BY <1>13, <1>14, <1>15, <1>16 DEF Stays, Fits

LEMMA MouseStays ==
  ASSUME NEW t, Typed(t), NEW protocol \in {0, 9} \cup Protocols,
         NEW encoding \in {0} \cup Encodings, NEW v,
         v = [t EXCEPT !.protocol = protocol, !.encoding = encoding]
  PROVE  Stays(t, v)
<1> DEFINE w == [t EXCEPT !.protocol = protocol]
<1>1. /\ TerminalShape(w) /\ w.screens = t.screens /\ w.visible = t.visible /\ w.columns = t.columns
      /\ w.tabs = t.tabs /\ w.protocol = protocol /\ w.told = t.told /\ w.reported = t.reported
  BY DEF Typed, TerminalShape
<1>2. SameChoice(t, w)
  BY DEF Typed, TerminalShape, SameChoice
<1>3. SameBand(t, w)
  BY DEF Typed, TerminalShape, SameBand
<1>4. v = [w EXCEPT !.encoding = encoding]
  BY DEF Typed, TerminalShape
<1> HIDE DEF w
<1>5. /\ TerminalShape(v) /\ v.screens = w.screens /\ v.visible = w.visible /\ v.columns = w.columns
      /\ v.tabs = w.tabs /\ v.protocol = w.protocol /\ v.told = w.told /\ v.reported = w.reported
      /\ v.encoding = encoding
  BY <1>1, <1>4 DEF TerminalShape
<1>6. SameChoice(w, v)
  BY <1>1, <1>4 DEF TerminalShape, SameChoice
<1>7. SameBand(w, v)
  BY <1>1, <1>4 DEF TerminalShape, SameBand
<1>8. SettingsOK(v)
  BY <1>1, <1>5 DEF Typed, SettingsOK
<1>9. SameChoice(t, v) /\ SameTold(t, v)
  BY <1>1, <1>2, <1>5, <1>6 DEF SameChoice, SameTold
<1>10. SameBand(t, v)
  BY <1>3, <1>7 DEF SameBand
<1>11. v.screens = t.screens /\ v.visible = t.visible /\ v.columns = t.columns /\ TerminalShape(v)
  BY <1>1, <1>5
<1>12. QED
  BY <1>8, <1>9, <1>10, <1>11, SettingStays

\* The flags, the shift state and the names the program has set
LEMMA FlagsStay ==
  ASSUME NEW t, Typed(t), NEW on, NEW shift, NEW osc, NEW v,
         \/ v = [t EXCEPT !.on = on]
         \/ v = [t EXCEPT !.shift = shift]
         \/ v = [t EXCEPT !.osc = osc]
  PROVE  Stays(t, v)
<1>1. TerminalShape(v) /\ v.screens = t.screens
  BY DEF Typed, TerminalShape
<1>2. SameSettings(t, v)
  BY DEF Typed, TerminalShape, SameSettings
<1>3. SameTold(t, v)
  BY DEF Typed, TerminalShape, SameTold
<1>4. SameChoice(t, v)
  BY DEF Typed, TerminalShape, SameChoice
<1>5. SameBand(t, v)
  BY DEF Typed, TerminalShape, SameBand
<1>6. SettingsOK(v)
  BY <1>2 DEF Typed, SettingsOK, SameSettings
<1>7. QED
  BY <1>1, <1>2, <1>3, <1>4, <1>5, <1>6, SettingStays DEF SameSettings

LEMMA TabsStay ==
  ASSUME NEW t, Typed(t), NEW tabs \in SUBSET Nat, NEW v, v = [t EXCEPT !.tabs = tabs]
  PROVE  Stays(t, v)
<1>1. TerminalShape(v) /\ v.screens = t.screens /\ v.visible = t.visible /\ v.columns = t.columns
  BY DEF Typed, TerminalShape
<1>2. v.tabs = tabs /\ v.protocol = t.protocol /\ v.encoding = t.encoding
  BY DEF Typed, TerminalShape
<1>3. SameTold(t, v)
  BY DEF Typed, TerminalShape, SameTold
<1>4. SameChoice(t, v)
  BY DEF Typed, TerminalShape, SameChoice
<1>5. SameBand(t, v)
  BY DEF Typed, TerminalShape, SameBand
<1>6. SettingsOK(v)
  BY <1>1, <1>2 DEF Typed, SettingsOK
<1>7. QED
  BY <1>1, <1>3, <1>4, <1>5, <1>6, SettingStays

LEMMA SwitchStays ==
  ASSUME NEW t, Typed(t), NEW m, NEW on \in BOOLEAN
  PROVE  Stays(t, Switch(t, m, on))
<1> DEFINE new == IF on THEN t.on \cup {m} ELSE t.on \ {m}
           v == Switch(t, m, on)
<1>1. v = [t EXCEPT !.on = new]
  BY DEF Switch
<1> HIDE DEF new, v
<1>2. QED
  BY <1>1, FlagsStay DEF v

LEMMA SetModeStays ==
  ASSUME NEW t, Typed(t), InOrder(t), NEW m, NEW on \in BOOLEAN, NEW v \in SetMode(t, m, on)
  PROVE  Stays(t, v)
<1>1. CASE m = 3
  <2> DEFINE cols == IF on THEN WideCols ELSE NarrowCols
  <2>1. SetMode(t, m, on) = SetColumns(t, cols)
    BY <1>1 DEF SetMode, Protocols, Encodings, Flags
  <2>2. cols \in {NarrowCols, WideCols}
    OBVIOUS
  <2> HIDE DEF cols
  <2>3. QED
    BY <2>1, <2>2, SetColumnsStays
<1>2. CASE m = 6
  <2>1. SetMode(t, m, on) = {WithActive(t, SetOrigin(Active(t), on))}
    BY <1>2 DEF SetMode, Protocols, Encodings, Flags
  <2>2. ScreenKept(Active(t), SetOrigin(Active(t), on))
    BY SetOriginKept DEF Typed, ScreensSound, InOrder
  <2>3. QED
    BY <2>1, <2>2, WithActiveStays
<1>3. CASE m = 9
  <2> DEFINE protocol == IF on THEN 9 ELSE 0
             encoding == 0
  <2>1. SetMode(t, m, on) = {[t EXCEPT !.protocol = protocol, !.encoding = encoding]}
    BY <1>3 DEF SetMode, Protocols, Encodings, Flags
  <2>2. protocol \in {0, 9} \cup Protocols /\ encoding \in {0} \cup Encodings
    BY DEF Protocols, Encodings
  <2> HIDE DEF protocol, encoding
  <2>3. v = [t EXCEPT !.protocol = protocol, !.encoding = encoding]
    BY <2>1
  <2>4. QED
    BY <2>2, <2>3, MouseStays
<1>4. CASE m = 40
  <2>1. SetMode(t, m, on) = AllowColumns(t, on)
    BY <1>4 DEF SetMode, Protocols, Encodings, Flags
  <2>2. QED
    BY <2>1, AllowColumnsStays
<1>5. CASE m \in Protocols
  <2> DEFINE protocol == IF on THEN m ELSE 0
  <2>1. m # 3 /\ m # 6 /\ m # 9 /\ m # 40
    BY <1>5 DEF Protocols
  <2>2. SetMode(t, m, on) = {[t EXCEPT !.protocol = protocol]}
    BY <1>5, <2>1 DEF SetMode, Protocols, Encodings, Flags
  <2>3. protocol \in {0, 9} \cup Protocols
    BY <1>5
  <2> HIDE DEF protocol
  <2>4. v = [t EXCEPT !.protocol = protocol]
    BY <2>2
  <2>5. v = [t EXCEPT !.protocol = protocol, !.encoding = t.encoding]
    BY <2>4 DEF Typed, TerminalShape
  <2>6. t.encoding \in {0} \cup Encodings
    BY DEF Typed, SettingsOK
  <2>7. QED
    BY <2>3, <2>5, <2>6, MouseStays
<1>6. CASE m \in Encodings
  <2> DEFINE encoding == IF on THEN m ELSE 0
  <2>1. m # 3 /\ m # 6 /\ m # 9 /\ m # 40 /\ m \notin Protocols
    BY <1>6 DEF Protocols, Encodings
  <2>2. SetMode(t, m, on) = {[t EXCEPT !.encoding = encoding]}
    BY <1>6, <2>1 DEF SetMode, Protocols, Encodings, Flags
  <2>3. encoding \in {0} \cup Encodings
    BY <1>6
  <2> HIDE DEF encoding
  <2>4. v = [t EXCEPT !.encoding = encoding]
    BY <2>2
  <2>5. v = [t EXCEPT !.protocol = t.protocol, !.encoding = encoding]
    BY <2>4 DEF Typed, TerminalShape
  <2>6. t.protocol \in {0, 9} \cup Protocols
    BY DEF Typed, SettingsOK
  <2>7. QED
    BY <2>3, <2>5, <2>6, MouseStays
<1>7. CASE m = 1049
  <2>1. m \notin Protocols /\ m \notin Encodings /\ m # 3 /\ m # 6 /\ m # 9 /\ m # 40
    BY <1>7 DEF Protocols, Encodings
  <2>2. SetMode(t, m, on) = UseAlternate(t, on)
    BY <1>7, <2>1 DEF SetMode, Flags
  <2>3. QED
    BY <2>2, UseAlternateStays
<1>8. CASE m = 2048
  <2>1. /\ m \notin Protocols /\ m \notin Encodings /\ m # 3 /\ m # 6 /\ m # 9 /\ m # 40
        /\ m # 1049
    BY <1>8 DEF Protocols, Encodings
  <2>2. SetMode(t, m, on) = {SetInBand(t, on)}
    BY <1>8, <2>1 DEF SetMode, Flags
  <2>3. QED
    BY <2>2, SetInBandStays
<1>9. CASE m \in Flags
  <2>1. /\ m \notin Protocols /\ m \notin Encodings /\ m # 3 /\ m # 6 /\ m # 9 /\ m # 40
        /\ m # 1049 /\ m # 2048
    BY <1>9 DEF Protocols, Encodings, Flags
  <2>2. SetMode(t, m, on) = {Switch(t, m, on)}
    BY <1>9, <2>1 DEF SetMode
  <2>3. QED
    BY <2>2, SwitchStays
<1>10. CASE /\ m \notin Protocols /\ m \notin Encodings /\ m \notin Flags
            /\ m # 3 /\ m # 6 /\ m # 9 /\ m # 40 /\ m # 1049 /\ m # 2048
  <2>1. SetMode(t, m, on) = {t}
    BY <1>10 DEF SetMode
  <2>2. QED
    BY <2>1, SameStays
<1>11. QED
  BY <1>1, <1>2, <1>3, <1>4, <1>5, <1>6, <1>7, <1>8, <1>9, <1>10

\* There is a first one among the tab stops after the cursor.
LEMMA NextTabStays ==
  ASSUME NEW t, Typed(t), InOrder(t)
  PROVE  Stays(t, NextTab(t))
<1> DEFINE s     == Active(t)
           after == {c \in t.tabs : c > s.cursor.col}
           to    == IF t.tabs = {} THEN 8 * (s.cursor.col \div 8 + 1)
                    ELSE IF after = {} THEN s.size.cols - 1
                    ELSE CHOOSE c \in after : \A d \in after : c <= d
<1>1. NextTab(t) = WithActive(t, SetCursor(s, s.cursor.row, to))
  BY DEF NextTab
<1>2. Sound(s) /\ Regioned(s)
  BY DEF Typed, ScreensSound, InOrder
<1> HIDE DEF s
<1>3. s.cursor.row \in Nat /\ s.cursor.col \in Nat /\ s.size.cols - 1 \in Nat
  BY <1>2, SoundNumbers
<1>4. after \in SUBSET Nat
  BY DEF Typed, SettingsOK
<1> HIDE DEF after
<1>5. 8 * (s.cursor.col \div 8 + 1) \in Nat
  BY <1>3
<1>6. ASSUME after # {}
      PROVE  (CHOOSE c \in after : \A d \in after : c <= d) \in Nat
  <2> DEFINE R == OpToRel(<, Nat)
  <2>1. PICK c \in after : \A d \in after : <<d, c>> \notin R
    BY <1>4, <1>6, WFMin, NatLessThanWellFounded, Zenon
  <2>2. \A d \in after : c <= d
    <3>1. \A m, n \in Nat : m < n => <<m, n>> \in R
      BY DEF OpToRel
    <3> HIDE DEF R
    <3>2. c \in Nat /\ \A d \in after : d \in Nat /\ ~(d < c)
      BY <1>4, <2>1, <3>1
    <3>3. QED
      BY <3>2
  <2>3. (CHOOSE a \in after : \A d \in after : a <= d) \in after
    BY <2>2
  <2>4. QED
    BY <1>4, <2>3
<1>7. to \in Nat
  BY <1>3, <1>5, <1>6
<1> HIDE DEF to
<1>8. ScreenKept(s, SetCursor(s, s.cursor.row, to))
  BY <1>2, <1>3, <1>7, SetCursorKept
<1>9. QED
  BY <1>1, <1>8, WithActiveStays DEF s

LEMMA SetTabStays ==
  ASSUME NEW t, Typed(t)
  PROVE  Stays(t, SetTab(t))
<1> DEFINE tabs == t.tabs \cup {Active(t).cursor.col}
           v == SetTab(t)
<1>1. v = [t EXCEPT !.tabs = tabs]
  BY DEF SetTab
<1>2. Active(t).cursor.col \in Nat
  BY SoundNumbers DEF Typed, ScreensSound
<1>3. tabs \in SUBSET Nat
  BY <1>2 DEF Typed, SettingsOK
<1> HIDE DEF tabs, v
<1>4. QED
  BY <1>1, <1>3, TabsStay DEF v

LEMMA ClearTabStays ==
  ASSUME NEW t, Typed(t), NEW ps
  PROVE  Stays(t, ClearTab(t, ps))
<1> DEFINE tabs == CASE ps = 0 -> t.tabs \ {Active(t).cursor.col}
                     [] ps = 3 -> {}
                     [] OTHER  -> t.tabs
           v == ClearTab(t, ps)
<1>1. v = [t EXCEPT !.tabs = tabs]
  BY DEF ClearTab
<1>2. tabs \in SUBSET Nat
  <2>1. t.tabs \in SUBSET Nat
    BY DEF Typed, SettingsOK
  <2>2. CASE ps = 0
    BY <2>1, <2>2
  <2>3. CASE ps = 3
    BY <2>1, <2>3
  <2>4. CASE ps # 0 /\ ps # 3
    BY <2>1, <2>4
  <2>5. QED
    BY <2>2, <2>3, <2>4
<1> HIDE DEF tabs, v
<1>3. QED
  BY <1>1, <1>2, TabsStay DEF v

-----------------------------------------------------------------------------
(* Soft resets *)

\* A soft reset leaves the alternate screen, and gives the screen the size of the pane.
ResetsWell(t, v) ==
  /\ Typed(v) /\ ~InAlternate(v)
  /\ Fits(t) /\ t.columns = 0 /\ ~MixesPixels(t, v) => Fits(v)

LEMMA ResetModesTyped ==
  ASSUME NEW t, Typed(t)
  PROVE  LET v == ResetModes(t)
         IN  /\ Typed(v) /\ Active(v) = Active(t) /\ SamePlace(t, v)
             /\ v.visible = t.visible /\ v.columns = t.columns /\ SameTold(t, v) /\ SameBand(t, v)
<1> DEFINE no   == FALSE
           zero == 0
           osc  == t.osc \ {"palette"}
           on   == (t.on \cup {7, 25}) \ {1004, 2026, 2031}
           a == [t EXCEPT !.allowed = no]
           b == [a EXCEPT !.allowForce = no]
           c == [b EXCEPT !.encoding = zero]
           d == [c EXCEPT !.protocol = zero]
           e == [d EXCEPT !.osc = osc]
           v == ResetModes(t)
<1> SUFFICES /\ Typed(v) /\ Active(v) = Active(t) /\ SamePlace(t, v)
             /\ v.visible = t.visible /\ v.columns = t.columns /\ SameTold(t, v) /\ SameBand(t, v)
  OBVIOUS
<1>1. v = [t EXCEPT !.allowed = no, !.allowForce = no, !.encoding = zero, !.protocol = zero,
                    !.osc = osc, !.on = on]
  BY DEF ResetModes
<1>2. zero = 0
  OBVIOUS
<1> HIDE DEF no, zero, osc, on, v
<1>3. v = [e EXCEPT !.on = on]
  BY <1>1 DEF Typed, TerminalShape

<1> HIDE DEF e
<1>4. /\ TerminalShape(a) /\ a.screens = t.screens /\ a.visible = t.visible /\ a.told = t.told /\ a.reported = t.reported
      /\ a.columns = t.columns /\ a.tabs = t.tabs /\ a.protocol = t.protocol /\ a.encoding = t.encoding
  BY DEF Typed, TerminalShape, a
<1>5. SameBand(t, a)
  BY DEF Typed, TerminalShape, a, SameBand
<1> HIDE DEF a
<1>6. /\ TerminalShape(b) /\ b.screens = a.screens /\ b.visible = a.visible /\ b.told = a.told /\ b.reported = a.reported
      /\ b.columns = a.columns /\ b.tabs = a.tabs /\ b.protocol = a.protocol /\ b.encoding = a.encoding
  BY <1>4 DEF TerminalShape, b
<1>7. SameBand(a, b)
  BY <1>4 DEF TerminalShape, b, SameBand
<1> HIDE DEF b
<1>8. /\ TerminalShape(c) /\ c.screens = b.screens /\ c.visible = b.visible /\ c.told = b.told /\ c.reported = b.reported
      /\ c.columns = b.columns /\ c.tabs = b.tabs /\ c.protocol = b.protocol /\ c.encoding = zero
  BY <1>6 DEF TerminalShape, c
<1>9. SameBand(b, c)
  BY <1>6 DEF TerminalShape, c, SameBand
<1> HIDE DEF c
<1>10. /\ TerminalShape(d) /\ d.screens = c.screens /\ d.visible = c.visible /\ d.told = c.told /\ d.reported = c.reported
      /\ d.columns = c.columns /\ d.tabs = c.tabs /\ d.protocol = zero /\ d.encoding = c.encoding
  BY <1>8 DEF TerminalShape, d
<1>11. SameBand(c, d)
  BY <1>8 DEF TerminalShape, d, SameBand
<1> HIDE DEF d
<1>12. /\ TerminalShape(e) /\ e.screens = d.screens /\ e.visible = d.visible /\ e.told = d.told /\ e.reported = d.reported
      /\ e.columns = d.columns /\ e.tabs = d.tabs /\ e.protocol = d.protocol /\ e.encoding = d.encoding
  BY <1>10 DEF TerminalShape, e
<1>13. SameBand(d, e)
  BY <1>10 DEF TerminalShape, e, SameBand
<1>14. /\ TerminalShape(v) /\ v.screens = e.screens /\ v.visible = e.visible /\ v.told = e.told /\ v.reported = e.reported
      /\ v.columns = e.columns /\ v.tabs = e.tabs /\ v.protocol = e.protocol /\ v.encoding = e.encoding
  BY <1>3, <1>12 DEF TerminalShape
<1>15. SameBand(e, v)
  BY <1>3, <1>12 DEF TerminalShape, SameBand
<1>16. /\ v.screens = t.screens /\ v.visible = t.visible /\ v.columns = t.columns
      /\ v.tabs = t.tabs /\ v.told = t.told /\ v.reported = t.reported
  BY <1>4, <1>6, <1>8, <1>10, <1>12, <1>14
<1>17. v.protocol = 0 /\ v.encoding = 0
  BY <1>2, <1>4, <1>6, <1>8, <1>10, <1>12, <1>14
<1>18. SameBand(t, v)
  BY <1>5, <1>7, <1>9, <1>11, <1>13, <1>15 DEF SameBand
<1>19. SettingsOK(v)
  BY <1>16, <1>17 DEF Typed, SettingsOK
<1>20. QED
  BY <1>14, <1>16, <1>18, <1>19, SettingTyped DEF SameTold

LEMMA SoftResetWell ==
  ASSUME NEW t, Typed(t), NEW v \in SoftReset(t)
  PROVE  ResetsWell(t, v)
<1> DEFINE off == FALSE
           Reset(u) == ResetModes(WithActive(u, ResetScreen(Active(u))))
<1>1. SoftReset(t) = UNION {Resize(Reset(u), u.visible) : u \in UseAlternate(t, off)}
  BY DEF SoftReset
<1>2. off \in BOOLEAN /\ off # TRUE
  OBVIOUS
<1> HIDE DEF off, Reset
<1>3. PICK u \in UseAlternate(t, off) : v \in Resize(Reset(u), u.visible)
  BY <1>1
<1>4. Stays(t, u) /\ (InAlternate(u) <=> off = TRUE)
  BY <1>2, <1>3, UseAlternateStays
<1>5. SameSettings(t, u) /\ SameChoice(t, u) /\ SameTold(t, u) /\ SameBand(t, u)
  BY <1>2, <1>3, UseAlternateStays
<1>6. ~OnlyPixels(t.screens[1].size, Active(t).size) => Active(u).size = Active(t).size
  BY <1>2, <1>3, UseAlternateStays
<1>7. Typed(u) /\ ~InAlternate(u) /\ u.visible \in SizeSet
  BY <1>2, <1>4 DEF Stays, Typed, SettingsOK
<1> DEFINE s == ResetScreen(Active(u))
           w == WithActive(u, s)
           r == ResetModes(w)
<1>8. ScreenKept(Active(u), s)
  BY <1>7, ResetScreenKept DEF Typed, ScreensSound
<1> HIDE DEF s
<1>9. Typed(w) /\ Active(w).size = Active(u).size
  BY <1>7, <1>8, WithActiveTyped DEF ScreenKept
<1>10. /\ SamePlace(u, w) /\ SameSettings(u, w) /\ SameTold(u, w) /\ SameBand(u, w)
  BY <1>7, WithActivePlaces DEF Typed
<1> HIDE DEF w
<1>11. /\ Typed(r) /\ Active(r) = Active(w) /\ SamePlace(w, r)
       /\ r.visible = w.visible /\ r.columns = w.columns /\ SameTold(w, r) /\ SameBand(w, r)
  BY <1>9, ResetModesTyped
<1>12. r = Reset(u)
  BY DEF Reset, w, s
<1> HIDE DEF r
<1>13. ResizedWell(r, u.visible, v)
  BY <1>3, <1>7, <1>11, <1>12, ResizeTells
<1>14. Typed(v) /\ ~InAlternate(v)
  BY <1>7, <1>10, <1>11, <1>13 DEF ResizedWell, SamePlace, InAlternate
<1>15. u.visible = t.visible /\ v.visible = t.visible /\ v.columns = t.columns
  BY <1>5, <1>10, <1>11, <1>13 DEF ResizedWell, SameSettings
<1>16. ASSUME Fits(t), t.columns = 0, ~MixesPixels(t, v)
       PROVE  Fits(v)
  <2>1. Active(r).size = Active(t).size
    BY <1>6, <1>9, <1>11, <1>16, MixedSizes DEF Typed
  <2>2. ToldOK(r)
    <3>1. r.told = t.told /\ r.reported = t.reported
      BY <1>5, <1>10, <1>11 DEF SameTold
    <3>2. r.inBand = t.inBand
      BY <1>5, <1>10, <1>11 DEF SameBand
    <3>3. QED
      BY <1>16, <2>1, <3>1, <3>2 DEF Fits, ToldOK
  <2>3. ~OnlyPixels(Active(r).size, u.visible)
    BY <1>15, <1>16, <2>1, MixedSizes DEF Typed
  <2>4. ToldOK(v) /\ Active(v).size = u.visible
    BY <1>13, <2>2, <2>3 DEF ResizedWell
  <2>5. QED
    BY <1>15, <1>16, <2>4 DEF Fits, PaneSize, ColumnSize
<1>17. QED
  BY <1>14, <1>16 DEF ResetsWell

-----------------------------------------------------------------------------
(* Steps *)

\* The escape sequences of Next, soft resets left out
Ordinary(op) ==
  \/ \E m \in Modes : op = <<"DECSET", m>>
  \/ \E m \in Modes : op = <<"DECRST", m>>
  \/ \E top, bottom \in Params : op = <<"DECSTBM", top, bottom>>
  \/ \E row, col \in Params : op = <<"CUP", row, col>>
  \/ \E move \in Moves, n \in Params \ {0} : op = <<move, n>>
  \/ op = <<"DECALN">> \/ op = <<"text">> \/ op = <<"DECSC">> \/ op = <<"DECRC">>
  \/ op = <<"HT">> \/ op = <<"HTS">>
  \/ \E sgr \in Renditions : op = <<"SGR", sgr>>
  \/ \E style \in Styles : op = <<"DECSCUSR", style>>
  \/ \E ps \in {0, 3} : op = <<"TBC", ps>>
  \/ \E flags \in KeyFlags, mode \in 1 .. 3 : op = <<"set keys", flags, mode>>
  \/ \E flags \in KeyFlags : op = <<"push", flags>>
  \/ \E n \in Params : op = <<"pop", n>>
  \/ \E n \in Params : op = <<"shift", n>>
  \/ \E how \in {{}, {"active"}, {"active", "hide"}} : op = <<"seamless", how>>
  \/ \E name \in {"title", "palette"} : op = <<"OSC", name>>

LEMMA HandleStays ==
  ASSUME NEW t, Typed(t), InOrder(t), NEW op, Ordinary(op), NEW v \in Handle(t, op)
  PROVE  Stays(t, v)
<1> DEFINE s == Active(t)
<1> USE DEF s
<1>1. Sound(s) /\ Regioned(s)
  BY DEF Typed, ScreensSound, InOrder
<1>2. Params \subseteq Nat
  BY TerminalAssumption
<1>3. CASE \E m \in Modes : op = <<"DECSET", m>>
  <2> DEFINE on == TRUE
  <2>1. PICK m \in Modes : op = <<"DECSET", m>>
    BY <1>3
  <2>2. Handle(t, <<"DECSET", m>>) = SetMode(t, m, on)
    BY DEF Handle, Moves
  <2>3. on \in BOOLEAN
    OBVIOUS
  <2> HIDE DEF on
  <2>4. QED
    BY <2>1, <2>2, <2>3, SetModeStays
<1>4. CASE \E m \in Modes : op = <<"DECRST", m>>
  <2> DEFINE on == FALSE
  <2>1. PICK m \in Modes : op = <<"DECRST", m>>
    BY <1>4
  <2>2. Handle(t, <<"DECRST", m>>) = SetMode(t, m, on)
    BY DEF Handle, Moves
  <2>3. on \in BOOLEAN
    OBVIOUS
  <2> HIDE DEF on
  <2>4. QED
    BY <2>1, <2>2, <2>3, SetModeStays
<1>5. CASE \E top, bottom \in Params : op = <<"DECSTBM", top, bottom>>
  <2>1. PICK top, bottom \in Params : op = <<"DECSTBM", top, bottom>>
    BY <1>5
  <2>2. Handle(t, <<"DECSTBM", top, bottom>>) = {WithActive(t, Margins(s, top, bottom))}
    BY DEF Handle, Moves
  <2>3. ScreenKept(s, Margins(s, top, bottom))
    BY <1>1, <1>2, MarginsKept, KeptSame DEF Sound
  <2>4. QED
    BY <2>1, <2>2, <2>3, WithActiveStays
<1>6. CASE \E row, col \in Params : op = <<"CUP", row, col>>
  <2>1. PICK row, col \in Params : op = <<"CUP", row, col>>
    BY <1>6
  <2>2. Handle(t, <<"CUP", row, col>>) = {WithActive(t, CursorTo(s, row, col))}
    BY DEF Handle, Moves
  <2>3. ScreenKept(s, CursorTo(s, row, col))
    BY <1>1, <1>2, CursorToKept
  <2>4. QED
    BY <2>1, <2>2, <2>3, WithActiveStays
<1>7. CASE \E move \in Moves, n \in Params \ {0} : op = <<move, n>>
  <2>1. PICK move \in Moves, n \in Params \ {0} : op = <<move, n>>
    BY <1>7
  <2>2. Handle(t, <<move, n>>) = {WithActive(t, Moved(s, move, n))}
    BY DEF Handle, Moves
  <2>3. ScreenKept(s, Moved(s, move, n))
    BY <1>1, <1>2, MovedKept
  <2>4. QED
    BY <2>1, <2>2, <2>3, WithActiveStays
<1>8. CASE op = <<"DECALN">>
  <2>1. Handle(t, <<"DECALN">>) = {WithActive(t, Align(s))}
    BY DEF Handle, Moves
  <2>2. ScreenKept(s, Align(s))
    BY <1>1, AlignKept
  <2>3. QED
    BY <1>8, <2>1, <2>2, WithActiveStays
<1>9. CASE op = <<"text">>
  <2>1. Handle(t, <<"text">>) = {WithActive(t, FillRow(s))}
    BY DEF Handle, Moves
  <2>2. ScreenKept(s, FillRow(s))
    BY <1>1, FillRowKept
  <2>3. QED
    BY <1>9, <2>1, <2>2, WithActiveStays
<1>10. CASE op = <<"DECSC">>
  <2>1. Handle(t, <<"DECSC">>) = {WithActive(t, Save(s))}
    BY DEF Handle, Moves
  <2>2. ScreenKept(s, Save(s))
    BY <1>1, SaveKept
  <2>3. QED
    BY <1>10, <2>1, <2>2, WithActiveStays
<1>11. CASE op = <<"DECRC">>
  <2>1. Handle(t, <<"DECRC">>) = {WithActive(t, Restore(s))}
    BY DEF Handle, Moves
  <2>2. ScreenKept(s, Restore(s))
    BY <1>1, RestoreKept
  <2>3. QED
    BY <1>11, <2>1, <2>2, WithActiveStays
<1>12. CASE \E sgr \in Renditions : op = <<"SGR", sgr>>
  <2>1. PICK sgr \in Renditions : op = <<"SGR", sgr>>
    BY <1>12
  <2>2. Handle(t, <<"SGR", sgr>>) = {WithActive(t, [s EXCEPT !.sgr = sgr])}
    BY DEF Handle, Moves
  <2>3. ScreenKept(s, [s EXCEPT !.sgr = sgr])
    BY <1>1, <1>2, RenditionKept
  <2>4. QED
    BY <2>1, <2>2, <2>3, WithActiveStays
<1>13. CASE \E style \in Styles : op = <<"DECSCUSR", style>>
  <2>1. PICK style \in Styles : op = <<"DECSCUSR", style>>
    BY <1>13
  <2>2. Handle(t, <<"DECSCUSR", style>>) = {WithActive(t, SetStyle(s, style))}
    BY DEF Handle, Moves
  <2>3. ScreenKept(s, SetStyle(s, style))
    BY <1>1, <1>2, SetStyleKept
  <2>4. QED
    BY <2>1, <2>2, <2>3, WithActiveStays
<1>14. CASE op = <<"HT">>
  <2>1. Handle(t, <<"HT">>) = {NextTab(t)}
    BY DEF Handle, Moves
  <2>2. QED
    BY <1>14, <2>1, NextTabStays
<1>15. CASE op = <<"HTS">>
  <2>1. Handle(t, <<"HTS">>) = {SetTab(t)}
    BY DEF Handle, Moves
  <2>2. QED
    BY <1>15, <2>1, SetTabStays
<1>16. CASE \E ps \in {0, 3} : op = <<"TBC", ps>>
  <2>1. PICK ps \in {0, 3} : op = <<"TBC", ps>>
    BY <1>16
  <2>2. Handle(t, <<"TBC", ps>>) = {ClearTab(t, ps)}
    BY DEF Handle, Moves
  <2>3. QED
    BY <2>1, <2>2, ClearTabStays
<1>17. CASE \E flags \in KeyFlags, mode \in 1 .. 3 : op = <<"set keys", flags, mode>>
  <2>1. PICK flags \in KeyFlags, mode \in 1 .. 3 : op = <<"set keys", flags, mode>>
    BY <1>17
  <2>2. Handle(t, <<"set keys", flags, mode>>) = {WithActive(t, SetKeys(s, flags, mode))}
    BY DEF Handle, Moves
  <2>3. ScreenKept(s, SetKeys(s, flags, mode))
    BY <1>1, <1>2, SetKeysKept
  <2>4. QED
    BY <2>1, <2>2, <2>3, WithActiveStays
<1>18. CASE \E flags \in KeyFlags : op = <<"push", flags>>
  <2>1. PICK flags \in KeyFlags : op = <<"push", flags>>
    BY <1>18
  <2>2. Handle(t, <<"push", flags>>) = {WithActive(t, PushKeys(s, flags))}
    BY DEF Handle, Moves
  <2>3. ScreenKept(s, PushKeys(s, flags))
    BY <1>1, <1>2, PushKeysKept
  <2>4. QED
    BY <2>1, <2>2, <2>3, WithActiveStays
<1>19. CASE \E n \in Params : op = <<"pop", n>>
  <2>1. PICK n \in Params : op = <<"pop", n>>
    BY <1>19
  <2>2. Handle(t, <<"pop", n>>) = {WithActive(t, PopKeys(s, n))}
    BY DEF Handle, Moves
  <2>3. ScreenKept(s, PopKeys(s, n))
    BY <1>1, <1>2, PopKeysKept
  <2>4. QED
    BY <2>1, <2>2, <2>3, WithActiveStays
<1>20. CASE \E n \in Params : op = <<"shift", n>>
  <2>1. PICK n \in Params : op = <<"shift", n>>
    BY <1>20
  <2>2. Handle(t, <<"shift", n>>) = {IF n >= 3 THEN t ELSE [t EXCEPT !.shift = n]}
    BY DEF Handle, Moves
  <2>3. v = t \/ v = [t EXCEPT !.shift = n]
    BY <2>1, <2>2
  <2>4. QED
    BY <2>3, SameStays, FlagsStay
<1>21. CASE \E how \in {{}, {"active"}, {"active", "hide"}} : op = <<"seamless", how>>
  <2>1. PICK how \in {{}, {"active"}, {"active", "hide"}} : op = <<"seamless", how>>
    BY <1>21
  <2>2. Handle(t, <<"seamless", how>>) = {WithActive(t, Register(s, how))}
    BY DEF Handle, Moves
  <2>3. ScreenKept(s, Register(s, how))
    BY <1>1, <1>2, RegisterKept
  <2>4. QED
    BY <2>1, <2>2, <2>3, WithActiveStays
<1>22. CASE \E name \in {"title", "palette"} : op = <<"OSC", name>>
  <2>1. PICK name \in {"title", "palette"} : op = <<"OSC", name>>
    BY <1>22
  <2> DEFINE osc == t.osc \cup {name}
  <2>2. Handle(t, <<"OSC", name>>) = {[t EXCEPT !.osc = osc]}
    BY DEF Handle, Moves
  <2> HIDE DEF osc
  <2>3. v = [t EXCEPT !.osc = osc]
    BY <2>1, <2>2
  <2>4. QED
    BY <2>3, FlagsStay
<1>23. QED
  BY <1>3, <1>4, <1>5, <1>6, <1>7, <1>8, <1>9, <1>10, <1>11, <1>12, <1>13, <1>14, <1>15, <1>16, <1>17, <1>18, <1>19, <1>20, <1>21, <1>22 DEF Ordinary

\* That the margins are not lost is what the situation "region" is about.
LEMMA RegionInOrder ==
  ASSUME NEW t, Typed(t), ~LosesRegion(t)
  PROVE  InOrder(t)
<1>1. \A i \in DOMAIN t.screens : ~(t.screens[i].region.top >= t.screens[i].region.bottom)
  BY DEF LosesRegion
<1>2. 1 \in DOMAIN t.screens /\ \E i \in DOMAIN t.screens : Active(t) = t.screens[i]
  <2>1. CASE Len(t.screens) = 1 /\ Active(t) = t.screens[1] /\ DOMAIN t.screens = 1 .. 1
    BY <2>1
  <2>2. CASE Len(t.screens) = 2 /\ Active(t) = t.screens[2] /\ DOMAIN t.screens = 1 .. 2
    BY <2>2
  <2>3. QED
    BY <2>1, <2>2, Places DEF Typed
<1>3. /\ ~(Active(t).region.top >= Active(t).region.bottom)
      /\ ~(t.screens[1].region.top >= t.screens[1].region.bottom)
  BY <1>1, <1>2
<1>4. \A s : Sound(s) /\ ~(s.region.top >= s.region.bottom) => Regioned(s)
  BY SoundNumbers DEF Regioned
<1>5. QED
  BY <1>3, <1>4 DEF InOrder, Typed, ScreensSound

LEMMA Starts ==
  ASSUME Init
  PROVE  Typed(term) /\ InOrder(term) /\ Fits(term)
<1>1. PICK size \in Sizes : term = NewTerminal(size, FALSE)
  BY DEF Init
<1> DEFINE s    == NewScreen(size)
           one  == <<s>>
           none == {}
<1>2. size \in SizeSet
  BY TerminalAssumption DEF SizeSet
<1>3. Sound(s) /\ s.size = size /\ Regioned(s)
  BY <1>2, NewScreenSound
<1> HIDE DEF s
<1>4. Len(one) = 1 /\ one[1] = s
  OBVIOUS
<1>5. none \in SUBSET Nat
  OBVIOUS
<1>6. term = [screens |-> one, visible |-> size, told |-> size, reported |-> size,
              columns |-> 0, allowed |-> FALSE, forced |-> FALSE, allowForce |-> FALSE,
              on |-> OnAtFirst, inBand |-> FALSE, protocol |-> 0, encoding |-> 0, shift |-> 0,
              tabs |-> none, osc |-> none]
  BY <1>1 DEF NewTerminal, s
<1> HIDE DEF none
<1>7. TerminalShape(term)
  BY <1>6 DEF TerminalShape
<1>8. term.screens = one
  BY <1>6
<1>9. Active(term) = s /\ term.screens[1] = s /\ Stacked(term)
  BY <1>4, <1>8 DEF Active, Stacked, one
<1>10. SettingsOK(term)
  BY <1>2, <1>5, <1>6 DEF SettingsOK
<1>11. Typed(term) /\ InOrder(term)
  BY <1>3, <1>7, <1>9, <1>10 DEF Typed, ScreensSound, InOrder
<1>12. term.told = size /\ term.reported = size /\ term.visible = size /\ term.columns = 0
  BY <1>6
<1>13. Fits(term)
  BY <1>3, <1>9, <1>12 DEF Fits, ToldOK, PaneSize, ColumnSize
<1>14. QED
  BY <1>11, <1>13

LEMMA StepStays ==
  ASSUME Typed(term), InOrder(term), Next
  PROVE  Stays(term, term') \/ (ResetsWell(term, term') /\ ReceiveReset)
<1>1. \/ \E op : Ordinary(op) /\ Receive(op)
      \/ ReceiveReset \/ (\E size \in Sizes : PaneResized(size)) \/ NavigateEntered
  BY DEF Next, Ordinary
<1>2. ASSUME NEW op, Ordinary(op), Receive(op)
      PROVE  Stays(term, term')
  BY <1>2, HandleStays DEF Receive, Becomes
<1>3. ASSUME ReceiveReset
      PROVE  ResetsWell(term, term')
  <2>1. term' \in Handle(term, <<"DECSTR">>)
    BY <1>3 DEF ReceiveReset, Receive, Becomes
  <2>2. Handle(term, <<"DECSTR">>) = SoftReset(term)
    BY DEF Handle, Moves
  <2>3. QED
    BY <2>1, <2>2, SoftResetWell
<1>4. ASSUME NEW size \in Sizes, PaneResized(size)
      PROVE  Stays(term, term')
  <2>1. size \in SizeSet
    BY TerminalAssumption DEF SizeSet
  <2>2. QED
    BY <1>4, <2>1, SetVisibleSizeStays DEF PaneResized, Becomes
<1>5. ASSUME NavigateEntered
      PROVE  Stays(term, term')
  <2> DEFINE off == FALSE
  <2>1. term' = Switch(term, 25, off)
    BY <1>5 DEF NavigateEntered, Becomes
  <2>2. off \in BOOLEAN
    OBVIOUS
  <2> HIDE DEF off
  <2>3. QED
    BY <2>1, <2>2, SwitchStays
<1>6. QED
  BY <1>1, <1>2, <1>3, <1>4, <1>5

LEMMA StepAvoids ==
  ASSUME Next
  PROVE  /\ "pixels" \in Avoid => ~MixesPixels(term, term')
         /\ "region" \in Avoid => ~LosesRegion(term')
<1>1. \E outcomes : Becomes(outcomes)
  BY DEF Next, Receive, ReceiveReset, PaneResized, NavigateEntered
<1>2. ASSUME NEW outcomes, Becomes(outcomes)
      PROVE  /\ "pixels" \in Avoid => ~MixesPixels(term, term')
             /\ "region" \in Avoid => ~LosesRegion(term')
  BY <1>2 DEF Becomes, Leaves
<1>3. QED
  BY <1>1, <1>2

LEMMA StepOrdered ==
  ASSUME "region" \in Avoid, Typed(term), InOrder(term), Next
  PROVE  Typed(term') /\ InOrder(term')
<1>1. Typed(term')
  BY StepStays DEF Stays, ResetsWell
<1>2. ~LosesRegion(term')
  BY StepAvoids
<1>3. QED
  BY <1>1, <1>2, RegionInOrder

LEMMA StepFits ==
  ASSUME "pixels" \in Avoid, "reset" \in Avoid, Typed(term), InOrder(term), Fits(term), Next
  PROVE  Fits(term')
<1>1. ~MixesPixels(term, term')
  BY StepAvoids
<1>2. ReceiveReset => term.columns = 0
  BY DEF ReceiveReset, Leaves
<1>3. QED
  BY <1>1, <1>2, StepStays DEF Stays, ResetsWell

LEMMA ScreensOK ==
  ASSUME NEW s, Sound(s), Regioned(s)
  PROVE  ScreenOK(s)
<1>1. /\ s.size.rows \in Nat \ {0} /\ s.size.cols \in Nat \ {0} /\ s.size.cell \in Nat
      /\ s.region.top \in Nat /\ s.region.bottom \in Nat
      /\ 1 <= s.region.bottom /\ s.region.bottom <= s.size.rows
  BY SoundNumbers
<1>2. s.region.top < s.region.bottom
  BY DEF Regioned
<1>3. s.region \in [top : 0 .. s.size.rows - 1, bottom : 1 .. s.size.rows]
  <2>1. s.region.top \in 0 .. s.size.rows - 1 /\ s.region.bottom \in 1 .. s.size.rows
    BY <1>1, <1>2
  <2>2. s.region \in [top : Nat, bottom : 1 .. s.size.rows]
    BY DEF Sound, Framed, MarginsOn
  <2>3. QED
    BY <2>1, <2>2
<1>4. s.stack \in Seq(SUBSET UNION KeyFlags) /\ Len(s.stack) <= MaxStack
  BY DEF Sound, Framed, KeysSound, AllKeys
<1>5. Len(s.saved) <= 1
  <2>1. Len(s.saved) \in {0, 1}
    BY DEF Sound, Framed, SavedSound
  <2>2. \A n \in {0, 1} : n <= 1
    OBVIOUS
  <2>3. QED
    BY <2>1, <2>2
<1>6. s.cursor \in [row : 0 .. s.size.rows - 1, col : 0 .. s.size.cols - 1, over : BOOLEAN]
  BY DEF Sound, CursorOn
<1>7. QED
  BY <1>1, <1>2, <1>3, <1>4, <1>5, <1>6 DEF ScreenOK

LEMMA TypesOK ==
  ASSUME Typed(term), InOrder(term)
  PROVE  TypeOK
<1>1. ScreenOK(Active(term)) /\ ScreenOK(term.screens[1])
  BY ScreensOK DEF Typed, ScreensSound, InOrder
<1>2. Len(term.screens) \in {1, 2} /\ \A i \in DOMAIN term.screens : ScreenOK(term.screens[i])
  <2>1. CASE /\ Len(term.screens) = 1 /\ Active(term) = term.screens[1]
             /\ DOMAIN term.screens = 1 .. 1
    BY <1>1, <2>1
  <2>2. CASE /\ Len(term.screens) = 2 /\ Active(term) = term.screens[2]
             /\ DOMAIN term.screens = 1 .. 2
    BY <1>1, <2>2
  <2>3. QED
    BY <2>1, <2>2, Places DEF Typed
<1>3. QED
  BY <1>2 DEF TypeOK, Typed, SettingsOK

-----------------------------------------------------------------------------
(***************************************************************************)
(* The invariants: what is on the screens is sound and in order, and the   *)
(* sizes the terminal, its program and the pane go by fit each other.      *)
(***************************************************************************)
Ordered   == Typed(term) /\ InOrder(term)
OrderedFit == Ordered /\ Fits(term)

LEMMA OrderedAlways ==
  ASSUME "region" \in Avoid
  PROVE  Spec => []Ordered
<1>1. Init => Ordered
  BY Starts DEF Ordered
<1>2. Ordered /\ [Next]_vars => Ordered'
  <2>1. ASSUME Ordered, Next
        PROVE  Ordered'
    BY <2>1, StepOrdered DEF Ordered, Typed, InOrder, TerminalShape, Stacked, ScreensSound, SettingsOK,
       Active
  <2>2. ASSUME Ordered, UNCHANGED vars
        PROVE  Ordered'
    BY <2>2 DEF Ordered, vars, Typed, InOrder, TerminalShape, Stacked, ScreensSound, SettingsOK, Active
  <2>3. QED
    BY <2>1, <2>2
<1>3. QED
  BY <1>1, <1>2, PTL DEF Spec

LEMMA OrderedFitAlways ==
  ASSUME {"pixels", "region", "reset"} \subseteq Avoid
  PROVE  Spec => []OrderedFit
<1>1. Init => OrderedFit
  BY Starts DEF Ordered, OrderedFit
<1>2. OrderedFit /\ [Next]_vars => OrderedFit'
  <2>1. ASSUME OrderedFit, Next
        PROVE  OrderedFit'
    BY <2>1, StepOrdered, StepFits DEF OrderedFit, Ordered, Typed, InOrder, TerminalShape, Stacked,
       ScreensSound, SettingsOK, Active, Fits, ToldOK, PaneSize, ColumnSize
  <2>2. ASSUME OrderedFit, UNCHANGED vars
        PROVE  OrderedFit'
    BY <2>2 DEF OrderedFit, Ordered, vars
  <2>3. QED
    BY <2>1, <2>2
<1>3. QED
  BY <1>1, <1>2, PTL DEF Spec

(***************************************************************************)
(* Whatever a program sends and however its pane is resized, the cursor    *)
(* and the margins of both screens are on them (which set_scroll_region    *)
(* and set_cursor_col of screen.cpp assert), the stack of key reporting    *)
(* flags keeps to its limit, the size the program has last been told is    *)
(* that of the screen it draws on, and that is the size of the pane unless *)
(* the program has chosen its columns (Terminal::resize,                   *)
(* set_visible_size, set_use_alternate_screen_buffer and the handlers of   *)
(* DECCOLM and DECSTR, terminal.cpp).                                      *)
(***************************************************************************)
THEOREM SizeAlwaysTold ==
  ASSUME {"pixels", "region", "reset"} \subseteq Avoid
  PROVE  Spec => []SizeTold
<1>1. OrderedFit => SizeTold
  BY TypesOK DEF OrderedFit, Ordered, Fits, ToldOK, PaneSize, ColumnSize, SizeTold
<1>2. QED
  BY <1>1, OrderedFitAlways, PTL

(***************************************************************************)
(* A program that uses the alternate screen leaves the primary one alone:  *)
(* until it leaves the alternate screen nothing of the primary one         *)
(* changes, and then, whatever sizes there have been since, its flags,     *)
(* saved cursor, margin, rendition, style and registration are those of    *)
(* before, unless it was a soft reset that left                            *)
(* (set_use_alternate_screen_buffer, soft_reset, terminal.cpp).            *)
(***************************************************************************)
THEOREM PrimaryAlwaysKept ==
  ASSUME "region" \in Avoid
  PROVE  Spec => PrimaryKept
<1>1. ASSUME Ordered, Next, InAlternate(term)
      PROVE  IF InAlternate(term') THEN term'.screens[1] = term.screens[1]
             ELSE Kept(term'.screens[1]) = Kept(term.screens[1]) \/ ReceiveReset
  <2>1. CASE Stays(term, term')
    BY <1>1, <2>1 DEF Stays, PrimaryStays
  <2>2. CASE ResetsWell(term, term') /\ ReceiveReset
    BY <2>2 DEF ResetsWell
  <2>3. QED
    BY <1>1, <2>1, <2>2, StepStays DEF Ordered
<1>2. Ordered /\ [Next]_vars =>
        [InAlternate(term) =>
           IF InAlternate(term') THEN term'.screens[1] = term.screens[1]
           ELSE Kept(term'.screens[1]) = Kept(term.screens[1]) \/ ReceiveReset]_vars
  BY <1>1
<1>3. QED
  BY <1>2, OrderedAlways, PTL DEF Spec, PrimaryKept
=============================================================================
