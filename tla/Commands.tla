------------------------------ MODULE Commands ------------------------------
(***************************************************************************)
(* The commands a shell marks with OSC 133 (semantic_prompt.cpp): for each *)
(* the positions where its prompt starts and ends and its output starts    *)
(* and ends, and the nesting depth.  The methods of the class Commands are *)
(* operators on records [list, depth].                                     *)
(***************************************************************************)
EXTENDS Integers, SequencesExt

CONSTANTS
  MaxDepth,           \* Commands::max_depth
  MaxCommands         \* Commands::max_commands

ASSUME CommandsAssumption == MaxDepth \in Nat \ {0} /\ MaxCommands \in Nat \ {0}

(* The depth is unsigned; DepthWord stands for 2^32. *)
DepthWord  == 1024

NoPos      == <<0, 0>>
NoCommands == [list |-> <<>>, depth |-> 0]

NewCommand(id, redraw, pos, depth) ==
  [id |-> id, redraw |-> redraw, promptStart |-> pos, promptEnd |-> pos,
   outputStart |-> NoPos, outputEnd |-> NoPos, depth |-> depth, ended |-> FALSE]

(* The list without the elements at its end, or at its front, that are to go. *)
DropBack(list, Goes(_))  == SubSeq(list, 1, Max({0} \cup {i \in DOMAIN list : ~Goes(list[i])}))
DropFront(list, Goes(_)) ==
  SubSeq(list, Min({Len(list) + 1} \cup {i \in DOMAIN list : ~Goes(list[i])}), Len(list))

(* Mutant: commands stay when their rows are gone. *)
ClampCommands_KeepFront(cs, start, end) ==
  LET Beyond(c) == c.outputEnd[1] > end IN [cs EXCEPT !.list = DropBack(@, Beyond)]

ClampCommands(cs, start, end) ==
  LET Above(c)  == c.promptStart[1] < start
      Beyond(c) == c.outputEnd[1] > end
  IN  [cs EXCEPT !.list = DropBack(DropFront(@, Above), Beyond)]

BeginPrompt(cs, id, redraw, pos) ==
  LET After(c) == c.promptStart[1] >= pos[1]
      list     == DropBack(cs.list, After)
  IN  IF cs.depth >= MaxDepth THEN cs
      ELSE IF Len(list) >= MaxCommands THEN [cs EXCEPT !.list = list]
      ELSE [list  |-> Append(list, NewCommand(id, redraw, pos, cs.depth)),
            depth |-> cs.depth + 1]

Discard(cs) == [list |-> Front(cs.list), depth |-> (cs.depth - 1) % DepthWord]

EndPrompt(cs, pos) ==
  IF cs.list = <<>> THEN cs
  ELSE LET start == Last(cs.list).promptStart
       IN  IF pos[1] < start[1] \/ (pos[1] = start[1] /\ pos[2] < start[2])
           THEN Discard(cs)
           ELSE [cs EXCEPT !.list[Len(cs.list)] = [@ EXCEPT !.promptEnd = pos]]

EndInput(cs, pos) ==
  IF cs.list = <<>> THEN cs
  ELSE IF pos[1] < Last(cs.list).promptStart[1] THEN Discard(cs)
  ELSE [cs EXCEPT !.list[Len(cs.list)] = [@ EXCEPT !.outputStart = <<pos[1], 0>>]]

(* Ends the last command, or the last one with the id and all after it,    *)
(* and forgets those whose output would start after it ends.               *)
EndCommand(cs, id, pos) ==
  LET first    == IF id = "" THEN Len(cs.list)
                  ELSE SelectLastInSeq(cs.list, LAMBDA c : c.id = id)
      Ended(c) == [c EXCEPT !.outputEnd = <<pos[1], 0>>, !.ended = TRUE]
      tail     == [i \in 1 .. Len(cs.list) - first + 1 |-> Ended(cs.list[first - 1 + i])]
      Valid(c) == ~(c.outputStart[1] > pos[1])
  IN  IF first = 0 THEN cs
      ELSE [list  |-> SubSeq(cs.list, 1, first - 1) \o SelectSeq(tail, Valid),
            depth |-> cs.list[first].depth]

-----------------------------------------------------------------------------
NoRow == -1

(* The row of the prompt the shell is going to redraw, when the cursor's   *)
(* row is in it.                                                           *)
RedrawPromptRow(cs, row) ==
  IF cs.list = <<>> THEN NoRow
  ELSE LET c == Last(cs.list)
       IN  IF /\ row >= c.promptStart[1]
              /\ c.outputStart[1] = 0 \/ row <= c.outputStart[1]
              /\ c.redraw
           THEN c.promptStart[1] ELSE NoRow

(* The last command that starts before the row.  There is none to go to    *)
(* when every command starts before it.                                    *)
FirstBefore(cs, row) ==
  LET bound == SelectInSeq(cs.list, LAMBDA c : c.promptStart[1] >= row)
  IN  IF bound <= 1 THEN NoRow ELSE cs.list[bound - 1].promptStart[1]

FirstAfter(cs, row) ==
  LET bound == SelectInSeq(cs.list, LAMBDA c : c.promptStart[1] > row)
  IN  IF bound = 0 THEN NoRow ELSE cs.list[bound].promptStart[1]

(* The rows text_in_last_command reads of the command that ended last; any *)
(* of those that ended becomes that one when the ones after it go.         *)
CopiedRows(c, withCommand) ==
  LET first == IF withCommand THEN c.promptEnd[1] ELSE c.outputStart[1]
      end   == c.outputEnd[1]
  IN  {first, IF first = end THEN end ELSE end - 1}

MapCommands(cs, Map(_)) ==
  [cs EXCEPT !.list = [i \in DOMAIN cs.list |->
     [cs.list[i] EXCEPT !.promptStart = Map(@), !.promptEnd = Map(@),
                        !.outputStart = Map(@), !.outputEnd = Map(@)]]]
=============================================================================
