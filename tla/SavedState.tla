----------------------------- MODULE SavedState -----------------------------
(***************************************************************************)
(* The state of a terminal as escape sequences                             *)
(* (Terminal::state_as_escape_sequences and Screen's): what the save-state *)
(* binding writes to a file and `ttx replay` reads.  Replayed in a new     *)
(* terminal, whatever its size, they should lead to the same state.        *)
(***************************************************************************)
EXTENDS Terminal, FiniteSetsExt, SequencesExt

Number(flags) == SumSet(flags)

(* The margins, the text with the cursor saved in it, and the rest. *)
SavedScreen(s) ==
  <<<<"DECSTBM", 1, s.size.rows>>>>
  \o (IF s.origin THEN <<<<"DECSET", 6>>>> ELSE <<>>)
  \o <<<<"contents", s.cursor>>,
       <<"DECSTBM", s.region.top + 1, s.region.bottom + 2>>,
       <<"DECRC">>,
       <<"SGR", s.sgr>>,
       <<"DECSCUSR", s.style>>>>

(* The first flags are set and the others pushed; the parameters of the    *)
(* sequence that sets them are the wrong way round.                        *)
SavedKeys(s) ==
  LET levels == Append(s.stack, s.keys)
  IN  <<<<"set keys", {1}, Number(levels[1])>>>>
      \o [i \in 1 .. Len(levels) - 1 |-> <<"push", levels[i + 1]>>]

SavedSeamless(s) == IF "active" \in s.seamless THEN <<<<"seamless", {"active"}>>>> ELSE <<>>

WholeScreen(s) == SavedScreen(s) \o SavedKeys(s) \o SavedSeamless(s)

SavedScreens(t) ==
  <<<<"DECSET", 7>>>> \o WholeScreen(t.screens[1])
  \o (IF InAlternate(t) THEN <<<<"DECSET", 1049>>, <<"CUP", 0, 0>>>> \o WholeScreen(Active(t))
      ELSE <<>>)

SavedSize(t) ==
  <<<<"size", Active(t).size.rows, Active(t).size.cols>>>>
  \o CASE t.columns = 0          -> <<>>
       [] t.columns = NarrowCols -> <<<<"DECSET", 40>>, <<"DECRST", 3>>>>
       [] OTHER                  -> <<<<"DECSET", 40>>, <<"DECSET", 3>>>>

SavedTabs(t) ==
  LET cols == SetToSortSeq(t.tabs, LAMBDA a, b : a < b)
  IN  FlattenSeq([i \in DOMAIN cols |-> <<<<"CUP", 0, cols[i]>>, <<"HTS">>>>])

(* Flags that differ from those of a new terminal, but for drawing. *)
SavedModes(t) ==
  LET Differ(m) == m # 2026 /\ (m \in t.on) # (m \in OnAtFirst)
      modes     == SetToSeq({m \in Flags : Differ(m)})
      Sets(m)   == IF m = 0 THEN <<>> ELSE <<<<"DECSET", m>>>>
  IN  [i \in DOMAIN modes |-> <<IF modes[i] \in t.on THEN "DECSET" ELSE "DECRST", modes[i]>>]
      \o Sets(t.protocol) \o Sets(t.encoding)
      \o (IF t.shift # 0 THEN <<<<"shift", t.shift>>>> ELSE <<>>)
      \o (IF t.inBand THEN Sets(2048) ELSE <<>>)

SavedStrings(t) == SetToSeq({<<"OSC", name>> : name \in t.osc})

(* Mutant: the modes are written before the screens. *)
Saved_ModesFirst(t) ==
  SavedSize(t) \o SavedTabs(t) \o SavedModes(t) \o SavedScreens(t) \o SavedStrings(t)

Saved(t) ==
  SavedSize(t) \o SavedTabs(t) \o SavedScreens(t) \o SavedModes(t) \o SavedStrings(t)

(* All that handling escape sequences can lead to. *)
RECURSIVE Replay(_, _)
Replay(terms, ops) ==
  IF ops = <<>> THEN terms
  ELSE Replay(UNION {Handle(t, Head(ops)) : t \in terms}, Tail(ops))

-----------------------------------------------------------------------------
(***************************************************************************)
(* Situations in which the state is not the same afterwards, each with the *)
(* fields that it costs.                                                   *)
(*   "margins"  the bottom margin is not the last row                      *)
(*   "line"     a region of a single row, which a change of the size can   *)
(*              leave but which is refused when it is set                  *)
(*   "keys"     key reporting flags were in use before any were pushed     *)
(*   "decsc"    a saved cursor is not part of what is written              *)
(*   "tabs"     a tab stop to the right of the screen                      *)
(*   "allow"    80 and 132 column mode allowed but not used                *)
(*   "hide"     the option to hide the cursor when it is navigated to      *)
(*   "pending"  a wrap pending left of the last column, after a resize     *)
(*   "outside"  the cursor outside of the margins in origin mode           *)
(*   "stale"    the primary screen has the size before the last resize     *)
(***************************************************************************)
SameSize(a, b) == a.rows = b.rows /\ a.cols = b.cols

ScreenLost(situation, s) ==
  CASE situation = "margins" -> s.region.bottom # s.size.rows
    [] situation = "line"    -> s.region.bottom = s.region.top + 1 /\ s.size.rows > 1
    [] situation = "keys"    -> Append(s.stack, s.keys)[1] \notin {{}, {1}}
    [] situation = "decsc"   -> s.saved # <<>>
    [] situation = "hide"    -> "hide" \in s.seamless
    [] situation = "pending" -> s.cursor.over /\ s.cursor.col < s.size.cols - 1
    [] situation = "outside" -> s.origin /\ s.cursor.row \notin s.region.top .. s.region.bottom - 1
    [] OTHER                 -> FALSE

Costs(situation) ==
  CASE situation = "margins" -> {"region"}
    [] situation = "line"    -> {"region"}
    [] situation = "keys"    -> {"keys", "stack"}
    [] situation = "decsc"   -> {"saved"}
    [] situation = "hide"    -> {"seamless"}
    [] situation = "pending" -> {"cursor"}
    [] situation = "outside" -> {"cursor"}
    [] situation = "tabs"    -> {"tabs"}
    [] situation = "allow"   -> {"allowed"}
    [] situation = "stale"   -> {"size", "region", "cursor"}
    [] OTHER                 -> {}

(* What is to be the same: all but the size of the pane and of its cells,  *)
(* what the program was told, and whether it is held back from drawing.    *)
ScreenFields == {"cursor", "origin", "region", "sgr", "saved", "style", "keys", "stack", "seamless"}
Fields       == {"columns", "allowed", "inBand", "protocol", "encoding", "shift", "tabs", "osc"}

ScreenDiffers(s, r) == {f \in ScreenFields : s[f] # r[f]}
                       \cup (IF SameSize(s.size, r.size) THEN {} ELSE {"size"})
Differs(t, r)       == {f \in Fields : t[f] # r[f]}
                       \cup (IF t.on \ {2026} = r.on \ {2026} THEN {} ELSE {"on"})

Lost(situation, t) ==
  CASE situation = "tabs"  -> \E c \in t.tabs : c >= Active(t).size.cols
    [] situation = "allow" -> t.allowed /\ t.columns = 0
    [] OTHER               -> FALSE

Stale(situation, t) == situation = "stale" /\ ~SameSize(t.screens[1].size, Active(t).size)

(* The terminals that the state written leads to, whatever their size. *)
Replayed == UNION {Replay({NewTerminal(size, TRUE)}, Saved(term)) : size \in Sizes}

(* Replayed in a terminal of any size, what is written gives the state it  *)
(* was written of, on both screens, but for the fields that a situation of *)
(* Avoid costs.                                                            *)
Restored ==
  \A r \in Replayed :
    /\ Len(r.screens) = Len(term.screens)
    /\ Differs(term, r) \subseteq UNION {Costs(x) : x \in {y \in Avoid : Lost(y, term)}}
    /\ \A i \in DOMAIN r.screens :
         ScreenDiffers(term.screens[i], r.screens[i]) \subseteq
           UNION {Costs(x) : x \in {y \in Avoid : ScreenLost(y, term.screens[i]) \/ Stale(y, term)}}

(* "Return a string which when replayed will result in the terminal having *)
(* state identical to the current state" (lib/include/ttx/terminal.h): it  *)
(* does not, in each of the situations above.                              *)
StateIdentical ==
  \A r \in Replayed :
    /\ Len(r.screens) = Len(term.screens) /\ Differs(term, r) = {}
    /\ \A i \in DOMAIN r.screens : ScreenDiffers(term.screens[i], r.screens[i]) = {}

(* The same promise, of the margins and the key reporting flags alone.     *)
(* The end of the margins is written as two more than it is                *)
(* (screen.cpp:1842), and the flags where their mode belongs               *)
(* (terminal.cpp:1447).                                                    *)
MarginsIdentical ==
  \A r \in Replayed : Active(r).region = Active(term).region
KeysIdentical ==
  \A r \in Replayed : <<Active(r).keys, Active(r).stack>> = <<Active(term).keys, Active(term).stack>>
=============================================================================
