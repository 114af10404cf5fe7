------------------------- MODULE ClipboardRequests -------------------------
(***************************************************************************)
(* What the clipboard of ttx promises to the programs in its panes: every  *)
(* OSC 52 query is answered at most once and none is forgotten.  A query   *)
(* is owed an answer until it is given one; the answers are given when the *)
(* render thread comes round, any number of them at a time.                *)
(***************************************************************************)
EXTENDS Naturals

CONSTANTS Selections,  \* the selections that can be asked for
          Identifiers  \* the panes that ask

VARIABLES asked,       \* asked[sel][i]: queries pane i has made for sel
          owed,        \* those that have no answer yet
          answered     \* answers given to pane i for sel

vars == <<asked, owed, answered>>

Init ==
    /\ asked = [sel \in Selections |-> [i \in Identifiers |-> 0]]
    /\ owed = asked
    /\ answered = asked

Ask(sel, i) ==
    /\ asked' = [asked EXCEPT ![sel][i] = @ + 1]
    /\ owed' = [owed EXCEPT ![sel][i] = @ + 1]
    /\ UNCHANGED answered

Answer ==
    /\ owed' \in [Selections -> [Identifiers -> Nat]]
    /\ answered' \in [Selections -> [Identifiers -> Nat]]
    /\ \A sel \in Selections, i \in Identifiers :
          /\ answered'[sel][i] >= answered[sel][i]
          /\ owed'[sel][i] + answered'[sel][i] = owed[sel][i] + answered[sel][i]
    /\ UNCHANGED asked

Next == Answer \/ \E sel \in Selections, i \in Identifiers : Ask(sel, i)

Spec == Init /\ [][Next]_vars
=============================================================================
