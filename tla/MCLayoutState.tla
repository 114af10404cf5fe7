--------------------------- MODULE MCLayoutState ---------------------------
(* Small instances of LayoutState for TLC. *)
EXTENDS LayoutState, TLC

\* Addresses are interchangeable: no definition chooses one by its name.
AddressSymmetry == Permutations(Session) \cup Permutations(Tab) \cup Permutations(Pane)

\* No exited pane stays for ever.  Panes are interchangeable, so one stands for all of them.
ExitedPaneRemoved == ExitedPaneIsRemoved(CHOOSE p \in Pane : TRUE)
=============================================================================
