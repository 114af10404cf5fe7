--------------------------- MODULE MCPaneThreads ---------------------------
(* Small instances of PaneThreads for TLC. *)
EXTENDS PaneThreads
=============================================================================
