---------------------------- MODULE MCClipboard ----------------------------
(* A small instance of Clipboard for TLC: selection 1 is known to the outer terminal, *)
(* selection 2 is not.                                                                *)
EXTENDS Clipboard
=============================================================================
