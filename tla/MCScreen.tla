------------------------------ MODULE MCScreen ------------------------------
EXTENDS Screen

(* One row for wide cells that overlap, one column for scroll regions, and both at once. *)
MCSizes   == {<<1, 4>>, <<3, 1>>, <<2, 2>>}
(* Margins that are ignored, and the first or last two of three rows. *)
MCRegions == {<<0, 0>>, <<1, 2>>, <<2, 3>>}
=============================================================================
