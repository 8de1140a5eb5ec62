------------------------------ MODULE MCLogin ------------------------------
(***************************************************************************)
(* One account with two requests at a time and two links, over six units   *)
(* of time: a window and each life end within it, at different points.     *)
(***************************************************************************)
EXTENDS Login, TLC

CONSTANTS c1, c2, l1, l2
Symmetric == Permutations({c1, c2}) \cup Permutations({l1, l2})
=============================================================================
