---------------------------- MODULE MCWindowState ----------------------------
(* Names for the instances of WindowState.                                 *)
EXTENDS WindowState

CONSTANTS w2, s1, s2, t1, o1
=============================================================================
