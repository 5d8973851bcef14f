------------------------- MODULE MCAppServerSession -------------------------
(* Names for the instances of AppServerSession.                            *)
EXTENDS AppServerSession

CONSTANTS r1, r2, a1, a2
=============================================================================
