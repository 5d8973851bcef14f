----------------------- MODULE MCConnectionController -----------------------
(* Small instances of ConnectionController for TLC.                          *)
EXTENDS ConnectionController
CONSTANTS s1, s2
=============================================================================
