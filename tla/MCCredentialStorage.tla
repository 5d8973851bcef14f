------------------------- MODULE MCCredentialStorage -------------------------
(* Small instances of CredentialStorage for TLC.                             *)
EXTENDS CredentialStorage, TLC

CONSTANTS o1, o2, x1, x2

\* References are drawn in no order and owners differ in nothing.
Symmetry == Permutations(Refs) \cup Permutations(Owners)
=============================================================================
