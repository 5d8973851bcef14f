-------------------------- MODULE MCConnectionPool --------------------------
(* Small instances of ConnectionPool for TLC: up to three commands that      *)
(* resolve to one key, from windows that share or do not share a label.      *)
EXTENDS ConnectionPool

CONSTANTS c1, c2, c3, i1, i2, i3, w1, w2, w3, main, other, k1

\* Identifiers are allocated fresh by the client.
FreshIds == [c \in Commands |-> CASE c = c1 -> i1 [] c = c2 -> i2 [] OTHER -> i3]

\* The first window issues c1 and c3, the second one c2.
TwoWindows == [c \in Commands |-> IF c = c2 THEN w2 ELSE w1]
\* A window each.
OwnWindows == [c \in Commands |-> CASE c = c1 -> w1 [] c = c2 -> w2 [] OTHER -> w3]

\* w1 and w2 are windows of their own.
OwnLabels == [w \in Windows |-> IF w = w1 THEN main ELSE other]
\* w2 is opened with the label of w1 after w1 has been closed.
ReusedLabel == [w \in Windows |-> IF w = w3 THEN other ELSE main]

OneKey == [c \in Commands |-> k1]
=============================================================================
