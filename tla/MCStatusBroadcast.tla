-------------------------- MODULE MCStatusBroadcast --------------------------
(* Small instances of StatusBroadcast for TLC.                               *)
EXTENDS StatusBroadcast

CONSTANTS p1, server, main, w1, w2, s1, s2, s3

OneServer == [p \in Physicals |-> server]
\* w1 and w2 have the label main one after the other.
MainTwice == [w \in Windows |-> main]
\* The first window subscribes twice, as a view that is mounted again does.
Owners == [s \in Subscriptions |-> IF s \in {s1, s2} THEN w1 ELSE w2]
=============================================================================
