--------------------------- MODULE MCMultiplexer ---------------------------
(* Small instances of Multiplexer for TLC.                                   *)
EXTENDS Multiplexer

CONSTANTS c1, c2, t1, q1

Hello == <<[kind |-> "initialize", thread |-> t1], [kind |-> "initialized", thread |-> t1]>>
Resume == [kind |-> "resume", thread |-> t1]
Unsubscribe == [kind |-> "unsubscribe", thread |-> t1]

\* Both open and close a tab.
BothClose == [c \in Clients |-> Hello \o <<Resume, Unsubscribe>>]
AboutThread == [x \in Asks |-> t1]
=============================================================================
