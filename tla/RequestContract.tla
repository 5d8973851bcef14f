--------------------------- MODULE RequestContract ---------------------------
(***************************************************************************)
(* What an app-server session promises to those who send requests through  *)
(* it: a request that was accepted is settled exactly once, by an answer   *)
(* of the server or by a failure; when the connection is over nobody is    *)
(* left waiting and nothing is accepted any more.  AppServerSession        *)
(* implements this specification.                                          *)
(***************************************************************************)
CONSTANTS
  Requests      \* requests of the application

VARIABLES
  line,         \* "unopened", "open" or "over"
  outcome       \* what became of each request

vars == <<line, outcome>>

Waiting == {r \in Requests : outcome[r] = "waiting"}

Init ==
  /\ line = "unopened"
  /\ outcome = [r \in Requests |-> "unissued"]

\* The connection is ready to take requests.
Open ==
  /\ line = "unopened" /\ line' = "open"
  /\ UNCHANGED outcome

\* A request is accepted.
Accept(r) ==
  /\ line = "open" /\ outcome[r] = "unissued"
  /\ outcome' = [outcome EXCEPT ![r] = "waiting"]
  /\ UNCHANGED line

\* One request is answered by the server or fails on its way to it.
Settle(r) ==
  /\ line = "open" /\ outcome[r] = "waiting"
  /\ \E result \in {"resolved", "rejected"} :
       outcome' = [outcome EXCEPT ![r] = result]
  /\ UNCHANGED line

\* The connection, or its initialization, fails for all that wait.
RejectAll ==
  /\ line = "open" /\ line' \in {"open", "over"}
  /\ outcome' = [r \in Requests |-> IF r \in Waiting THEN "rejected" ELSE outcome[r]]

Next ==
  \/ Open \/ RejectAll
  \/ \E r \in Requests : Accept(r) \/ Settle(r)

Spec == Init /\ [][Next]_vars
=============================================================================
