------------------------------ MODULE MCSession ------------------------------
EXTENDS Session

Untouched == <<OneService, Checkout, NoEdge, <<Absent, Absent>>>>

\* which of Untouched a command works on, 0 for the commands of Identity and
\* Workspace
Part == CASE cmd.name \in {"control-plane", "control-plane-values"} -> 4
          [] cmd.name = "edge image" -> 3
          [] "todo" \in DOMAIN cmd -> 2
          [] "seen" \in DOMAIN cmd -> 1
          [] OTHER -> 0

\* No command looks at the parts that others work on: it need not be run after
\* these have changed.
Independent == Running => \A i \in 1..4 \ {Part} : side[i] = Untouched[i]
=============================================================================
