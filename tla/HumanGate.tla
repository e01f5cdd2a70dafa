----------------------------- MODULE HumanGate -----------------------------
(***************************************************************************)
(* What asking a human promises: every request is decided at most once,    *)
(* and what the request is for happens only if the decision was to approve *)
(* it.  docs/architecture/security.md, "Boundary 4: Human-in-the-Loop".    *)
(***************************************************************************)
CONSTANT Requests

VARIABLES
    verdict,      \* the decision the human was told is taken
    acted         \* the requests whose effect has happened

gateVars == <<verdict, acted>>

Init ==
    /\ verdict = [r \in Requests |-> "open"]
    /\ acted = {}

Decide(r, v) ==
    /\ verdict[r] = "open"
    /\ verdict' = [verdict EXCEPT ![r] = v]
    /\ UNCHANGED acted

\* One effect may be what several requests asked for.
Act(S) ==
    /\ \A r \in S : verdict[r] = "approved"
    /\ acted' = acted \union S
    /\ UNCHANGED verdict

Next ==
    \/ \E r \in Requests, v \in {"approved", "denied"} : Decide(r, v)
    \/ \E S \in SUBSET Requests : Act(S)

Spec == Init /\ [][Next]_gateVars
=============================================================================
