---------------------------- MODULE MCRemoteExec ----------------------------
(***************************************************************************)
(* Instances of RemoteExec for TLC.                                        *)
(***************************************************************************)
EXTENDS RemoteExec, TLC

CONSTANTS c1, c2, k1, k2

\* Both calls take any executor; one of them streams.
AnyTarget == (k1 :> Anyone) @@ (k2 :> Anyone)
\* k1 insists on c1.
FirstTarget == (k1 :> c1) @@ (k2 :> Anyone)
\* c1 and c2 are two connections of one client.
OneClient == [c \in Conns |-> 1]
SplitCapable == (k1 :> {c1}) @@ (k2 :> {c2})
AllCapable == [k \in Calls |-> Conns]
=============================================================================
