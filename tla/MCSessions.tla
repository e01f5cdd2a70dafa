----------------------------- MODULE MCSessions -----------------------------
(***************************************************************************)
(* Instances of Sessions for TLC.                                          *)
(***************************************************************************)
EXTENDS Sessions, TLC

CONSTANTS t1, t2, c1, main, agent

\* Every turn is sent to one key of one agent.
OneKey == [t \in Turns |-> main]
OneAgent == [t \in Turns |-> agent]
=============================================================================
