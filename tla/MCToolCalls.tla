---------------------------- MODULE MCToolCalls ----------------------------
(***************************************************************************)
(* Two calls at once: one of a breakpoint tool that requires approval as   *)
(* well, and one of a tool that asks the vault (credential_vault and       *)
(* web_search, the two such tools of the repository, require no approval   *)
(* of their own).  Three rules apply to the path that is asked for: a      *)
(* short one that allows it and two equally long ones, so that each of the *)
(* three levels can be the one that counts.                                *)
(***************************************************************************)
EXTENDS ToolCalls

CONSTANTS guarded, seeker, path

MCPath == [k \in Calls |-> path]

Rule(length, level) == [paths |-> {path}, length |-> length, level |-> level]
MCRules == {Rule(1, "allow"), Rule(2, "hil"), Rule(2, "deny")}
=============================================================================
