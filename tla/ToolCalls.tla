----------------------------- MODULE ToolCalls -----------------------------
(***************************************************************************)
(* A tool call of an agent that runs on the gateway, with the two places   *)
(* where it waits for a human and the lock of the credential vault:        *)
(*                                                                         *)
(*   execute_tool_calls      (rockbot-agent)        breakpoint, timeout    *)
(*   ToolRegistry::execute_tool (rockbot-tools)     requires_approval      *)
(*   tool_approval_callback  (rockbot-gateway)      the gateway's queue    *)
(*   request_credential      (rockbot-credentials)  rules, the HIL queue   *)
(*                                                                         *)
(* Each queue is a map from request ids to the sender of a oneshot channel *)
(* that the call waits on.  A call asks at most once at each gate, so the  *)
(* pair <<call, gate>> stands for the request id; "break" and "tool" are   *)
(* entries of pending_tool_approvals, "vault" of pending_approvals.        *)
(***************************************************************************)
EXTENDS Naturals, Sequences

CONSTANTS
    Calls,
    Breakpoints,  \* calls of a tool named in the agent's breakpoint_tools
    Gated,        \* calls whose tool requires approval, outside the allowlist
    Seeking,      \* calls whose tool asks the vault for a credential
    Path,         \* the credential path each call asks for
    Rules,        \* path rules: the paths the pattern matches, its length, level
    Admins        \* API callers that lock and unlock the vault

Levels == {"allow", "hil", "hil2fa", "deny"}

ASSUME CallsAssumption ==
    Breakpoints \subseteq Calls /\ Gated \subseteq Calls /\ Seeking \subseteq Calls
ASSUME RulesAssumption ==
    \A r \in Rules : r.length \in Nat /\ r.level \in Levels

Gates == {"break", "tool", "vault"}
Asks == Calls \X Gates

VARIABLES
    pc,           \* where each call stands
    gate,         \* the gate it asks, or last asked, at
    listed,       \* the requests in the two queues
    answer,       \* what was sent on a request's channel
    acked,        \* what the operator was told: the decision was taken
    ran,          \* the tool was started
    basis,        \* what lets a call have its credential
    got,          \* it has the credential
    result,       \* how it ended
    permissions,  \* the evaluator's list of rules
    key,          \* the vault holds its master key
    locked,       \* the manager's flag
    vop           \* an admin in the middle of lock() or unlock()

gateVars == <<listed, answer, acked>>
callVars == <<pc, gate, ran, basis, got, result>>
vaultVars == <<key, locked, vop>>
vars == <<gateVars, callVars, permissions, vaultVars>>

Waiting(k, g) == pc[k] \in {"asking", "expired"} /\ gate[k] = g

-----------------------------------------------------------------------------
(* Path rules. *)

NoRule == [paths |-> {}, length |-> 0, level |-> "deny"]
Restriction == [allow |-> 0, hil |-> 1, hil2fa |-> 2, deny |-> 3]

\* Mutant: of two rules equally long the one added last wins.
MutBeats(p, i, b, found) == ~ found \/ p.length >= b.length

\* Rule p replaces the best so far, b: it is longer, or as long and stricter.
Beats(p, i, b, found) ==
    \/ ~ found
    \/ p.length > b.length
    \/ p.length = b.length /\ Restriction[p.level] > Restriction[b.level]

\* PathPermissionEvaluator::evaluate, one pass over the list.
Best(perms, path) ==
    LET best[i \in 0 .. Len(perms)] ==
          IF i = 0 THEN [found |-> FALSE, rule |-> NoRule]
          ELSE IF path \in perms[i].paths
                  /\ Beats(perms[i], i, best[i - 1].rule, best[i - 1].found)
               THEN [found |-> TRUE, rule |-> perms[i]]
               ELSE best[i - 1]
    IN  best[Len(perms)]
Evaluate(perms, path) == Best(perms, path).rule.level

AddPermission(r) ==
    /\ \A i \in DOMAIN permissions : permissions[i] # r
    /\ permissions' = Append(permissions, r)
    /\ UNCHANGED <<gateVars, callVars, vaultVars>>

\* Mutant: a removed rule is blanked in its place.
MutRemovePermission(i) ==
    /\ i \in DOMAIN permissions
    /\ permissions' = [permissions EXCEPT ![i] = NoRule]
    /\ UNCHANGED <<gateVars, callVars, vaultVars>>

RemovePermission(i) ==
    /\ i \in DOMAIN permissions
    /\ permissions' = SubSeq(permissions, 1, i - 1)
                      \o SubSeq(permissions, i + 1, Len(permissions))
    /\ UNCHANGED <<gateVars, callVars, vaultVars>>

-----------------------------------------------------------------------------
(* A call. *)

Goto(k, stage) == pc' = [pc EXCEPT ![k] = stage]

End(k, how) ==
    /\ Goto(k, "done")
    /\ result' = [result EXCEPT ![k] = how]

\* The request is put in its queue and the call waits for the answer.
Ask(k, g) ==
    /\ Goto(k, "asking")
    /\ gate' = [gate EXCEPT ![k] = g]
    /\ listed' = listed \union {<<k, g>>}
    /\ UNCHANGED <<answer, acked>>

\* What follows once the breakpoint, if any, is passed: execute_tool.
Enter(k) ==
    IF k \in Gated THEN Ask(k, "tool")
    ELSE Goto(k, "run") /\ UNCHANGED <<gateVars, gate>>

Start(k) ==
    /\ pc[k] = "idle"
    /\ IF k \in Breakpoints THEN Ask(k, "break") ELSE Enter(k)
    /\ UNCHANGED <<ran, basis, got, result, permissions, vaultVars>>

\* The answer is there.  (The gateway's callback removes the request again,
\* but who answered it already has.)
Heard(k) ==
    /\ pc[k] = "asking" /\ answer[<<k, gate[k]>>] # "none"
    /\ \/ /\ answer[<<k, gate[k]>>] = "denied"
          /\ End(k, "denied")
          /\ UNCHANGED <<gateVars, gate, basis>>
       \/ /\ answer[<<k, gate[k]>>] = "approved"
          /\ \/ gate[k] = "break" /\ Enter(k) /\ UNCHANGED basis
             \/ gate[k] = "tool" /\ Goto(k, "run") /\ UNCHANGED <<gateVars, gate, basis>>
             \/ /\ gate[k] = "vault" /\ Goto(k, "retrieve")
                /\ basis' = [basis EXCEPT ![k] = "human"]
                /\ UNCHANGED <<gateVars, gate>>
          /\ UNCHANGED result
    /\ UNCHANGED <<ran, got, permissions, vaultVars>>

\* Mutant: the wait has no timeout.
MutExpire(k) == FALSE /\ UNCHANGED vars

\* Five minutes without an answer; the receiver is dropped ...
Expire(k) ==
    /\ pc[k] = "asking" /\ answer[<<k, gate[k]>>] = "none"
    /\ Goto(k, "expired")
    /\ UNCHANGED <<gateVars, gate, ran, basis, got, result, permissions, vaultVars>>

\* Mutant: a request that timed out stays in its queue.
MutUnlist(k) ==
    /\ pc[k] = "expired"
    /\ End(k, "expired")
    /\ UNCHANGED <<gateVars, gate, ran, basis, got, permissions, vaultVars>>

\* ... and the request is taken out of its queue, if it is still there.
Unlist(k) ==
    /\ pc[k] = "expired"
    /\ listed' = listed \ {<<k, gate[k]>>}
    /\ End(k, "expired")
    /\ UNCHANGED <<answer, acked, gate, ran, basis, got, permissions, vaultVars>>

\* The restrictions of the agent's session are looked at after the approval;
\* then tool.execute.  A tool that needs no credential just ends.
Run(k) ==
    /\ pc[k] = "run"
    /\ \/ End(k, "refused") /\ UNCHANGED ran
       \/ /\ ran' = [ran EXCEPT ![k] = TRUE]
          /\ \/ k \notin Seeking /\ End(k, "ok")
             \/ k \in Seeking /\ locked /\ End(k, "locked")
             \/ k \in Seeking /\ ~ locked /\ Goto(k, "evaluate") /\ UNCHANGED result
    /\ UNCHANGED <<gateVars, gate, basis, got, permissions, vaultVars>>

\* request_credential, up to the queueing of a request to a human.
RequestCredential(k) ==
    /\ pc[k] = "evaluate"
    /\ LET level == Evaluate(permissions, Path[k])
       IN  \/ /\ level \in {"deny", "hil2fa"}
              /\ End(k, "refused")
              /\ UNCHANGED <<gateVars, gate, basis>>
           \/ /\ level = "hil"
              /\ Ask(k, "vault")
              /\ UNCHANGED <<basis, result>>
           \/ /\ level = "allow"
              /\ Goto(k, "retrieve")
              /\ basis' = [basis EXCEPT ![k] = "rule"]
              /\ UNCHANGED <<gateVars, gate, result>>
    /\ UNCHANGED <<ran, got, permissions, vaultVars>>

\* retrieve_credential: is_locked ...
Retrieve(k) ==
    /\ pc[k] = "retrieve"
    /\ IF locked THEN End(k, "locked") ELSE Goto(k, "decrypt") /\ UNCHANGED result
    /\ UNCHANGED <<gateVars, gate, ran, basis, got, permissions, vaultVars>>

NoWriter == \A a \in Admins : vop[a] = "idle"

\* ... and then, under the vault's read guard, the decryption.
Decrypt(k) ==
    /\ pc[k] = "decrypt" /\ NoWriter
    /\ \/ key /\ got' = [got EXCEPT ![k] = TRUE] /\ End(k, "ok")
       \/ ~ key /\ UNCHANGED got /\ End(k, "locked")
       \/ UNCHANGED got /\ End(k, "missing")
    /\ UNCHANGED <<gateVars, gate, ran, basis, permissions, vaultVars>>

\* The timeout around execute_tool, and the end of the agent's task when its
\* client leaves, drop the call where it stands, its queued request included.
ToolTimeout(k) ==
    /\ pc[k] \notin {"idle", "done"} /\ ~ Waiting(k, "break")
    /\ End(k, "timed_out")
    /\ UNCHANGED <<gateVars, gate, ran, basis, got, permissions, vaultVars>>

Abort(k) ==
    /\ pc[k] \notin {"idle", "done"}
    /\ End(k, "aborted")
    /\ UNCHANGED <<gateVars, gate, ran, basis, got, permissions, vaultVars>>

-----------------------------------------------------------------------------
(* Operators and administrators. *)

\* The call still holds the receiver of the request's channel.
Receiving(k, g) == pc[k] = "asking" /\ gate[k] = g

\* Mutant: the entry is looked up instead of removed.
MutRespond(k, g, d) ==
    /\ <<k, g>> \in listed
    /\ UNCHANGED listed
    /\ answer' = [answer EXCEPT ![<<k, g>>] = IF Receiving(k, g) /\ @ = "none" THEN d ELSE @]
    /\ acked' = [acked EXCEPT ![<<k, g>>] = d]
    /\ UNCHANGED <<callVars, permissions, vaultVars>>

\* Mutant: an answer without a receiver is told to nobody, or to somebody else.
MutRespondSwapped(k, g, d) ==
    /\ <<k, g>> \in listed
    /\ listed' = listed \ {<<k, g>>}
    /\ answer' = [answer EXCEPT ![<<k, g>>] = IF Receiving(k, g) THEN "denied" ELSE @]
    /\ acked' = [acked EXCEPT ![<<k, g>>] = d]
    /\ UNCHANGED <<callVars, permissions, vaultVars>>

\* resolve_tool_approval, respond_to_approval: the entry is removed and the
\* decision sent; the operator gets Ok whether or not anyone receives it.
Respond(k, g, d) ==
    /\ <<k, g>> \in listed
    /\ listed' = listed \ {<<k, g>>}
    /\ answer' = [answer EXCEPT ![<<k, g>>] = IF Receiving(k, g) THEN d ELSE @]
    /\ acked' = [acked EXCEPT ![<<k, g>>] = d]
    /\ UNCHANGED <<callVars, permissions, vaultVars>>

\* Mutant: lock() does not wait for the guard.
MutBegin(a, op) ==
    /\ vop[a] = "idle"
    /\ key' = (op = "unlock")
    /\ vop' = [vop EXCEPT ![a] = op]
    /\ UNCHANGED <<gateVars, callVars, permissions, locked>>

\* lock() and unlock() change the vault and then the flag, and hold the
\* vault's write guard all along.
Begin(a, op) ==
    /\ NoWriter
    /\ key' = (op = "unlock")
    /\ vop' = [vop EXCEPT ![a] = op]
    /\ UNCHANGED <<gateVars, callVars, permissions, locked>>

Finish(a) ==
    /\ vop[a] # "idle"
    /\ locked' = (vop[a] = "lock")
    /\ vop' = [vop EXCEPT ![a] = "idle"]
    /\ UNCHANGED <<gateVars, callVars, permissions, key>>

-----------------------------------------------------------------------------
Init ==
    /\ pc = [k \in Calls |-> "idle"] /\ gate = [k \in Calls |-> "tool"]
    /\ listed = {}
    /\ answer = [q \in Asks |-> "none"] /\ acked = [q \in Asks |-> "open"]
    /\ ran = [k \in Calls |-> FALSE] /\ got = [k \in Calls |-> FALSE]
    /\ basis = [k \in Calls |-> "none"] /\ result = [k \in Calls |-> "none"]
    /\ permissions = <<>>
    /\ key = FALSE /\ locked = TRUE /\ vop = [a \in Admins |-> "idle"]

\* What a call does by itself, its own timers included.
Proceed(k) ==
    \/ Heard(k) \/ Expire(k) \/ Unlist(k)
    \/ Run(k) \/ RequestCredential(k) \/ Retrieve(k)

Next ==
    \/ \E k \in Calls :
          \/ Start(k) \/ Proceed(k) \/ Decrypt(k) \/ ToolTimeout(k) \/ Abort(k)
          \/ \E g \in Gates, d \in {"approved", "denied"} : Respond(k, g, d)
    \/ \E r \in Rules : AddPermission(r)
    \/ \E i \in DOMAIN permissions : RemovePermission(i)
    \/ \E a \in Admins :
          \/ \E op \in {"lock", "unlock"} : Begin(a, op)
          \/ Finish(a)

Spec == Init /\ [][Next]_vars

\* A call's task and its timers run; a writer of the vault goes on; the fair
\* RwLock lets a reader in between two writers.  Nothing is assumed of the
\* operators, of the tool timeout or of a client that leaves.
FairSpec ==
    /\ Spec
    /\ \A k \in Calls : WF_vars(Proceed(k)) /\ SF_vars(Decrypt(k))
    /\ \A a \in Admins : WF_vars(Finish(a))

-----------------------------------------------------------------------------
\* Every variable keeps its type; only rules an administrator added are listed.
TypeOK ==
    /\ pc \in [Calls -> {"idle", "asking", "expired", "run", "evaluate", "retrieve",
                         "decrypt", "done"}]
    /\ gate \in [Calls -> Gates]
    /\ listed \subseteq Asks
    /\ answer \in [Asks -> {"none", "approved", "denied"}]
    /\ acked \in [Asks -> {"open", "approved", "denied"}]
    /\ ran \in [Calls -> BOOLEAN] /\ got \in [Calls -> BOOLEAN]
    /\ basis \in [Calls -> {"none", "rule", "human"}]
    /\ result \in [Calls -> {"none", "ok", "denied", "expired", "timed_out", "aborted",
                             "locked", "refused", "missing"}]
    /\ permissions \in Seq(Rules)
    /\ key \in BOOLEAN /\ locked \in BOOLEAN
    /\ vop \in [Admins -> {"idle", "lock", "unlock"}]

\* The gates implement HumanGate: what an operator was told was decided is
\* decided once, and a tool that must be approved starts, and a credential
\* that a human must grant is handed out, only after an approval was told.
GatesOf(k) == {g \in Gates : (g = "break" /\ k \in Breakpoints) \/ (g = "tool" /\ k \in Gated)}
Acted ==
    {q \in Asks : \/ ran[q[1]] /\ q[2] \in GatesOf(q[1])
                  \/ got[q[1]] /\ basis[q[1]] = "human" /\ q[2] = "vault"}
Gate == INSTANCE HumanGate WITH Requests <- Asks, verdict <- acked, acted <- Acted
GateSpec == Gate!Spec

\* A decision an operator was told was taken holds: an approved request does
\* not end as denied, nor a denied one as anything the operator did not want.
AnswersHonoured ==
    \A k \in Calls : pc[k] = "done" =>
        /\ result[k] = "denied" => acked[<<k, gate[k]>>] = "denied"
        /\ (\E g \in Gates : acked[<<k, g>>] = "denied") =>
              result[k] \in {"denied", "expired", "timed_out", "aborted"}

\* A request stays in a queue without anybody waiting for it only if its call
\* was cut off by the tool timeout or by its client's leaving.
OnlyCutOffLinger ==
    \A k \in Calls, g \in Gates : <<k, g>> \in listed =>
        Waiting(k, g) \/ result[k] \in {"timed_out", "aborted"}

\* Once lock() has set the flag no call is handed a credential, however far
\* it had come, until an unlock() has set it back.
LockedGivesNothing ==
    [][\A k \in Calls : got'[k] /\ ~ got[k] => ~ locked]_vars

\* The rule that is applied matches, no longer rule matches, and of the
\* longest ones it is the strictest; without any the answer is deny.
LongestThenStrictest ==
    \A k \in Calls :
        LET matching == {permissions[i] : i \in {i \in DOMAIN permissions :
                                                   Path[k] \in permissions[i].paths}}
            b == Best(permissions, Path[k])
        IN  IF matching = {} THEN b.rule.level = "deny"
            ELSE /\ b.rule \in matching
                 /\ \A r \in matching :
                       \/ r.length < b.rule.length
                       \/ /\ r.length = b.rule.length
                          /\ Restriction[r.level] <= Restriction[b.rule.level]

\* Every call ends even if no operator ever answers and no tool timeout fires.
CallsEnd == \A k \in Calls : (pc[k] # "idle") ~> (pc[k] = "done")

\* "Get list of pending HIL approval requests": somebody waits for each.
ListedRequestsWait == \A k \in Calls, g \in Gates : <<k, g>> \in listed => Waiting(k, g)
=============================================================================
