-------------------------- MODULE ToolCallsProofs --------------------------
(***************************************************************************)
(* The safety properties of ToolCalls, and that it implements HumanGate,   *)
(* for any calls, rules and administrators.  CallInv says of each gate     *)
(* where a call stands towards it: it has not come to it, it waits there,  *)
(* it was refused there, or it was let past.  VaultInv ties the manager's  *)
(* flag to the key that the vault holds.  StepsLeft bounds what a call may *)
(* still do.                                                               *)
(***************************************************************************)
EXTENDS ToolCalls, Integers, SequenceTheorems, WellFoundedInduction, TLAPS

Pending(k) == pc[k] \in {"asking", "expired"}
Cut(k) == pc[k] = "done" /\ result[k] \in {"timed_out", "aborted"}
Refused(k) == pc[k] = "done" /\ result[k] \in {"denied", "expired", "timed_out", "aborted"}

\* The call has not come to the gate yet.
Ahead(k, g) ==
    \/ pc[k] = "idle"
    \/ g = "vault" /\ pc[k] \in {"run", "evaluate"}
    \/ g = "vault" /\ Pending(k) /\ gate[k] # "vault"
    \/ g = "tool" /\ Pending(k) /\ gate[k] = "break"

\* The call has gone past the gate.
Past(k, g) ==
    \/ pc[k] \in {"run", "evaluate", "retrieve", "decrypt"} \/ ran[k]
    \/ Pending(k) /\ gate[k] = "vault"
    \/ g = "break" /\ Pending(k) /\ gate[k] = "tool"

GateInv(k, g) ==
    /\ <<k, g>> \in listed =>
          /\ gate[k] = g /\ (Pending(k) \/ Cut(k))
          /\ acked[<<k, g>>] = "open" /\ answer[<<k, g>>] = "none"
    /\ answer[<<k, g>>] # "none" => acked[<<k, g>>] = answer[<<k, g>>]
    /\ acked[<<k, g>>] = "denied" => gate[k] = g /\ (Pending(k) \/ Refused(k))
    /\ Ahead(k, g) => /\ <<k, g>> \notin listed
                      /\ acked[<<k, g>>] = "open" /\ answer[<<k, g>>] = "none"
    /\ g \in GatesOf(k) /\ Past(k, g) => acked[<<k, g>>] = "approved"

CallInv(k) ==
    /\ \A g \in Gates : GateInv(k, g)
    /\ pc[k] = "done" /\ result[k] = "denied" => acked[<<k, gate[k]>>] = "denied"
    /\ pc[k] # "done" => result[k] = "none"
    /\ basis[k] = "human" => acked[<<k, "vault">>] = "approved"
    /\ got[k] => pc[k] = "done"

VaultInv ==
    /\ \A a, b \in Admins : vop[a] # "idle" /\ vop[b] # "idle" => a = b
    /\ \A a \in Admins : vop[a] # "idle" => (key <=> vop[a] = "unlock")
    /\ NoWriter => (locked <=> ~ key)

IInv == TypeOK /\ (\A k \in Calls : CallInv(k)) /\ VaultInv

-----------------------------------------------------------------------------
(* Types. *)

\* Adding and removing a rule leaves a sequence of rules.
LEMMA PermissionsType ==
    ASSUME permissions \in Seq(Rules)
    PROVE  /\ \A r \in Rules : Append(permissions, r) \in Seq(Rules)
           /\ \A i \in DOMAIN permissions :
                 SubSeq(permissions, 1, i - 1)
                 \o SubSeq(permissions, i + 1, Len(permissions)) \in Seq(Rules)
<1>1. \A r \in Rules : Append(permissions, r) \in Seq(Rules)
  BY AppendProperties
<1>2. ASSUME NEW i \in DOMAIN permissions
      PROVE  SubSeq(permissions, 1, i - 1)
             \o SubSeq(permissions, i + 1, Len(permissions)) \in Seq(Rules)
  <2>1. /\ i \in 1 .. Len(permissions) /\ Len(permissions) \in Nat
        /\ \A j \in 1 .. Len(permissions) : permissions[j] \in Rules
    BY LenProperties, ElementOfSeq
  <2>2. SubSeq(permissions, 1, i - 1) \in Seq(Rules)
    BY <2>1, SubSeqProperties, i - 1 \in Int, \A j \in 1 .. i - 1 : permissions[j] \in Rules
  <2>3. SubSeq(permissions, i + 1, Len(permissions)) \in Seq(Rules)
    BY <2>1, SubSeqProperties, i + 1 \in Int,
       \A j \in i + 1 .. Len(permissions) : permissions[j] \in Rules
  <2> QED BY <2>2, <2>3, ConcatProperties
<1> QED BY <1>1, <1>2

AskTypes ==
    /\ pc \in [Calls -> {"idle", "asking", "expired", "run", "evaluate", "retrieve",
                         "decrypt", "done"}]
    /\ gate \in [Calls -> Gates]
    /\ listed \subseteq Asks
    /\ answer \in [Asks -> {"none", "approved", "denied"}]
    /\ acked \in [Asks -> {"open", "approved", "denied"}]

Results == {"none", "ok", "denied", "expired", "timed_out", "aborted", "locked", "refused",
            "missing"}
EndTypes ==
    /\ pc \in [Calls -> {"idle", "asking", "expired", "run", "evaluate", "retrieve",
                         "decrypt", "done"}]
    /\ basis \in [Calls -> {"none", "rule", "human"}]
    /\ result \in [Calls -> Results]

\* What a call does keeps the types.
LEMMA CallType ==
    ASSUME TypeOK, NEW k \in Calls,
           Start(k) \/ Proceed(k) \/ Decrypt(k) \/ ToolTimeout(k) \/ Abort(k)
    PROVE  TypeOK'
<1>a. /\ Enter(k) => AskTypes'
      /\ \A g \in Gates : Ask(k, g) => AskTypes'
  <2>1. ASSUME NEW g \in Gates, Ask(k, g) PROVE AskTypes'
    BY <2>1 DEF TypeOK, AskTypes, Ask, Goto, Asks
  <2> QED BY <2>1 DEF Enter, AskTypes, TypeOK, Goto, gateVars, Gates
<1>b. /\ ran' \in [Calls -> BOOLEAN] /\ got' \in [Calls -> BOOLEAN] /\ EndTypes'
      /\ UNCHANGED <<gateVars, gate, permissions, vaultVars>>
      => TypeOK'
  BY DEF TypeOK, EndTypes, Results, gateVars, vaultVars
<1>c. ASSUME NEW how \in Results, End(k, how), UNCHANGED basis PROVE EndTypes'
  BY <1>c DEF End, Goto, EndTypes, Results, TypeOK
<1>d. ASSUME NEW stage \in {"asking", "expired", "run", "evaluate", "retrieve", "decrypt"},
             Goto(k, stage), UNCHANGED <<basis, result>>
      PROVE  EndTypes'
  BY <1>d DEF Goto, EndTypes, Results, TypeOK
<1>4. CASE Run(k)
  <2>1. /\ UNCHANGED <<gateVars, gate, got, permissions, vaultVars>>
        /\ UNCHANGED basis
        /\ ran' = ran \/ ran' = [ran EXCEPT ![k] = TRUE]
    BY <1>4 DEF Run
  <2>2. \/ \E how \in Results : End(k, how)
        \/ Goto(k, "evaluate") /\ UNCHANGED result
    BY <1>4 DEF Run, Results
  <2>3. EndTypes'
    BY <2>1, <2>2, <1>c, <1>d
  <2>4. ran' \in [Calls -> BOOLEAN] /\ got' \in [Calls -> BOOLEAN]
    BY <2>1 DEF TypeOK
  <2> QED BY <1>b, <2>1, <2>3, <2>4
<1>6. CASE Retrieve(k) \/ Decrypt(k)
  <2>1. /\ UNCHANGED <<gateVars, gate, ran, permissions, vaultVars>>
        /\ UNCHANGED basis
        /\ got' = got \/ got' = [got EXCEPT ![k] = TRUE]
    BY <1>6 DEF Retrieve, Decrypt
  <2>2. \/ \E how \in Results : End(k, how)
        \/ Goto(k, "decrypt") /\ UNCHANGED result
    BY <1>6 DEF Retrieve, Decrypt, Results
  <2>3. EndTypes'
    BY <2>1, <2>2, <1>c, <1>d
  <2>4. ran' \in [Calls -> BOOLEAN] /\ got' \in [Calls -> BOOLEAN]
    BY <2>1 DEF TypeOK
  <2> QED BY <1>b, <2>1, <2>3, <2>4
<1>3. CASE Expire(k)
  <2>1. UNCHANGED <<ran, got>> /\ EndTypes'
    BY <1>3, <1>d DEF Expire
  <2> QED BY <1>3, <1>b, <2>1 DEF Expire, TypeOK
<1>8. CASE Unlist(k)
  <2>1. UNCHANGED <<ran, got>> /\ EndTypes'
    BY <1>8, <1>c DEF Unlist, Results
  <2>2. listed' \subseteq Asks
    BY <1>8 DEF Unlist, TypeOK
  <2> QED BY <1>8, <2>1, <2>2 DEF Unlist, EndTypes, Results, TypeOK, vaultVars
<1>7. CASE ToolTimeout(k) \/ Abort(k)
  <2>1. /\ UNCHANGED <<gateVars, gate, ran, got, permissions, vaultVars>>
        /\ UNCHANGED basis /\ \E how \in Results : End(k, how)
    BY <1>7 DEF ToolTimeout, Abort, Results
  <2>2. ran' \in [Calls -> BOOLEAN] /\ got' \in [Calls -> BOOLEAN]
    BY <2>1 DEF TypeOK
  <2> QED BY <1>b, <1>c, <2>1, <2>2
<1>5. CASE RequestCredential(k)
  <2>1. UNCHANGED <<ran, got, permissions, vaultVars>>
    BY <1>5 DEF RequestCredential
  <2>2. CASE Ask(k, "vault") /\ UNCHANGED <<basis, result>>
    BY <2>1, <2>2, <1>a DEF AskTypes, Gates, TypeOK, vaultVars
  <2>3. CASE UNCHANGED <<gateVars, gate, basis>> /\ End(k, "refused")
    BY <2>1, <2>3, <1>b, <1>c DEF Results, TypeOK
  <2>4. CASE /\ Goto(k, "retrieve") /\ UNCHANGED <<gateVars, gate, result>>
             /\ basis' = [basis EXCEPT ![k] = "rule"]
    <3>1. EndTypes'
      BY <2>4 DEF Goto, EndTypes, Results, TypeOK
    <3> QED BY <2>1, <2>4, <3>1, <1>b DEF TypeOK
  <2> QED BY <1>5, <2>2, <2>3, <2>4 DEF RequestCredential
<1> USE DEF TypeOK, gateVars, vaultVars, callVars, Goto, End
<1>1. CASE Start(k)
  BY <1>1, <1>a DEF Start, Gates, AskTypes
<1>2. CASE Heard(k)
  <2>1. UNCHANGED <<ran, got, permissions, vaultVars>>
    BY <1>2 DEF Heard
  <2>2. CASE Enter(k) /\ UNCHANGED <<basis, result>>
    BY <2>1, <2>2, <1>a DEF AskTypes
  <2>3. CASE ~ (Enter(k) /\ UNCHANGED <<basis, result>>)
    BY <1>2, <2>1, <2>3 DEF Heard
  <2> QED BY <2>2, <2>3
<1> QED BY <1>1, <1>2, <1>3, <1>4, <1>5, <1>6, <1>7, <1>8 DEF Proceed

LEMMA TypeInit == Init => TypeOK
<1> SUFFICES ASSUME Init PROVE TypeOK
  OBVIOUS
<1>1. permissions \in Seq(Rules)
  BY DEF Init
<1>2. "tool" \in Gates /\ listed \subseteq Asks
  BY DEF Init, Gates
<1> QED BY <1>1, <1>2 DEF Init, TypeOK

LEMMA TypeStep == TypeOK /\ [Next]_vars => TypeOK'
<1> SUFFICES ASSUME TypeOK, [Next]_vars PROVE TypeOK'
  OBVIOUS
<1>1. ASSUME NEW k \in Calls, NEW g \in Gates, NEW d \in {"approved", "denied"},
             Respond(k, g, d)
      PROVE  TypeOK'
  BY <1>1 DEF TypeOK, Respond, Asks, callVars, vaultVars
<1>2. ASSUME NEW r \in Rules, AddPermission(r) PROVE TypeOK'
  BY <1>2, PermissionsType DEF TypeOK, AddPermission, gateVars, callVars, vaultVars
<1>3. ASSUME NEW i \in DOMAIN permissions, RemovePermission(i) PROVE TypeOK'
  BY <1>3, PermissionsType DEF TypeOK, RemovePermission, gateVars, callVars, vaultVars
<1>4. ASSUME NEW a \in Admins, NEW op \in {"lock", "unlock"}, Begin(a, op) PROVE TypeOK'
  BY <1>4 DEF TypeOK, Begin, gateVars, callVars
<1>5. ASSUME NEW a \in Admins, Finish(a) PROVE TypeOK'
  BY <1>5 DEF TypeOK, Finish, gateVars, callVars
<1>6. CASE UNCHANGED vars
  BY <1>6 DEF TypeOK, vars, gateVars, callVars, vaultVars
<1> QED BY <1>1, <1>2, <1>3, <1>4, <1>5, <1>6, CallType DEF Next

\* Every variable keeps its type, for any calls, rules and administrators.
THEOREM TypeCorrect == Spec => []TypeOK
BY TypeInit, TypeStep, PTL DEF Spec

-----------------------------------------------------------------------------
(* The invariant. *)

\* Nothing that is about call k changes.
Same(k) ==
    /\ pc'[k] = pc[k] /\ gate'[k] = gate[k] /\ result'[k] = result[k]
    /\ ran'[k] = ran[k] /\ basis'[k] = basis[k] /\ got'[k] = got[k]
    /\ \A g \in Gates : /\ <<k, g>> \in listed' <=> <<k, g>> \in listed
                        /\ answer'[<<k, g>>] = answer[<<k, g>>]
                        /\ acked'[<<k, g>>] = acked[<<k, g>>]

LEMMA SameKept ==
    ASSUME TypeOK, NEW k \in Calls, CallInv(k), Same(k)
    PROVE  CallInv(k)'
<1>1. gate[k] \in Gates /\ "vault" \in Gates
  BY DEF TypeOK, Gates
<1>2. Pending(k)' = Pending(k) /\ Refused(k)' = Refused(k) /\ Cut(k)' = Cut(k)
  BY DEF Same, Pending, Refused, Cut
<1>3. \A g \in Gates : GateInv(k, g)'
  BY <1>2 DEF CallInv, GateInv, Same, Ahead, Past, GatesOf
<1> QED BY <1>1, <1>3 DEF CallInv, Same

\* A step of one call leaves what is about the others alone.
LEMMA OtherCalls ==
    ASSUME TypeOK, NEW j \in Calls, NEW k \in Calls, j # k,
           Start(j) \/ Proceed(j) \/ Decrypt(j) \/ ToolTimeout(j) \/ Abort(j)
    PROVE  Same(k)
<1>0. /\ <<pc'[k], gate'[k]>> = <<pc[k], gate[k]>>
      /\ result'[k] = result[k] /\ ran'[k] = ran[k] /\ basis'[k] = basis[k] /\ got'[k] = got[k]
      /\ UNCHANGED <<answer, acked>>
  <2> USE DEF TypeOK, gateVars, Goto, End, Ask, Enter
  <2>1. CASE Start(j)
    BY <2>1 DEF Start
  <2>2. CASE Heard(j)
    BY <2>2 DEF Heard
  <2>3. CASE Expire(j) \/ Unlist(j) \/ Run(j) \/ Retrieve(j)
    BY <2>3 DEF Expire, Unlist, Run, Retrieve
  <2>4. CASE RequestCredential(j)
    BY <2>4 DEF RequestCredential
  <2>5. CASE Decrypt(j) \/ ToolTimeout(j) \/ Abort(j)
    BY <2>5 DEF Decrypt, ToolTimeout, Abort
  <2> QED BY <2>1, <2>2, <2>3, <2>4, <2>5 DEF Proceed
<1>1. \E g \in Gates : listed' \in {listed, listed \union {<<j, g>>}, listed \ {<<j, g>>}}
  <2>1. gate[j] \in Gates /\ {"tool", "break", "vault"} \subseteq Gates
    BY DEF TypeOK, Gates
  <2>2. Enter(j) => listed' \in {listed, listed \union {<<j, "tool">>}}
    BY DEF Enter, Ask, gateVars
  <2>3. CASE Start(j) \/ Heard(j) \/ RequestCredential(j)
    BY <2>1, <2>2, <2>3 DEF Start, Heard, RequestCredential, Ask, gateVars
  <2>4. CASE Expire(j) \/ Unlist(j) \/ Run(j) \/ Retrieve(j) \/ Decrypt(j)
             \/ ToolTimeout(j) \/ Abort(j)
    BY <2>1, <2>4 DEF Expire, Unlist, Run, Retrieve, Decrypt, ToolTimeout, Abort, gateVars
  <2> QED BY <2>3, <2>4 DEF Proceed
<1> QED BY <1>0, <1>1 DEF Same


\* A call puts a request in a queue at a gate it has not come to, having
\* passed those before it.
LEMMA AskKept ==
    ASSUME TypeOK, NEW k \in Calls, CallInv(k), NEW g \in Gates, Ask(k, g),
           UNCHANGED <<ran, got, result>>, basis'[k] = basis[k],
           Ahead(k, g), pc[k] # "done",
           g = "break" => Ahead(k, "tool"), g # "vault" => Ahead(k, "vault"),
           \A h \in Gates : <<k, h>> \notin listed /\ acked[<<k, h>>] # "denied",
           \A h \in GatesOf(k) :
              g = "vault" \/ (g = "tool" /\ h = "break") => acked[<<k, h>>] = "approved"
    PROVE  CallInv(k)'
<1>1. /\ pc'[k] = "asking" /\ gate'[k] = g /\ listed' = listed \union {<<k, g>>}
      /\ UNCHANGED <<answer, acked>>
  BY DEF Ask, Goto, TypeOK
<1>2. acked[<<k, g>>] = "open" /\ answer[<<k, g>>] = "none"
  BY DEF CallInv, GateInv
<1>3. ASSUME NEW h \in Gates PROVE GateInv(k, h)'
  <2>1. GateInv(k, h)
    BY DEF CallInv
  <2>2. Pending(k)' /\ (Ahead(k, h)' => h # g /\ Ahead(k, h))
    BY <1>1 DEF Pending, Ahead, Gates
  <2>3. h \in GatesOf(k)' /\ Past(k, h)' => acked[<<k, h>>] = "approved"
    BY <1>1, <2>1 DEF Past, GatesOf, GateInv, Pending
  <2> QED BY <1>1, <1>2, <2>1, <2>2, <2>3 DEF GateInv
<1> QED BY <1>1, <1>3 DEF CallInv

\* Nor does a call that has no request in a queue and goes on past the gates of
\* its tool get in a state it must not be in.
LEMMA RunKept ==
    ASSUME TypeOK, NEW k \in Calls, CallInv(k), Goto(k, "run"), pc[k] # "done",
           UNCHANGED <<gateVars, gate, ran, got, result>>, basis'[k] = basis[k],
           Ahead(k, "vault"),
           \A h \in Gates : <<k, h>> \notin listed /\ acked[<<k, h>>] # "denied",
           \A h \in GatesOf(k) : acked[<<k, h>>] = "approved"
    PROVE  CallInv(k)'
<1>1. pc'[k] = "run"
  BY DEF Goto, TypeOK
<1>2. ASSUME NEW h \in Gates PROVE GateInv(k, h)'
  <2>1. GateInv(k, h)
    BY DEF CallInv
  <2>2. Ahead(k, h)' => Ahead(k, h)
    BY <1>1 DEF Pending, Ahead
  <2> QED BY <1>1, <2>1, <2>2 DEF GateInv, GatesOf, gateVars
<1> QED BY <1>1, <1>2 DEF CallInv, gateVars

LEMMA EnterKept ==
    ASSUME TypeOK, NEW k \in Calls, CallInv(k), Enter(k), pc[k] # "done",
           UNCHANGED <<ran, got, result>>, basis'[k] = basis[k],
           Ahead(k, "tool"), Ahead(k, "vault"),
           \A h \in Gates : <<k, h>> \notin listed /\ acked[<<k, h>>] # "denied",
           k \in Breakpoints => acked[<<k, "break">>] = "approved"
    PROVE  CallInv(k)'
<1>1. CASE k \in Gated
  BY <1>1, AskKept DEF Enter, GatesOf, Gates
<1>2. CASE k \notin Gated
  <2>1. \A h \in GatesOf(k) : acked[<<k, h>>] = "approved"
    BY <1>2 DEF GatesOf
  <2> QED BY <1>2, <2>1, RunKept DEF Enter
<1> QED BY <1>1, <1>2

LEMMA StartKept ==
    ASSUME TypeOK, NEW k \in Calls, CallInv(k), Start(k)
    PROVE  CallInv(k)'
<1>1. /\ pc[k] = "idle" /\ UNCHANGED <<ran, basis, got, result>>
      /\ \A h \in Gates : Ahead(k, h)
  BY DEF Start, Ahead
<1>2. \A h \in Gates : <<k, h>> \notin listed /\ acked[<<k, h>>] # "denied"
  BY <1>1 DEF CallInv, GateInv
<1>3. CASE k \in Breakpoints
  BY <1>1, <1>2, <1>3, AskKept DEF Start, Gates
<1>4. CASE k \notin Breakpoints
  BY <1>1, <1>2, <1>4, EnterKept DEF Start, Gates
<1> QED BY <1>3, <1>4

\* At a gate where its answer is there, a call is the last to know: its request
\* is in no queue, and no other gate has refused it.
LEMMA Answered ==
    ASSUME TypeOK, NEW k \in Calls, CallInv(k), pc[k] = "asking",
           answer[<<k, gate[k]>>] # "none"
    PROVE  /\ gate[k] \in Gates /\ acked[<<k, gate[k]>>] = answer[<<k, gate[k]>>]
           /\ \A h \in Gates : /\ <<k, h>> \notin listed
                               /\ h # gate[k] => acked[<<k, h>>] # "denied"
<1>1. gate[k] \in Gates
  BY DEF TypeOK
<1> QED BY <1>1 DEF CallInv, GateInv

LEMMA HeardKept ==
    ASSUME TypeOK, NEW k \in Calls, CallInv(k), Heard(k)
    PROVE  CallInv(k)'
<1> DEFINE q == <<k, gate[k]>>
<1>1. /\ pc[k] = "asking" /\ answer[q] # "none" /\ UNCHANGED <<ran, got>>
      /\ gate[k] \in Gates /\ acked[q] = answer[q]
      /\ \A h \in Gates : <<k, h>> \notin listed /\ (h # gate[k] => acked[<<k, h>>] # "denied")
  BY Answered DEF Heard
<1>2. CASE /\ acked[q] = "denied" /\ End(k, "denied")
           /\ UNCHANGED <<gateVars, gate, basis>>
  <2>1. pc'[k] = "done" /\ result'[k] = "denied"
    BY <1>2 DEF End, Goto, TypeOK
  <2>2. ASSUME NEW h \in Gates PROVE GateInv(k, h)'
    <3>1. GateInv(k, h)
      BY DEF CallInv
    <3>2. Past(k, h)' => Past(k, h)
      BY <1>1, <2>1 DEF Past, Pending
    <3> QED BY <1>1, <1>2, <2>1, <3>1, <3>2
            DEF GateInv, gateVars, Ahead, Pending, Refused, GatesOf
  <2> QED BY <1>1, <1>2, <2>1, <2>2 DEF CallInv, gateVars
<1>3. CASE /\ acked[q] = "approved" /\ UNCHANGED result
           /\ gate[k] = "break" /\ Enter(k) /\ UNCHANGED basis
  <2>1. Ahead(k, "tool") /\ Ahead(k, "vault")
    BY <1>1, <1>3 DEF Ahead, Pending
  <2>2. \A h \in Gates : acked[<<k, h>>] # "denied"
    BY <1>1, <1>3
  <2> QED BY <1>1, <1>3, <2>1, <2>2, EnterKept
<1>4. CASE /\ acked[q] = "approved" /\ UNCHANGED result
           /\ gate[k] = "tool" /\ Goto(k, "run") /\ UNCHANGED <<gateVars, gate, basis>>
  <2>1. Ahead(k, "vault") /\ Past(k, "break")
    BY <1>1, <1>4 DEF Ahead, Past, Pending
  <2>2. \A h \in Gates : acked[<<k, h>>] # "denied"
    BY <1>1, <1>4
  <2>3. \A h \in GatesOf(k) : acked[<<k, h>>] = "approved"
    BY <1>4, <2>1 DEF GatesOf, CallInv, GateInv
  <2> QED BY <1>1, <1>4, <2>1, <2>2, <2>3, RunKept
<1>5. CASE /\ acked[q] = "approved" /\ UNCHANGED result
           /\ gate[k] = "vault" /\ Goto(k, "retrieve")
           /\ basis' = [basis EXCEPT ![k] = "human"] /\ UNCHANGED <<gateVars, gate>>
  <2>1. pc'[k] = "retrieve"
    BY <1>5 DEF Goto, TypeOK
  <2>2. ASSUME NEW h \in Gates PROVE GateInv(k, h)'
    <3>1. GateInv(k, h) /\ Past(k, h)
      BY <1>1, <1>5 DEF CallInv, Past, Pending
    <3> QED BY <1>1, <1>5, <2>1, <3>1
            DEF GateInv, gateVars, Ahead, Pending, Refused, GatesOf
  <2> QED BY <1>1, <1>5, <2>1, <2>2 DEF CallInv, gateVars
<1> QED BY <1>1, <1>2, <1>3, <1>4, <1>5 DEF Heard

\* A call that ends in its wait or is cut off.
LEMMA EndKept ==
    ASSUME TypeOK, NEW k \in Calls, CallInv(k), pc[k] \notin {"idle", "done"},
           NEW how \in {"expired", "timed_out", "aborted"}, End(k, how),
           listed' \in {listed, listed \ {<<k, gate[k]>>}},
           how = "expired" => \A g \in Gates : <<k, g>> \notin listed',
           UNCHANGED <<answer, acked, gate, ran, basis, got>>
    PROVE  CallInv(k)'
<1>1. pc'[k] = "done" /\ result'[k] = how
  BY DEF End, Goto, TypeOK
<1>2. ASSUME NEW h \in Gates PROVE GateInv(k, h)'
  <2>1. GateInv(k, h) /\ (Past(k, h)' => Past(k, h))
    BY <1>1 DEF CallInv, Past, Pending
  <2> QED BY <1>1, <2>1 DEF GateInv, Ahead, Pending, Refused, Cut, GatesOf
<1> QED BY <1>1, <1>2 DEF CallInv

LEMMA WaitsEndKept ==
    ASSUME TypeOK, NEW k \in Calls, CallInv(k),
           Expire(k) \/ Unlist(k) \/ ToolTimeout(k) \/ Abort(k)
    PROVE  CallInv(k)'
<1>1. CASE Expire(k)
  <2>1. pc[k] = "asking" /\ pc'[k] = "expired"
    BY <1>1 DEF Expire, Goto, TypeOK
  <2>2. UNCHANGED <<gateVars, gate, ran, basis, got, result>>
    BY <1>1 DEF Expire
  <2>3. ASSUME NEW h \in Gates PROVE GateInv(k, h)'
    BY <2>1, <2>2 DEF CallInv, GateInv, Ahead, Past, Pending, Refused, Cut, GatesOf, gateVars
  <2> QED BY <2>1, <2>2, <2>3 DEF CallInv, gateVars
<1>2. CASE Unlist(k)
  <2>1. \A g \in Gates : <<k, g>> \notin listed'
    BY <1>2 DEF Unlist, CallInv, GateInv
  <2> QED BY <1>2, <2>1, EndKept DEF Unlist
<1>3. CASE ToolTimeout(k)
  BY <1>3, EndKept DEF ToolTimeout, gateVars
<1>4. CASE Abort(k)
  BY <1>4, EndKept DEF Abort, gateVars
<1> QED BY <1>1, <1>2, <1>3, <1>4

\* A call past the gates of its tool goes on, or ends for another reason.
LEMMA OnwardKept ==
    ASSUME TypeOK, NEW k \in Calls, CallInv(k),
           pc[k] \in {"run", "evaluate", "retrieve", "decrypt"},
           UNCHANGED <<gateVars, gate>>,
           \/ pc'[k] \in {"retrieve", "decrypt"} /\ result'[k] = result[k]
           \/ pc'[k] = "evaluate" /\ pc[k] = "run" /\ result'[k] = result[k]
           \/ pc'[k] = "done" /\ result'[k] \in {"ok", "locked", "refused", "missing"},
           basis'[k] \in {basis[k], "rule"},
           got'[k] => got[k] \/ pc'[k] = "done"
    PROVE  CallInv(k)'
<1>1. ASSUME NEW h \in Gates PROVE GateInv(k, h)'
  <2>1. GateInv(k, h) /\ (h \in GatesOf(k) => Past(k, h)) /\ ~ Pending(k)
    BY DEF CallInv, Past, Pending
  <2>2. <<k, h>> \notin listed /\ acked[<<k, h>>] # "denied"
    BY <2>1 DEF GateInv, Cut, Refused
  <2> QED BY <2>1, <2>2 DEF GateInv, Ahead, Past, Pending, GatesOf, gateVars
<1> QED BY <1>1 DEF CallInv, gateVars

LEMMA RunsKept ==
    ASSUME TypeOK, NEW k \in Calls, CallInv(k),
           Run(k) \/ RequestCredential(k) \/ Retrieve(k) \/ Decrypt(k)
    PROVE  CallInv(k)'
<1>1. CASE Run(k)
  BY <1>1, OnwardKept DEF Run, End, Goto, TypeOK
<1>2. CASE RequestCredential(k)
  <2>1. CASE Ask(k, "vault") /\ UNCHANGED <<basis, result>>
    <3>1. Ahead(k, "vault") /\ (\A g \in GatesOf(k) : Past(k, g)) /\ ~ Pending(k)
      BY <1>2 DEF RequestCredential, Ahead, Past, Pending
    <3>2. \A g \in Gates : <<k, g>> \notin listed /\ acked[<<k, g>>] # "denied"
      BY <1>2, <3>1 DEF RequestCredential, CallInv, GateInv, Cut, Refused
    <3>3. \A g \in GatesOf(k) : acked[<<k, g>>] = "approved"
      BY <3>1 DEF CallInv, GateInv, GatesOf
    <3> QED BY <1>2, <2>1, <3>1, <3>2, <3>3, AskKept DEF RequestCredential, Gates
  <2>2. CASE End(k, "refused") /\ UNCHANGED <<gateVars, gate, basis>>
    BY <1>2, <2>2, OnwardKept DEF RequestCredential, End, Goto, TypeOK
  <2>3. CASE /\ Goto(k, "retrieve") /\ basis' = [basis EXCEPT ![k] = "rule"]
             /\ UNCHANGED <<gateVars, gate, result>>
    BY <1>2, <2>3, OnwardKept DEF RequestCredential, Goto, TypeOK
  <2> QED BY <1>2, <2>1, <2>2, <2>3 DEF RequestCredential
<1>3. CASE Retrieve(k)
  BY <1>3, OnwardKept DEF Retrieve, End, Goto, TypeOK
<1>4. CASE Decrypt(k)
  BY <1>4, OnwardKept DEF Decrypt, End, Goto, TypeOK
<1> QED BY <1>1, <1>2, <1>3, <1>4

\* An operator's answer settles one request of the call.
LEMMA RespondKept ==
    ASSUME TypeOK, NEW k \in Calls, CallInv(k), NEW g \in Gates,
           NEW d \in {"approved", "denied"}, Respond(k, g, d)
    PROVE  CallInv(k)'
<1> DEFINE q == <<k, g>>
<1>1. q \in listed /\ listed' = listed \ {q} /\ UNCHANGED callVars /\ q \in Asks
  BY DEF Respond, Asks
<1>2. acked' = [acked EXCEPT ![q] = d] /\ answer'[q] \in {answer[q], d}
      /\ \A h \in Gates : h # g => answer'[<<k, h>>] = answer[<<k, h>>]
  BY <1>1 DEF Respond, TypeOK
<1>3. /\ acked[q] = "open" /\ answer[q] = "none" /\ gate[k] = g
      /\ Pending(k) \/ Cut(k)
  BY <1>1 DEF CallInv, GateInv
<1>4. acked'[q] = d /\ \A h \in Gates : h # g => acked'[<<k, h>>] = acked[<<k, h>>]
  BY <1>1, <1>2 DEF TypeOK
<1>5. ASSUME NEW h \in Gates PROVE GateInv(k, h)'
  <2>1. GateInv(k, h) /\ (Ahead(k, h)' => Ahead(k, h)) /\ (Past(k, h)' => Past(k, h))
    BY <1>1 DEF CallInv, callVars, Ahead, Past, Pending
  <2>2. ~ Ahead(k, g) /\ (Past(k, g) => g \notin GatesOf(k))
    BY <1>3, GateInv(k, g) DEF CallInv, GateInv, Ahead, Pending, Cut
  <2>3. CASE h = g
    BY <1>1, <1>2, <1>3, <1>4, <2>1, <2>2, <2>3
       DEF GateInv, callVars, Pending, Cut, Refused, GatesOf
  <2>4. CASE h # g
    BY <1>1, <1>2, <1>3, <1>4, <2>1, <2>4
       DEF GateInv, callVars, Pending, Cut, Refused, GatesOf
  <2> QED BY <2>3, <2>4
<1> QED BY <1>1, <1>3, <1>4, <1>5 DEF CallInv, callVars, Pending, Cut, Gates

LEMMA CallsKept ==
    ASSUME TypeOK, \A k \in Calls : CallInv(k), [Next]_vars
    PROVE  \A k \in Calls : CallInv(k)'
<1> SUFFICES ASSUME NEW k \in Calls PROVE CallInv(k)'
  OBVIOUS
<1>1. ASSUME NEW j \in Calls,
             Start(j) \/ Proceed(j) \/ Decrypt(j) \/ ToolTimeout(j) \/ Abort(j)
      PROVE  CallInv(k)'
  <2>1. CASE j = k
    BY <1>1, <2>1, StartKept, HeardKept, WaitsEndKept, RunsKept DEF Proceed
  <2>2. CASE j # k
    BY <1>1, <2>2, OtherCalls, SameKept
  <2> QED BY <2>1, <2>2
<1>2. ASSUME NEW j \in Calls, NEW g \in Gates, NEW d \in {"approved", "denied"},
             Respond(j, g, d)
      PROVE  CallInv(k)'
  <2>1. CASE j = k
    BY <1>2, <2>1, RespondKept
  <2>2. CASE j # k
    <3>1. Same(k)
      BY <1>2, <2>2 DEF Respond, Same, callVars, TypeOK
    <3> QED BY <3>1, SameKept
  <2> QED BY <2>1, <2>2
<1>3. CASE \/ \E r \in Rules : AddPermission(r)
           \/ \E i \in DOMAIN permissions : RemovePermission(i)
           \/ \E a \in Admins :
                 Finish(a) \/ \E op \in {"lock", "unlock"} : Begin(a, op)
           \/ UNCHANGED vars
  <2>1. UNCHANGED <<gateVars, callVars>>
    BY <1>3 DEF AddPermission, RemovePermission, Finish, Begin, vars
  <2> QED BY <2>1, SameKept DEF Same, gateVars, callVars
<1> QED BY <1>1, <1>2, <1>3 DEF Next

LEMMA VaultKept ==
    ASSUME TypeOK, VaultInv, [Next]_vars
    PROVE  VaultInv'
<1>1. ASSUME NEW a \in Admins, NEW op \in {"lock", "unlock"}, Begin(a, op)
      PROVE  VaultInv'
  <2>1. /\ vop'[a] = op /\ key' = (op = "unlock")
        /\ \A b \in Admins : b # a => vop'[b] = "idle"
    BY <1>1 DEF Begin, NoWriter, TypeOK
  <2> QED BY <2>1 DEF VaultInv, NoWriter
<1>2. ASSUME NEW a \in Admins, Finish(a)
      PROVE  VaultInv'
  <2>1. /\ vop[a] # "idle" /\ vop'[a] = "idle" /\ key' = key
        /\ locked' = (vop[a] = "lock") /\ vop[a] \in {"lock", "unlock"}
        /\ \A b \in Admins : vop'[b] = "idle"
    BY <1>2 DEF Finish, TypeOK, VaultInv
  <2> QED BY <2>1 DEF VaultInv, NoWriter
<1>3. CASE \/ \E k \in Calls :
                 \/ Start(k) \/ Proceed(k) \/ Decrypt(k) \/ ToolTimeout(k) \/ Abort(k)
                 \/ \E g \in Gates, d \in {"approved", "denied"} : Respond(k, g, d)
           \/ \E r \in Rules : AddPermission(r)
           \/ \E i \in DOMAIN permissions : RemovePermission(i)
           \/ UNCHANGED vars
  <2>1. UNCHANGED vaultVars
    BY <1>3 DEF Start, Proceed, Heard, Expire, Unlist, Run, RequestCredential, Retrieve,
                Decrypt, ToolTimeout, Abort, Respond, AddPermission, RemovePermission, vars
  <2> QED BY <2>1 DEF VaultInv, NoWriter, vaultVars
<1> QED BY <1>1, <1>2, <1>3 DEF Next

LEMMA InvInit == Init => IInv
<1> SUFFICES ASSUME Init PROVE IInv
  OBVIOUS
<1>1. ASSUME NEW k \in Calls PROVE CallInv(k)
  BY DEF Init, CallInv, GateInv, Ahead, Past, Pending, Refused, Cut, Asks, Gates
<1>2. VaultInv
  BY DEF Init, VaultInv, NoWriter
<1> QED BY <1>1, <1>2, TypeInit DEF IInv

LEMMA InvStep == IInv /\ [Next]_vars => IInv'
<1> SUFFICES ASSUME IInv, [Next]_vars PROVE IInv'
  OBVIOUS
<1>1. TypeOK' /\ VaultInv'
  BY TypeStep, VaultKept DEF IInv
<1>2. \A k \in Calls : CallInv(k)'
  BY CallsKept DEF IInv
<1> QED BY <1>1, <1>2 DEF IInv

LEMMA Invariant == Spec => []IInv
BY InvInit, InvStep, PTL DEF Spec

-----------------------------------------------------------------------------
(* Path rules: the pass of evaluate, for lists of any length. *)

\* A non-empty set of naturals has a least element.
LEMMA NatMin == \A T \in SUBSET Nat : T # {} => \E x \in T : \A y \in T : x <= y
<1> DEFINE R == OpToRel(<, Nat)
<1>0. \A x, y \in Nat : <<x, y>> \in R <=> x < y
  BY DEF OpToRel
<1>1. IsWellFoundedOn(R, Nat)
  BY NatLessThanWellFounded
<1> HIDE DEF R
<1> SUFFICES ASSUME NEW T \in SUBSET Nat, T # {} PROVE \E x \in T : \A y \in T : x <= y
  OBVIOUS
<1>2. PICK x \in T : \A y \in T : ~ (<<y, x>> \in R)
  BY <1>1, WFMin
<1>3. \A y \in T : y \in Nat /\ x \in Nat /\ ~ (y < x)
  BY <1>0, <1>2
<1>4. \A y \in T : x <= y
  BY <1>3
<1> QED BY <1>4

\* Induction: a set of naturals that misses one would have a first one to miss.
LEMMA NatInduct ==
    ASSUME NEW T, 0 \in T, \A m \in Nat : m \in T => m + 1 \in T
    PROVE  Nat \subseteq T
<1> SUFFICES ASSUME Nat \ T # {} PROVE FALSE
  OBVIOUS
<1>1. PICK x \in Nat \ T : \A y \in Nat \ T : x <= y
  BY NatMin, Nat \ T \in SUBSET Nat
<1>2. x # 0 /\ x \in Nat
  BY <1>1
<1>3. x - 1 \in Nat /\ ~ (x <= x - 1) /\ (x - 1) + 1 = x
  BY <1>2
<1>4. x - 1 \in T
  BY <1>1, <1>3
<1> QED BY <1>1, <1>3, <1>4

\* One step of the pass over the rules, and the whole of it up to rule n.
Pass(perms, path, i, b) ==
    IF path \in perms[i].paths /\ Beats(perms[i], i, b.rule, b.found)
    THEN [found |-> TRUE, rule |-> perms[i]]
    ELSE b
Nothing == [found |-> FALSE, rule |-> NoRule]
IsPass(g, n, perms, path) ==
    g = [i \in 0 .. n |-> IF i = 0 THEN Nothing ELSE Pass(perms, path, i, g[i - 1])]

\* The recursive definition has a solution, for lists of any length.
LEMMA PassExists ==
    ASSUME NEW perms, NEW path
    PROVE  \A n \in Nat : \E g : IsPass(g, n, perms, path)
<1> DEFINE T == {n \in Nat : \E g : IsPass(g, n, perms, path)}
<1>1. 0 \in T
  <2> DEFINE g == [i \in 0 .. 0 |-> Nothing]
  <2>1. IsPass(g, 0, perms, path)
    BY DEF IsPass
  <2> QED BY <2>1
<1>2. ASSUME NEW m \in Nat, m \in T PROVE m + 1 \in T
  <2>1. PICK g : IsPass(g, m, perms, path)
    BY <1>2
  <2> DEFINE h == [i \in 0 .. m + 1 |-> IF i = m + 1 THEN Pass(perms, path, i, g[m]) ELSE g[i]]
  <2>2. \A i \in 0 .. m : h[i] = g[i]
    OBVIOUS
  <2>3. \A i \in 0 .. m : g[i] = IF i = 0 THEN Nothing ELSE Pass(perms, path, i, g[i - 1])
    BY <2>1 DEF IsPass
  <2>4. h[m + 1] = Pass(perms, path, m + 1, h[m])
    BY <2>2
  <2>5. \A i \in 0 .. m + 1 : h[i] = IF i = 0 THEN Nothing ELSE Pass(perms, path, i, h[i - 1])
    <3> TAKE i \in 0 .. m + 1
    <3>1. CASE i = m + 1
      BY <3>1, <2>4, (m + 1) - 1 = m, m + 1 # 0
    <3>2. CASE i = 0
      BY <3>2, <2>2, <2>3
    <3>3. CASE i \in 1 .. m
      BY <3>3, <2>2, <2>3, i - 1 \in 0 .. m, i \in 0 .. m
    <3> QED BY <3>1, <3>2, <3>3
  <2>6. h = [i \in 0 .. m + 1 |-> h[i]]
    OBVIOUS
  <2> HIDE DEF h
  <2>7. IsPass(h, m + 1, perms, path)
    BY <2>5, <2>6 DEF IsPass
  <2> QED BY <2>7
<1> QED BY <1>1, <1>2, NatInduct

\* What evaluate returns is the end of such a pass.
LEMMA BestPasses ==
    ASSUME NEW perms, NEW path, Len(perms) \in Nat
    PROVE  \E g : IsPass(g, Len(perms), perms, path) /\ Best(perms, path) = g[Len(perms)]
<1> DEFINE f == CHOOSE g : IsPass(g, Len(perms), perms, path)
<1>1. IsPass(f, Len(perms), perms, path)
  BY PassExists
<1>2. Best(perms, path) = f[Len(perms)]
  BY DEF Best, IsPass, Pass, Nothing
<1> QED BY <1>1, <1>2

\* Rule b is at least as specific as rule r and, if equally so, as strict.
Covers(b, r) ==
    \/ r.length < b.length
    \/ r.length = b.length /\ Restriction[r.level] <= Restriction[b.level]

\* What the pass has found among the first i rules.
Winner(perms, path, i, b) ==
    /\ b.found = (\E j \in 1 .. i : path \in perms[j].paths)
    /\ IF b.found
       THEN /\ \E j \in 1 .. i : path \in perms[j].paths /\ b.rule = perms[j]
            /\ \A j \in 1 .. i : path \in perms[j].paths => Covers(b.rule, perms[j])
       ELSE b = Nothing

\* Covers is an order, and Beats decides which of two rules covers the other.
LEMMA CoversOrder ==
    /\ \A r \in Rules : r.length \in Nat /\ Restriction[r.level] \in Nat
    /\ \A r \in Rules : Covers(r, r)
    /\ \A p, q, r \in Rules : Covers(p, q) /\ Covers(q, r) => Covers(p, r)
    /\ \A p, b \in Rules : \A i : IF Beats(p, i, b, TRUE) THEN Covers(p, b) ELSE Covers(b, p)
    /\ \A p, b, i : Beats(p, i, b, FALSE)
<1>1. \A r \in Rules : r.length \in Nat /\ Restriction[r.level] \in Nat
  BY RulesAssumption DEF Restriction, Levels
<1> HIDE DEF Restriction
<1> QED BY <1>1 DEF Covers, Beats

\* A step of the pass extends what was found by one rule.
LEMMA PassKeepsWinner ==
    ASSUME NEW perms \in Seq(Rules), NEW path, NEW i \in 1 .. Len(perms), NEW b,
           Winner(perms, path, i - 1, b)
    PROVE  Winner(perms, path, i, Pass(perms, path, i, b))
<1>1. /\ Len(perms) \in Nat /\ \A j \in 1 .. i : perms[j] \in Rules
      /\ i \in 1 .. i /\ i \in Nat
      /\ 1 .. i = (1 .. i - 1) \union {i}
  BY LenProperties, ElementOfSeq
<1>2. ~ b.found => b = Nothing
  BY DEF Winner
<1>3. b.found \in BOOLEAN /\ (b.found => b.rule \in Rules)
  BY <1>1 DEF Winner
<1>4. CASE path \notin perms[i].paths
  <2>1. Pass(perms, path, i, b) = b
    BY <1>4 DEF Pass
  <2>2. \A j \in 1 .. i : path \in perms[j].paths => j \in 1 .. i - 1
    BY <1>1, <1>4
  <2>3. \A j \in 1 .. i - 1 : j \in 1 .. i
    BY <1>1
  <2> QED BY <2>1, <2>2, <2>3 DEF Winner
<1>5. CASE path \in perms[i].paths /\ Beats(perms[i], i, b.rule, b.found)
  <2> DEFINE c == [found |-> TRUE, rule |-> perms[i]]
  <2>1. Pass(perms, path, i, b) = c /\ c.found = TRUE /\ c.rule = perms[i]
    BY <1>5 DEF Pass
  <2> HIDE DEF c
  <2>2. ASSUME NEW j \in 1 .. i, path \in perms[j].paths
        PROVE  Covers(perms[i], perms[j])
    <3>1. CASE j = i
      BY <3>1, <1>1, CoversOrder
    <3>2. CASE j \in 1 .. i - 1
      <4>1. b.found = TRUE /\ Covers(b.rule, perms[j])
        BY <3>2, <2>2, <1>3 DEF Winner
      <4>2. Covers(perms[i], b.rule)
        BY <4>1, <1>1, <1>3, <1>5, CoversOrder
      <4> QED BY <4>1, <4>2, <1>1, <1>3, CoversOrder
    <3> QED BY <3>1, <3>2, <1>1
  <2> QED BY <2>1, <2>2, <1>1, <1>5 DEF Winner
<1>6. CASE path \in perms[i].paths /\ ~ Beats(perms[i], i, b.rule, b.found)
  <2>1. Pass(perms, path, i, b) = b
    BY <1>6 DEF Pass
  <2>2. b.found = TRUE
    <3>1. b.found # FALSE
      BY <1>6 DEF Beats
    <3> QED BY <1>3, <3>1
  <2>3. Covers(b.rule, perms[i])
    BY <2>2, <1>1, <1>3, <1>6, CoversOrder
  <2>4. \A j \in 1 .. i : path \in perms[j].paths => Covers(b.rule, perms[j])
    BY <2>2, <2>3, <1>1 DEF Winner
  <2>5. \E j \in 1 .. i : path \in perms[j].paths /\ b.rule = perms[j]
    BY <2>2, <1>1 DEF Winner
  <2> QED BY <2>1, <2>2, <2>4, <2>5 DEF Winner
<1> QED BY <1>4, <1>5, <1>6

\* evaluate's answer is the winner of the whole list.
LEMMA BestWins ==
    ASSUME NEW perms \in Seq(Rules), NEW path
    PROVE  Winner(perms, path, Len(perms), Best(perms, path))
<1>1. Len(perms) \in Nat
  BY LenProperties
<1>2. PICK g : IsPass(g, Len(perms), perms, path) /\ Best(perms, path) = g[Len(perms)]
  BY <1>1, BestPasses
<1>3. \A i \in 0 .. Len(perms) :
         g[i] = IF i = 0 THEN Nothing ELSE Pass(perms, path, i, g[i - 1])
  BY <1>2 DEF IsPass
<1> DEFINE T == {i \in Nat : i <= Len(perms) => Winner(perms, path, i, g[i])}
<1>4. 0 \in T
  <2>1. g[0] = Nothing
    BY <1>1, <1>3
  <2>2. Nothing.found = FALSE
    BY DEF Nothing
  <2>3. (\E j \in 1 .. 0 : path \in perms[j].paths) = FALSE
    OBVIOUS
  <2> QED BY <2>1, <2>2, <2>3 DEF Winner
<1>5. ASSUME NEW m \in Nat, m \in T PROVE m + 1 \in T
  <2> SUFFICES ASSUME m + 1 <= Len(perms)
               PROVE  Winner(perms, path, m + 1, g[m + 1])
    OBVIOUS
  <2>1. m + 1 \in 1 .. Len(perms) /\ (m + 1) - 1 = m /\ m <= Len(perms)
    BY <1>1
  <2>2. Winner(perms, path, (m + 1) - 1, g[m])
    BY <1>5, <2>1
  <2>3. g[m + 1] = Pass(perms, path, m + 1, g[m])
    BY <1>3, <2>1, m + 1 # 0
  <2> QED BY <2>1, <2>2, <2>3, PassKeepsWinner
<1>6. Nat \subseteq T
  BY <1>4, <1>5, NatInduct
<1> QED BY <1>1, <1>2, <1>6

\* That is what the property says of every call's path.
LEMMA BestRules ==
    ASSUME permissions \in Seq(Rules)
    PROVE  LongestThenStrictest
<1> SUFFICES ASSUME NEW k \in Calls
             PROVE  LET matching == {permissions[i] : i \in {i \in DOMAIN permissions :
                                                   Path[k] \in permissions[i].paths}}
                        b == Best(permissions, Path[k])
                    IN  IF matching = {} THEN b.rule.level = "deny"
                        ELSE /\ b.rule \in matching
                             /\ \A r \in matching :
                                   \/ r.length < b.rule.length
                                   \/ /\ r.length = b.rule.length
                                      /\ Restriction[r.level] <= Restriction[b.rule.level]
  BY DEF LongestThenStrictest
<1> DEFINE b == Best(permissions, Path[k])
           matching == {permissions[i] : i \in {i \in DOMAIN permissions :
                                                   Path[k] \in permissions[i].paths}}
<1>1. DOMAIN permissions = 1 .. Len(permissions)
  BY LenProperties
<1>2. Winner(permissions, Path[k], Len(permissions), b)
  BY BestWins
<1>3. Nothing.rule.level = "deny"
  BY DEF Nothing, NoRule
<1> HIDE DEF b
<1>4. CASE b.found
  <2>1. b.rule \in matching
    BY <1>1, <1>2, <1>4 DEF Winner
  <2>2. \A r \in matching : Covers(b.rule, r)
    BY <1>1, <1>2, <1>4 DEF Winner
  <2> QED BY <2>1, <2>2 DEF Covers, b
<1>5. CASE ~ b.found
  <2>1. matching = {} /\ b.rule.level = "deny"
    BY <1>1, <1>2, <1>3, <1>5 DEF Winner
  <2> QED BY <2>1 DEF b
<1> QED BY <1>4, <1>5

-----------------------------------------------------------------------------
(* The properties. *)

\* A call ends as what an operator was told was decided about it.
THEOREM AnswersHonouredTheorem == Spec => []AnswersHonoured
<1>1. IInv => AnswersHonoured
  <2> SUFFICES ASSUME IInv, NEW k \in Calls, pc[k] = "done"
               PROVE  /\ result[k] = "denied" => acked[<<k, gate[k]>>] = "denied"
                      /\ (\E g \in Gates : acked[<<k, g>>] = "denied") =>
                            result[k] \in {"denied", "expired", "timed_out", "aborted"}
    BY DEF AnswersHonoured
  <2> QED BY DEF IInv, CallInv, GateInv, Refused, Pending
<1> QED BY <1>1, Invariant, PTL

\* Only a call that was cut off leaves a request in a queue.
THEOREM OnlyCutOffLingerTheorem == Spec => []OnlyCutOffLinger
<1>1. IInv => OnlyCutOffLinger
  BY DEF IInv, CallInv, GateInv, OnlyCutOffLinger, Waiting, Pending, Cut
<1> QED BY <1>1, Invariant, PTL

\* No call is handed a credential while the flag says the vault is locked.
THEOREM LockedGivesNothingTheorem == Spec => LockedGivesNothing
<1>1. IInv /\ [Next]_vars => [\A k \in Calls : got'[k] /\ ~ got[k] => ~ locked]_vars
  <2> SUFFICES ASSUME IInv, Next, NEW k \in Calls, got'[k], ~ got[k]
               PROVE  ~ locked
    OBVIOUS
  <2>1. ASSUME NEW j \in Calls, Decrypt(j) PROVE ~ locked
    BY <2>1 DEF Decrypt, IInv, VaultInv
  <2>2. ASSUME \A j \in Calls : ~ Decrypt(j) PROVE FALSE
    BY <2>2 DEF Next, Start, Proceed, Heard, Expire, Unlist, Run, RequestCredential,
                Retrieve, ToolTimeout, Abort, Respond, AddPermission, RemovePermission,
                Begin, Finish, callVars
  <2> QED BY <2>1, <2>2
<1> QED BY <1>1, Invariant, PTL DEF Spec, LockedGivesNothing

\* The rule applied is the strictest of the longest that match; without a
\* match the answer is deny (PathPermissionEvaluator::evaluate).
THEOREM LongestThenStrictestTheorem == Spec => []LongestThenStrictest
<1>1. TypeOK => LongestThenStrictest
  BY BestRules DEF TypeOK
<1> QED BY <1>1, TypeCorrect, PTL

\* The level evaluate returns does not depend on the order in which the rules
\* were added, nor on a rule being there twice.
THEOREM EvaluateIgnoresOrder ==
    ASSUME NEW p \in Seq(Rules), NEW q \in Seq(Rules), NEW path,
           {p[i] : i \in DOMAIN p} = {q[i] : i \in DOMAIN q}
    PROVE  Evaluate(p, path) = Evaluate(q, path)
<1> DEFINE b == Best(p, path)
           c == Best(q, path)
<1>1. /\ DOMAIN p = 1 .. Len(p) /\ DOMAIN q = 1 .. Len(q)
      /\ \A i \in DOMAIN p : p[i] \in Rules
      /\ \A i \in DOMAIN q : q[i] \in Rules
  BY LenProperties, ElementOfSeq
<1>2. Winner(p, path, Len(p), b) /\ Winner(q, path, Len(q), c)
  BY BestWins
<1> HIDE DEF b, c
<1>3. (\A i \in DOMAIN p : \E j \in DOMAIN q : q[j] = p[i])
      /\ (\A j \in DOMAIN q : \E i \in DOMAIN p : p[i] = q[j])
  <2>1. (\A i \in DOMAIN p : p[i] \in {q[j] : j \in DOMAIN q})
        /\ (\A j \in DOMAIN q : q[j] \in {p[i] : i \in DOMAIN p})
    OBVIOUS
  <2> QED BY <2>1
<1>4. b.found = c.found
  BY <1>1, <1>2, <1>3 DEF Winner
<1>5. CASE ~ b.found
  BY <1>2, <1>4, <1>5 DEF Winner, Evaluate, b, c
<1>6. CASE b.found
  <2>1. PICK i \in DOMAIN p : path \in p[i].paths /\ b.rule = p[i]
    BY <1>1, <1>2, <1>6 DEF Winner
  <2>2. PICK j \in DOMAIN q : path \in q[j].paths /\ c.rule = q[j]
    BY <1>1, <1>2, <1>4, <1>6 DEF Winner
  <2>3. /\ \E l \in DOMAIN q : q[l] = b.rule
        /\ \E l \in DOMAIN p : p[l] = c.rule
    BY <1>3, <2>1, <2>2
  <2>4. Covers(c.rule, b.rule) /\ Covers(b.rule, c.rule)
    BY <2>1, <2>2, <2>3, <1>1, <1>2, <1>4, <1>6 DEF Winner
  <2>5. b.rule \in Rules /\ c.rule \in Rules
    BY <1>1, <2>1, <2>2
  <2>6. Restriction[b.rule.level] = Restriction[c.rule.level]
    BY <2>4, <2>5, CoversOrder DEF Covers
  <2>7. b.rule.level \in Levels /\ c.rule.level \in Levels
    BY <2>5, RulesAssumption
  <2>8. b.rule.level = c.rule.level
    BY <2>6, <2>7 DEF Restriction, Levels
  <2> QED BY <2>8 DEF Evaluate, b, c
<1> QED BY <1>5, <1>6

\* The gates implement HumanGate: a decision is taken once, and a tool or a
\* credential that waits for an approval comes only after one.
LEMMA ActedApproved == IInv => \A q \in Acted : acked[q] = "approved"
<1> SUFFICES ASSUME IInv, NEW k \in Calls, NEW g \in Gates, <<k, g>> \in Acted
             PROVE  acked[<<k, g>>] = "approved"
  <2>1. \A q \in Acted : q \in Asks
    BY DEF Acted
  <2> QED BY <2>1 DEF Asks
<1>1. (ran[k] /\ g \in GatesOf(k)) \/ (got[k] /\ basis[k] = "human" /\ g = "vault")
  BY DEF Acted
<1>2. CallInv(k) /\ GateInv(k, g)
  BY DEF IInv, CallInv
<1> QED BY <1>1, <1>2 DEF CallInv, GateInv, Past

LEMMA GateInit == Init => Gate!Init
BY DEF Init, Gate!Init, Acted, Asks

LEMMA GateStep == IInv /\ [Next]_vars => [Gate!Next]_(Gate!gateVars)
<1> SUFFICES ASSUME IInv, [Next]_vars PROVE [Gate!Next]_(Gate!gateVars)
  OBVIOUS
<1>1. ASSUME NEW k \in Calls, NEW g \in Gates, NEW d \in {"approved", "denied"},
             Respond(k, g, d)
      PROVE  Gate!Next
  <2>1. <<k, g>> \in Asks /\ acked[<<k, g>>] = "open" /\ Acted' = Acted
    BY <1>1 DEF Respond, Acted, callVars, Asks, IInv, CallInv, GateInv, GatesOf
  <2>2. Gate!Decide(<<k, g>>, d)
    BY <1>1, <2>1 DEF Respond, Gate!Decide
  <2> QED BY <2>1, <2>2 DEF Gate!Next
<1>2. ASSUME UNCHANGED acked, \A q \in Acted : q \in Acted'
      PROVE  [Gate!Next]_(Gate!gateVars)
  <2>1. IInv'
    BY InvStep
  <2>2. (\A q \in Acted : acked[q] = "approved")'
    BY <2>1, ActedApproved, PTL
  <2>3. \A q \in Acted' : acked[q] = "approved"
    BY <1>2, <2>2
  <2>4. Acted' \in SUBSET Asks /\ Acted' = Acted \union Acted'
    BY <1>2 DEF Acted, Asks
  <2>5. Gate!Act(Acted')
    BY <1>2, <2>3, <2>4 DEF Gate!Act
  <2> QED BY <2>4, <2>5 DEF Gate!Next
<1>3. ASSUME ~ \E k \in Calls, g \in Gates, d \in {"approved", "denied"} : Respond(k, g, d)
      PROVE  UNCHANGED acked /\ \A q \in Acted : q \in Acted'
  <2>1. UNCHANGED acked
    BY <1>3 DEF Next, Start, Proceed, Heard, Expire, Unlist, Run, RequestCredential, Retrieve,
                Decrypt, ToolTimeout, Abort, AddPermission, RemovePermission, Begin, Finish,
                Ask, Enter, vars, gateVars
  <2>2. \A k \in Calls : /\ ran[k] => ran'[k]
                         /\ got[k] => got'[k] /\ basis'[k] = basis[k]
    <3> SUFFICES ASSUME NEW k \in Calls
                 PROVE  (ran[k] => ran'[k]) /\ (got[k] => got'[k] /\ basis'[k] = basis[k])
      OBVIOUS
    <3>1. got[k] => pc[k] = "done"
      BY DEF IInv, CallInv
    <3>2. ASSUME NEW j \in Calls,
                 \/ Start(j) \/ Heard(j) \/ Expire(j) \/ Unlist(j) \/ Run(j)
                 \/ RequestCredential(j)
          PROVE  (ran[k] => ran'[k]) /\ (got[k] => got'[k] /\ basis'[k] = basis[k])
      BY <3>1, <3>2 DEF Start, Heard, Expire, Unlist, Run, RequestCredential, IInv, TypeOK
    <3>3. ASSUME NEW j \in Calls,
                 Retrieve(j) \/ Decrypt(j) \/ ToolTimeout(j) \/ Abort(j)
          PROVE  (ran[k] => ran'[k]) /\ (got[k] => got'[k] /\ basis'[k] = basis[k])
      BY <3>3 DEF Retrieve, Decrypt, ToolTimeout, Abort, IInv, TypeOK
    <3>4. CASE \/ \E r \in Rules : AddPermission(r)
               \/ \E i \in DOMAIN permissions : RemovePermission(i)
               \/ \E a \in Admins :
                     Finish(a) \/ \E op \in {"lock", "unlock"} : Begin(a, op)
               \/ UNCHANGED vars
      BY <3>4 DEF AddPermission, RemovePermission, Finish, Begin, vars, callVars
    <3> QED BY <1>3, <3>2, <3>3, <3>4 DEF Next, Proceed
  <2> QED BY <2>1, <2>2 DEF Acted, Asks, GatesOf
<1> QED BY <1>1, <1>2, <1>3

THEOREM ImplementsHumanGate == Spec => GateSpec
BY Invariant, GateInit, GateStep, PTL DEF Spec, GateSpec, Gate!Spec

-----------------------------------------------------------------------------
(* The end of a call. *)

\* How many steps the call may still take.
StepsLeft(k) ==
    CASE pc[k] = "idle"     -> 9
      [] pc[k] = "asking"   -> IF gate[k] = "break" THEN 8
                               ELSE IF gate[k] = "tool" THEN 7 ELSE 4
      [] pc[k] = "run"      -> 6
      [] pc[k] = "evaluate" -> 5
      [] pc[k] = "retrieve" -> 3
      [] pc[k] = "decrypt"  -> 2
      [] pc[k] = "expired"  -> 1
      [] pc[k] = "done"     -> 0

\* Whatever happens, a call goes on or stays where it is.
CallsAdvance ==
    [][\A k \in Calls : \/ StepsLeft(k)' < StepsLeft(k)
                        \/ pc'[k] = pc[k] /\ gate'[k] = gate[k]]_vars

\* A call's own steps go on.
LEMMA StepAdvances ==
    ASSUME TypeOK, NEW k \in Calls,
           \/ Start(k) \/ Proceed(k) \/ Decrypt(k) \/ ToolTimeout(k) \/ Abort(k)
    PROVE  /\ StepsLeft(k)' < StepsLeft(k)
           /\ \A j \in Calls \ {k} : pc'[j] = pc[j] /\ gate'[j] = gate[j]
<1> DEFINE Fewer == /\ StepsLeft(k)' < StepsLeft(k)
                    /\ \A j \in Calls \ {k} : pc'[j] = pc[j] /\ gate'[j] = gate[j]
<1>1. ASSUME NEW p, Goto(k, p) PROVE pc'[k] = p /\ \A j \in Calls \ {k} : pc'[j] = pc[j]
  BY <1>1 DEF Goto, TypeOK
<1>2. ASSUME NEW g, Ask(k, g)
      PROVE  /\ pc'[k] = "asking" /\ gate'[k] = g
             /\ \A j \in Calls \ {k} : pc'[j] = pc[j] /\ gate'[j] = gate[j]
  BY <1>1, <1>2 DEF Ask, TypeOK
<1>3. ASSUME NEW how, End(k, how), UNCHANGED gate, pc[k] # "done" PROVE Fewer
  <2>1. pc'[k] = "done" /\ StepsLeft(k)' = 0
    BY <1>1, <1>3 DEF End, StepsLeft
  <2>2. StepsLeft(k) \in 1 .. 9
    <3>1. pc[k] \in {"idle", "asking", "expired", "run", "evaluate", "retrieve", "decrypt"}
      BY <1>3 DEF TypeOK
    <3> QED BY <3>1 DEF StepsLeft
  <2> QED BY <1>1, <1>3, <2>1, <2>2 DEF End
<1>4. ASSUME pc[k] = "idle" \/ (pc[k] = "asking" /\ gate[k] = "break"), Enter(k)
      PROVE  Fewer
  <2>1. CASE Ask(k, "tool")
    BY <1>2, <1>4, <2>1 DEF StepsLeft
  <2>2. CASE Goto(k, "run") /\ UNCHANGED gate
    BY <1>1, <1>4, <2>2 DEF StepsLeft
  <2> QED BY <1>4, <2>1, <2>2 DEF Enter
<1>5. ASSUME Start(k) PROVE Fewer
  <2>1. CASE Ask(k, "break")
    BY <1>2, <1>5, <2>1 DEF Start, StepsLeft
  <2>2. CASE Enter(k)
    BY <1>4, <1>5, <2>2 DEF Start
  <2> QED BY <1>5, <2>1, <2>2 DEF Start
<1>6. ASSUME Heard(k) PROVE Fewer
  <2>1. CASE UNCHANGED gate /\ End(k, "denied")
    BY <1>3, <1>6, <2>1 DEF Heard
  <2>2. CASE gate[k] = "break" /\ Enter(k)
    BY <1>4, <1>6, <2>2 DEF Heard
  <2>3. CASE gate[k] = "tool" /\ Goto(k, "run") /\ UNCHANGED gate
    BY <1>1, <1>6, <2>3 DEF Heard, StepsLeft
  <2>4. CASE gate[k] = "vault" /\ Goto(k, "retrieve") /\ UNCHANGED gate
    BY <1>1, <1>6, <2>4 DEF Heard, StepsLeft
  <2> QED BY <1>6, <2>1, <2>2, <2>3, <2>4 DEF Heard
<1>7. ASSUME Expire(k) PROVE Fewer
  BY <1>1, <1>7 DEF Expire, StepsLeft
<1>8. ASSUME Run(k) PROVE Fewer
  <2>1. CASE Goto(k, "evaluate")
    BY <1>1, <1>8, <2>1 DEF Run, StepsLeft
  <2>2. CASE \E how : End(k, how)
    BY <1>3, <1>8, <2>2 DEF Run
  <2> QED BY <1>8, <2>1, <2>2 DEF Run
<1>9. ASSUME RequestCredential(k) PROVE Fewer
  <2>1. CASE Ask(k, "vault")
    BY <1>2, <1>9, <2>1 DEF RequestCredential, StepsLeft
  <2>2. CASE End(k, "refused") /\ UNCHANGED gate
    BY <1>3, <1>9, <2>2 DEF RequestCredential
  <2>3. CASE Goto(k, "retrieve") /\ UNCHANGED gate
    BY <1>1, <1>9, <2>3 DEF RequestCredential, StepsLeft
  <2> QED BY <1>9, <2>1, <2>2, <2>3 DEF RequestCredential
<1>10. ASSUME Retrieve(k) PROVE Fewer
  <2>1. CASE Goto(k, "decrypt")
    BY <1>1, <1>10, <2>1 DEF Retrieve, StepsLeft
  <2>2. CASE End(k, "locked")
    BY <1>3, <1>10, <2>2 DEF Retrieve
  <2> QED BY <1>10, <2>1, <2>2 DEF Retrieve
<1>11. ASSUME Unlist(k) \/ Decrypt(k) \/ ToolTimeout(k) \/ Abort(k) PROVE Fewer
  BY <1>3, <1>11 DEF Unlist, Decrypt, ToolTimeout, Abort
<1> QED
  <2> HIDE DEF Fewer
  <2>1. Fewer
    BY <1>5, <1>6, <1>7, <1>8, <1>9, <1>10, <1>11 DEF Proceed
  <2> QED BY <2>1 DEF Fewer

\* A call takes nine steps at most, whatever operators, administrators, rules
\* and other calls do meanwhile: an approval never sends it back to a gate it
\* has passed, and a rule that is added later never to one it did not meet.
THEOREM CallsAdvanceTheorem == Spec => CallsAdvance
<1>1. TypeOK /\ [Next]_vars
        => [\A k \in Calls : \/ StepsLeft(k)' < StepsLeft(k)
                             \/ pc'[k] = pc[k] /\ gate'[k] = gate[k]]_vars
  <2> SUFFICES ASSUME TypeOK, Next, NEW k \in Calls
               PROVE  StepsLeft(k)' < StepsLeft(k) \/ (pc'[k] = pc[k] /\ gate'[k] = gate[k])
    OBVIOUS
  <2>1. ASSUME NEW j \in Calls,
               Start(j) \/ Proceed(j) \/ Decrypt(j) \/ ToolTimeout(j) \/ Abort(j)
        PROVE  StepsLeft(k)' < StepsLeft(k) \/ (pc'[k] = pc[k] /\ gate'[k] = gate[k])
    BY <2>1, StepAdvances
  <2>2. CASE \/ \E j \in Calls, g \in Gates, d \in {"approved", "denied"} : Respond(j, g, d)
             \/ \E r \in Rules : AddPermission(r)
             \/ \E i \in DOMAIN permissions : RemovePermission(i)
             \/ \E a \in Admins :
                   Finish(a) \/ \E o \in {"lock", "unlock"} : Begin(a, o)
    BY <2>2 DEF Respond, AddPermission, RemovePermission, Finish, Begin, callVars
  <2> QED BY <2>1, <2>2 DEF Next
<1> QED BY <1>1, TypeCorrect, PTL DEF Spec, CallsAdvance

=============================================================================
