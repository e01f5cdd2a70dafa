------------------------- MODULE GatewayAgentsProofs -------------------------
(***************************************************************************)
(* Proofs about GatewayAgents: type correctness, no deletion under a       *)
(* counted turn, consistency of the agent tables, and registration of the  *)
(* agent tools, for any agents, messages and operations; and that they     *)
(* never all wait for each other, but for a tool that may be timed out.    *)
(***************************************************************************)
EXTENDS GatewayAgents, WellFoundedInduction, TLAPS

-----------------------------------------------------------------------------
(* The inductive invariant                                                 *)

\* Only a frame that waits for the one above it has one.
Stacked ==
    /\ \A r \in Requests, d \in Depths :
           turn[r][d].pc \notin {"agent", "handed"}
               => \A e \in Depths : d < e => turn[r][e].pc = "none"
    /\ \A r \in Requests : via[r] = "none" => ~ InTurn(r)

\* Each stage is one of the operations that have it, and a reload has each
\* agent in one place.
StagedOf(m) ==
    /\ op[m].pc \in {"lock", "check"} => op[m].kind \in Mutators
    /\ op[m].pc = "unpend" => op[m].kind = "update"
    /\ op[m].pc \in {"remove", "forget"} => op[m].kind = "delete"
    /\ op[m].pc \in {"build", "proxies", "insert"} => op[m].kind # "delete"
    /\ op[m].pc \in {"expose", "register"} => op[m].kind \notin {"update", "delete"}
    /\ Reloading(m) => /\ op[m].todo \cap op[m].left = {}
                       /\ op[m].agent \notin op[m].todo \cup op[m].left
                       /\ op[m].pc = "build" => op[m].agent = None

Staged == \A m \in Admins : StagedOf(m)

\* One operation at a time holds the mutation lock.
Exclusive == \A m, n \in Admins : Mutates(m) /\ Mutates(n) => m = n

\* Nobody is counted for an agent that is being removed.
DeletesAlone ==
    \A m \in Admins : op[m].pc \in {"remove", "forget"}
                          => ~ InFlight(op[m].agent)

\* What is in two hands, one of which reloads, is crossed, and so is whatever
\* becomes pending during a reload.
CrossedKnown ==
    /\ \A m, n \in Admins : Reloading(m) /\ Mutates(n) => op[n].agent \in crossed
    /\ \A m, n \in Admins : Reloading(m) /\ Reloading(n) /\ m # n
                                => InHand(m) \subseteq crossed
    /\ \A m \in Admins : Reloading(m) => pending \subseteq crossed

\* The agent is in both tables' good books: what QuietAgentsConsistent says.
Consistent(a) == /\ a \in config <=> a \in active \cup pending
                 /\ ~ (a \in active /\ a \in pending)

\* What each operation may assume of the agent it has in hand.
Handled(m, a) ==
    /\ op[m].pc \in {"check", "remove"} => Consistent(a)
    /\ op[m].pc \in {"build", "proxies", "insert"} =>
           /\ a \in config
           /\ op[m].kind = "update" => Consistent(a)
           /\ op[m].kind # "update" => a \notin active \cup pending
    /\ op[m].pc = "unpend" => a \in config \cap active
    /\ op[m].pc \in {"expose", "register"} =>
           a \in config \cap active /\ a \notin pending
    /\ op[m].pc = "forget" => a \notin active

HandsConsistent ==
    \A a \in Agents \ crossed :
        /\ \A m \in Admins : a \in InHand(m) => Handled(m, a)
        /\ (\A m \in Admins : a \notin InHand(m)) => Consistent(a)

\* The agents that are to be tools are, or are about to be.
Listed ==
    ~ behind => \A a \in Exposures :
        a \in tools \/ \E m \in Admins : op[m].pc = "register" /\ a \in op[m].todo

IInv == /\ TypeOK /\ Stacked /\ Staged /\ Exclusive /\ DeletesAlone
        /\ CountedAgentsStay /\ CrossedKnown /\ HandsConsistent /\ Listed

\* The parts of it that are about the turns, and about the administration.
TurnTypes == /\ turn \in [Requests -> [Depths -> Frame]]
             /\ calls \in [Requests -> 0..MaxCalls]
             /\ via \in [Requests -> Vias \cup {"none"}]

AdminTypes ==
    /\ config \subseteq Agents /\ filed \subseteq config
    /\ active \subseteq Agents /\ pending \subseteq Agents
    /\ tools \subseteq Agents
    /\ op \in [Admins -> Op]
    /\ \A m \in Admins :
           op[m].kind \in Mutators \/ op[m].pc \in {"proxies", "insert"}
               => op[m].agent \in Agents
    /\ crossed \subseteq Agents /\ behind \in BOOLEAN

LEMMA TypeParts == TypeOK <=> TurnTypes /\ AdminTypes
BY DEF TypeOK, TurnTypes, AdminTypes

-----------------------------------------------------------------------------
(* What a step of a turn does to the frames                                *)

LEMMA DepthsNat == \A d \in Depths : d \in Nat
BY GatewayAgentsAssumption DEF Depths

\* Only the frame at depth d changes.
OnlyAt(r, d, f) ==
    /\ turn'[r][d] = f
    /\ \A q \in Requests, e \in Depths :
           q # r \/ e # d => turn'[q][e] = turn[q][e]

LEMMA GoToFacts ==
    ASSUME TurnTypes, NEW r \in Requests, NEW d \in Depths, NEW pc,
           pc \in {"lock", "look", "list", "think", "call", "tool"}, GoTo(r, d, pc)
    PROVE  /\ turn' \in [Requests -> [Depths -> Frame]]
           /\ OnlyAt(r, d, [agent |-> turn[r][d].agent, pc |-> pc])
<1> DEFINE f == [turn[r][d] EXCEPT !.pc = pc]
<1>1. turn[r] \in [Depths -> Frame] /\ turn[r][d] \in Frame
  BY DEF TurnTypes
<1>2. f = [agent |-> turn[r][d].agent, pc |-> pc] /\ f \in Frame
  BY <1>1 DEF Frame
<1>3. turn' = [turn EXCEPT ![r] = [turn[r] EXCEPT ![d] = f]]
  BY DEF GoTo
<1> HIDE DEF f
<1>4. [turn[r] EXCEPT ![d] = f] \in [Depths -> Frame]
  BY <1>1, <1>2
<1>5. turn' \in [Requests -> [Depths -> Frame]]
  BY <1>3, <1>4 DEF TurnTypes
<1>6. OnlyAt(r, d, f)
  BY <1>1, <1>3 DEF OnlyAt, TurnTypes
<1> QED
  BY <1>2, <1>5, <1>6

\* Only the frames at depths d and d + 1 change: the one at d now waits at pc
\* for a turn of agent b above it.
Pushed(r, d, pc, b, start) ==
    /\ turn'[r][d] = [agent |-> turn[r][d].agent, pc |-> pc]
    /\ turn'[r][d + 1] = [agent |-> b, pc |-> start]
    /\ \A q \in Requests, e \in Depths :
           q # r \/ e \notin {d, d + 1} => turn'[q][e] = turn[q][e]

LEMMA PushFacts ==
    ASSUME TurnTypes, NEW r \in Requests, NEW d \in Depths, d < MaxDepth,
           NEW pc, pc \in {"agent", "handed"}, NEW b \in Agents,
           NEW start, start \in {"lock", "look"}, Push(r, d, pc, b, start)
    PROVE  /\ turn' \in [Requests -> [Depths -> Frame]]
           /\ d + 1 \in Depths
           /\ Pushed(r, d, pc, b, start)
<1> DEFINE f == [turn[r][d] EXCEPT !.pc = pc]
           g == [agent |-> b, pc |-> start]
<1>1. turn[r] \in [Depths -> Frame] /\ turn[r][d] \in Frame
  BY DEF TurnTypes
<1>2. f = [agent |-> turn[r][d].agent, pc |-> pc] /\ f \in Frame /\ g \in Frame
  BY <1>1 DEF Frame
<1>3. d + 1 \in Depths /\ d + 1 # d
  BY GatewayAgentsAssumption DEF Depths
<1>4. turn' = [turn EXCEPT ![r] = [[turn[r] EXCEPT ![d] = f] EXCEPT ![d + 1] = g]]
  BY DEF Push, TurnTypes
<1> HIDE DEF f, g
<1>5. [[turn[r] EXCEPT ![d] = f] EXCEPT ![d + 1] = g] \in [Depths -> Frame]
  BY <1>1, <1>2, <1>3
<1>6. turn' \in [Requests -> [Depths -> Frame]]
  BY <1>4, <1>5 DEF TurnTypes
<1>7. turn'[r] = [[turn[r] EXCEPT ![d] = f] EXCEPT ![d + 1] = g]
  BY <1>4 DEF TurnTypes
<1>8. turn'[r][d] = f /\ turn'[r][d + 1] = g
  BY <1>1, <1>3, <1>7
<1>9. \A q \in Requests, e \in Depths :
          q # r \/ e \notin {d, d + 1} => turn'[q][e] = turn[q][e]
  BY <1>1, <1>3, <1>4, <1>7 DEF TurnTypes
<1> QED
  BY <1>2, <1>3, <1>6, <1>8, <1>9 DEF g, Pushed

\* The turn of message r loses its frames from some depth on.
LEMMA ReturnFacts ==
    ASSUME TurnTypes, NEW r \in Requests, Return(r)
    PROVE  /\ turn' \in [Requests -> [Depths -> Frame]]
           /\ \A q \in Requests : q # r => turn'[q] = turn[q]
           /\ \A e \in Depths :
                  turn'[r][e] = IF \E d \in Depths : e < d /\ At(r, d, "agent")
                                THEN turn[r][e]
                                ELSE IF At(r, e, "agent")
                                     THEN [agent |-> turn[r][e].agent, pc |-> "think"]
                                     ELSE NoFrame
<1> DEFINE F == [e \in Depths |->
                    IF \E d \in Depths : e < d /\ At(r, d, "agent")
                    THEN turn[r][e]
                    ELSE IF At(r, e, "agent")
                         THEN [agent |-> turn[r][e].agent, pc |-> "think"]
                         ELSE NoFrame]
<1>1. \A e \in Depths : turn[r][e] \in Frame
  BY DEF TurnTypes
<1>2. \A e \in Depths : [turn[r][e] EXCEPT !.pc = "think"]
                        = [agent |-> turn[r][e].agent, pc |-> "think"]
  BY <1>1 DEF Frame
<1>3. \A e \in Depths : [agent |-> turn[r][e].agent, pc |-> "think"] \in Frame
  BY <1>1 DEF Frame
<1>4. NoFrame \in Frame
  BY DEF NoFrame, Frame
<1>5. turn' = [turn EXCEPT ![r] = F]
  BY <1>2 DEF Return
<1>6. F \in [Depths -> Frame]
  BY <1>1, <1>3, <1>4
<1> HIDE DEF F
<1>7. turn' \in [Requests -> [Depths -> Frame]] /\ turn'[r] = F
      /\ \A q \in Requests : q # r => turn'[q] = turn[q]
  BY <1>5, <1>6 DEF TurnTypes
<1> QED
  BY <1>7 DEF F

\* ... from depth d on, and the frame at d is with the model again.
LEMMA ResumedFacts ==
    ASSUME TurnTypes, NEW r \in Requests, NEW d \in Depths,
           turn' = [turn EXCEPT ![r] = Resumed(r, d)]
    PROVE  /\ turn' \in [Requests -> [Depths -> Frame]]
           /\ \A q \in Requests : q # r => turn'[q] = turn[q]
           /\ \A e \in Depths :
                  turn'[r][e] = IF e < d THEN turn[r][e]
                                ELSE IF e = d
                                     THEN [agent |-> turn[r][d].agent, pc |-> "think"]
                                     ELSE NoFrame
<1> DEFINE F == Resumed(r, d)
<1>1. \A e \in Depths : turn[r][e] \in Frame
  BY DEF TurnTypes
<1>2. /\ [turn[r][d] EXCEPT !.pc = "think"]
           = [agent |-> turn[r][d].agent, pc |-> "think"]
      /\ [agent |-> turn[r][d].agent, pc |-> "think"] \in Frame
  BY <1>1 DEF Frame
<1>3. NoFrame \in Frame
  BY DEF NoFrame, Frame
<1>4. F = [e \in Depths |-> IF e < d THEN turn[r][e]
                            ELSE IF e = d
                                 THEN [agent |-> turn[r][d].agent, pc |-> "think"]
                                 ELSE NoFrame]
  BY <1>2 DEF Resumed
<1>5. F \in [Depths -> Frame]
  BY <1>1, <1>2, <1>3, <1>4
<1>6. turn' = [turn EXCEPT ![r] = F]
  OBVIOUS
<1> HIDE DEF F
<1>7. turn' \in [Requests -> [Depths -> Frame]] /\ turn'[r] = F
      /\ \A q \in Requests : q # r => turn'[q] = turn[q]
  BY <1>5, <1>6 DEF TurnTypes
<1> QED
  BY <1>4, <1>7

-----------------------------------------------------------------------------
(* Each of them keeps the frames stacked and counts nobody anew            *)

\* The frame is not waiting for the one above it.
Running(r, d) == turn[r][d].pc \notin {"none", "agent", "handed"}

\* Every guard that is kept was kept, for the same agent, which is active if
\* the frame has just found it.
GuardsKept ==
    \A r \in Requests, d \in Depths : Guarded(r, d)' =>
        /\ Guarded(r, d)
        /\ turn'[r][d].agent = turn[r][d].agent
        /\ turn[r][d].pc = "look" /\ turn'[r][d].pc # "look"
               => turn[r][d].agent \in active

LEMMA GoToStacked ==
    ASSUME TurnTypes, Stacked, NEW r \in Requests, NEW d \in Depths, NEW pc,
           pc \in {"lock", "look", "list", "think", "call", "tool"},
           Running(r, d), GoTo(r, d, pc), UNCHANGED via
    PROVE  Stacked'
<1>1. OnlyAt(r, d, [agent |-> turn[r][d].agent, pc |-> pc])
  BY GoToFacts
<1>2. turn'[r][d].pc = pc
  BY <1>1 DEF OnlyAt
<1>3. ASSUME NEW q \in Requests, NEW e \in Depths,
             turn'[q][e].pc \notin {"agent", "handed"},
             NEW f \in Depths, e < f
      PROVE  turn'[q][f].pc = "none"
  <2>1. CASE q = r /\ e = d
    <3>1. turn[q][f].pc = "none"
      BY <1>3, <2>1 DEF Stacked, Running
    <3>2. f # d
      BY <1>3, <2>1, DepthsNat
    <3> QED
      BY <1>1, <2>1, <3>1, <3>2 DEF OnlyAt
  <2>2. CASE ~ (q = r /\ e = d)
    <3>1. turn[q][f].pc = "none"
      BY <1>1, <1>3, <2>2 DEF OnlyAt, Stacked
    <3>2. ~ (q = r /\ f = d)
      BY <3>1 DEF Running
    <3> QED
      BY <1>1, <3>1, <3>2 DEF OnlyAt
  <2> QED
    BY <2>1, <2>2
<1>4. ASSUME NEW q \in Requests, via'[q] = "none"
      PROVE  ~ InTurn(q)'
  <2>1. ~ InTurn(q)
    BY <1>4 DEF Stacked
  <2>2. q # r
    BY <2>1 DEF InTurn, Running
  <2> QED
    BY <1>1, <2>1, <2>2 DEF OnlyAt, InTurn
<1> QED
  BY <1>3, <1>4 DEF Stacked

LEMMA GoToGuards ==
    ASSUME TurnTypes, NEW r \in Requests, NEW d \in Depths, NEW pc,
           pc \in {"list", "think", "call", "tool"},
           Running(r, d), turn[r][d].pc # "lock",
           turn[r][d].pc = "look" => turn[r][d].agent \in active,
           GoTo(r, d, pc), UNCHANGED via
    PROVE  GuardsKept
<1>1. OnlyAt(r, d, [agent |-> turn[r][d].agent, pc |-> pc])
  BY GoToFacts
<1>2. turn'[r][d].pc = pc /\ turn'[r][d].agent = turn[r][d].agent
  BY <1>1 DEF OnlyAt
<1>3. ASSUME NEW q \in Requests, NEW e \in Depths
      PROVE  Nested(q, e)' <=> Nested(q, e)
  <2>1. \A f \in Depths : turn'[q][f].pc = "agent" <=> turn[q][f].pc = "agent"
    BY <1>1, <1>2 DEF OnlyAt, Running
  <2> QED
    BY <2>1 DEF Nested
<1>4. ASSUME NEW q \in Requests, NEW e \in Depths, Guarded(q, e)'
      PROVE  /\ Guarded(q, e)
             /\ turn'[q][e].agent = turn[q][e].agent
             /\ turn[q][e].pc = "look" /\ turn'[q][e].pc # "look"
                    => turn[q][e].agent \in active
  <2>1. CASE q = r /\ e = d
    BY <1>2, <1>3, <1>4, <2>1 DEF Guarded, Running
  <2>2. CASE ~ (q = r /\ e = d)
    <3>1. turn'[q][e] = turn[q][e]
      BY <1>1, <2>2 DEF OnlyAt
    <3> QED
      BY <1>3, <1>4, <3>1 DEF Guarded
  <2> QED
    BY <2>1, <2>2
<1> QED
  BY <1>4 DEF GuardsKept

LEMMA PushStacked ==
    ASSUME TurnTypes, Stacked, NEW r \in Requests, NEW d \in Depths,
           d < MaxDepth, Running(r, d),
           NEW pc, pc \in {"agent", "handed"}, NEW b \in Agents,
           NEW start, start \in {"lock", "look"}, Push(r, d, pc, b, start),
           UNCHANGED via
    PROVE  Stacked'
<1>a. d + 1 \in Depths /\ Pushed(r, d, pc, b, start)
  BY PushFacts
<1>1. /\ d + 1 \in Depths
      /\ turn'[r][d].pc = pc
      /\ \A q \in Requests, e \in Depths :
             q # r \/ e \notin {d, d + 1} => turn'[q][e] = turn[q][e]
  BY <1>a DEF Pushed
<1>2. \A f \in Depths : d < f => turn[r][f].pc = "none"
  BY DEF Stacked, Running
<1>3. ASSUME NEW q \in Requests, NEW e \in Depths,
             turn'[q][e].pc \notin {"agent", "handed"},
             NEW f \in Depths, e < f
      PROVE  turn'[q][f].pc = "none"
  <2>1. CASE q # r
    BY <1>1, <1>3, <2>1 DEF Stacked
  <2>2. CASE q = r /\ e < d
    <3>1. turn'[r][e] = turn[r][e]
      BY <1>1, <2>2, DepthsNat
    <3>2. turn[r][d].pc = "none"
      BY <1>3, <2>2, <3>1 DEF Stacked
    <3> QED
      BY <3>2 DEF Running
  <2>3. CASE q = r /\ e = d
    BY <1>1, <1>3, <2>3
  <2>4. CASE q = r /\ d < e
    <3>1. f \notin {d, d + 1} /\ d < f
      BY <1>3, <2>4, DepthsNat
    <3> QED
      BY <1>1, <1>2, <2>4, <3>1
  <2> QED
    BY <2>1, <2>2, <2>3, <2>4, DepthsNat
<1>4. ASSUME NEW q \in Requests, via'[q] = "none"
      PROVE  ~ InTurn(q)'
  <2>1. ~ InTurn(q)
    BY <1>4 DEF Stacked
  <2>2. q # r
    BY <2>1 DEF InTurn, Running
  <2> QED
    BY <1>1, <2>1, <2>2 DEF InTurn
<1> QED
  BY <1>3, <1>4 DEF Stacked

LEMMA PushGuards ==
    ASSUME TurnTypes, Stacked, NEW r \in Requests, NEW d \in Depths,
           d < MaxDepth, turn[r][d].pc = "call",
           NEW pc, pc \in {"agent", "handed"}, NEW b \in Agents,
           NEW start, start \in {"lock", "look"}, Push(r, d, pc, b, start),
           start = "look" => pc = "handed" /\ ~ Locks(r, d),
           UNCHANGED via
    PROVE  GuardsKept
<1>a. d + 1 \in Depths /\ Pushed(r, d, pc, b, start)
  BY PushFacts
<1>1. /\ d + 1 \in Depths
      /\ turn'[r][d] = [agent |-> turn[r][d].agent, pc |-> pc]
      /\ turn'[r][d + 1] = [agent |-> b, pc |-> start]
      /\ \A q \in Requests, e \in Depths :
             q # r \/ e \notin {d, d + 1} => turn'[q][e] = turn[q][e]
  BY <1>a DEF Pushed
<1>2. \A f \in Depths : d < f => turn[r][f].pc = "none"
  BY DEF Stacked
<1>3. ASSUME NEW e \in Depths, e <= d
      PROVE  Nested(r, e)' <=> Nested(r, e)
  <2>1. \A f \in Depths : f < e => f \notin {d, d + 1}
    BY <1>3, DepthsNat
  <2>2. \A f \in Depths : f < e => turn'[r][f] = turn[r][f]
    BY <1>1, <2>1
  <2> QED
    BY <2>2 DEF Nested
<1>4. ASSUME NEW q \in Requests, NEW e \in Depths, Guarded(q, e)'
      PROVE  /\ Guarded(q, e)
             /\ turn'[q][e].agent = turn[q][e].agent
             /\ turn[q][e].pc = "look" /\ turn'[q][e].pc # "look"
                    => turn[q][e].agent \in active
  <2>1. CASE q # r
    <3>1. \A f \in Depths : turn'[q][f] = turn[q][f]
      BY <1>1, <2>1
    <3> QED
      BY <1>4, <3>1 DEF Guarded, Nested
  <2>2. CASE q = r /\ e < d
    <3>1. turn'[r][e] = turn[r][e]
      BY <1>1, <2>2, DepthsNat
    <3>2. Nested(r, e)' <=> Nested(r, e)
      BY <1>3, <2>2, DepthsNat
    <3> QED
      BY <1>4, <2>2, <3>1, <3>2 DEF Guarded
  <2>3. CASE q = r /\ e = d
    <3>1. Nested(r, d)' <=> Nested(r, d)
      BY <1>3, DepthsNat
    <3> QED
      BY <1>1, <1>4, <2>3, <3>1 DEF Guarded
  <2>4. CASE q = r /\ e = d + 1
    <3>1. start = "look"
      BY <1>1, <1>4, <2>4 DEF Guarded
    <3>2. ~ Nested(r, d) /\ via[r] = "ws" /\ turn'[r][d].pc = "handed"
      BY <1>1, <3>1 DEF Locks
    <3>3. ~ Nested(r, d)'
      BY <1>3, <3>2, DepthsNat
    <3>4. \A f \in Depths : f < e => f < d \/ f = d
      BY <2>4, DepthsNat
    <3>5. ~ Nested(r, e)'
      BY <3>2, <3>3, <3>4 DEF Nested
    <3> QED
      BY <1>4, <2>4, <3>2, <3>5 DEF Guarded
  <2>5. CASE q = r /\ d + 1 < e
    <3>1. turn'[r][e] = turn[r][e] /\ d < e
      BY <1>1, <2>5, DepthsNat
    <3>2. turn'[r][e].pc = "none"
      BY <1>2, <3>1
    <3> QED
      BY <1>4, <2>5, <3>2 DEF Guarded
  <2> QED
    BY <2>1, <2>2, <2>3, <2>4, <2>5, DepthsNat
<1> QED
  BY <1>4 DEF GuardsKept

LEMMA ReturnStacked ==
    ASSUME TurnTypes, Stacked, NEW r \in Requests, InTurn(r), Return(r),
           UNCHANGED via
    PROVE  Stacked'
<1> DEFINE Below(e) == \E d \in Depths : e < d /\ At(r, d, "agent")
<1>1. /\ \A q \in Requests : q # r => turn'[q] = turn[q]
      /\ \A e \in Depths :
             turn'[r][e] = IF Below(e) THEN turn[r][e]
                           ELSE IF At(r, e, "agent")
                                THEN [agent |-> turn[r][e].agent, pc |-> "think"]
                                ELSE NoFrame
  BY ReturnFacts
<1>2. ASSUME NEW e \in Depths, turn'[r][e].pc \notin {"agent", "handed"},
             NEW f \in Depths, e < f
      PROVE  turn'[r][f].pc = "none"
  <2>1. ~ Below(e)
    <3> SUFFICES ASSUME Below(e) PROVE FALSE
      OBVIOUS
    <3>1. turn'[r][e] = turn[r][e]
      BY <1>1
    <3>2. \A d \in Depths : e < d => turn[r][d].pc = "none"
      BY <1>2, <3>1 DEF Stacked
    <3> QED
      BY <3>2 DEF At
  <2>2. ~ Below(f) /\ ~ At(r, f, "agent")
    BY <1>2, <2>1, DepthsNat
  <2> HIDE DEF Below
  <2>3. turn'[r][f] = NoFrame
    BY <1>1, <2>2
  <2> QED
    BY <2>3 DEF NoFrame
<1>3. ASSUME NEW q \in Requests, q # r, NEW e \in Depths,
             turn'[q][e].pc \notin {"agent", "handed"},
             NEW f \in Depths, e < f
      PROVE  turn'[q][f].pc = "none"
  BY <1>1, <1>3 DEF Stacked
<1>4. ASSUME NEW q \in Requests, via'[q] = "none"
      PROVE  ~ InTurn(q)'
  <2>1. ~ InTurn(q)
    BY <1>4 DEF Stacked
  <2>2. turn'[q] = turn[q]
    BY <1>1, <2>1
  <2> QED
    BY <2>1, <2>2 DEF InTurn
<1> QED
  BY <1>2, <1>3, <1>4 DEF Stacked

LEMMA ReturnGuards ==
    ASSUME TurnTypes, NEW r \in Requests, Return(r), UNCHANGED via
    PROVE  GuardsKept
<1> DEFINE Below(e) == \E d \in Depths : e < d /\ At(r, d, "agent")
<1>1. /\ \A q \in Requests : q # r => turn'[q] = turn[q]
      /\ \A e \in Depths :
             turn'[r][e] = IF Below(e) THEN turn[r][e]
                           ELSE IF At(r, e, "agent")
                                THEN [agent |-> turn[r][e].agent, pc |-> "think"]
                                ELSE NoFrame
  BY ReturnFacts
<1>2. ASSUME NEW e \in Depths, Below(e) \/ At(r, e, "agent")
      PROVE  Nested(r, e)' <=> Nested(r, e)
  <2>1. \A f \in Depths : f < e => Below(f)
    BY <1>2, DepthsNat
  <2> HIDE DEF Below
  <2>2. \A f \in Depths : f < e => turn'[r][f] = turn[r][f]
    BY <1>1, <2>1
  <2> QED
    BY <2>2 DEF Nested
<1> HIDE DEF Below
<1>3. ASSUME NEW q \in Requests, NEW e \in Depths, Guarded(q, e)'
      PROVE  /\ Guarded(q, e)
             /\ turn'[q][e].agent = turn[q][e].agent
             /\ turn[q][e].pc = "look" /\ turn'[q][e].pc # "look"
                    => turn[q][e].agent \in active
  <2>1. CASE q # r
    BY <1>1, <1>3, <2>1 DEF Guarded, Nested
  <2>2. CASE q = r /\ Below(e)
    <3>1. turn'[r][e] = turn[r][e]
      BY <1>1, <2>2
    <3> QED
      BY <1>2, <1>3, <2>2, <3>1 DEF Guarded
  <2>3. CASE q = r /\ ~ Below(e) /\ At(r, e, "agent")
    <3>1. turn'[r][e] = [agent |-> turn[r][e].agent, pc |-> "think"]
      BY <1>1, <2>3
    <3>2. turn'[r][e].pc = "think" /\ turn'[r][e].agent = turn[r][e].agent
      BY <3>1
    <3>3. Nested(r, e)' <=> Nested(r, e)
      BY <1>2, <2>3
    <3> QED
      BY <1>3, <2>3, <3>2, <3>3 DEF Guarded, At
  <2>4. CASE q = r /\ ~ Below(e) /\ ~ At(r, e, "agent")
    <3>1. turn'[r][e] = NoFrame
      BY <1>1, <2>4
    <3> QED
      BY <1>3, <2>4, <3>1 DEF Guarded, NoFrame
  <2> QED
    BY <2>1, <2>2, <2>3, <2>4
<1> QED
  BY <1>3 DEF GuardsKept

LEMMA ResumedStacked ==
    ASSUME TurnTypes, Stacked, NEW r \in Requests, NEW d \in Depths,
           turn[r][d].pc # "none",
           turn' = [turn EXCEPT ![r] = Resumed(r, d)], UNCHANGED via
    PROVE  Stacked'
<1>1. /\ \A q \in Requests : q # r => turn'[q] = turn[q]
      /\ \A e \in Depths :
             turn'[r][e] = IF e < d THEN turn[r][e]
                           ELSE IF e = d
                                THEN [agent |-> turn[r][d].agent, pc |-> "think"]
                                ELSE NoFrame
  BY ResumedFacts
<1>2. ASSUME NEW e \in Depths, turn'[r][e].pc \notin {"agent", "handed"},
             NEW f \in Depths, e < f
      PROVE  turn'[r][f].pc = "none"
  <2>1. ~ (e < d)
    <3> SUFFICES ASSUME e < d PROVE FALSE
      OBVIOUS
    <3>1. turn'[r][e] = turn[r][e]
      BY <1>1
    <3> QED
      BY <1>2, <3>1 DEF Stacked
  <2>2. ~ (f < d) /\ f # d
    BY <1>2, <2>1, DepthsNat
  <2>3. turn'[r][f] = NoFrame
    BY <1>1, <2>2
  <2> QED
    BY <2>3 DEF NoFrame
<1>3. ASSUME NEW q \in Requests, q # r, NEW e \in Depths,
             turn'[q][e].pc \notin {"agent", "handed"},
             NEW f \in Depths, e < f
      PROVE  turn'[q][f].pc = "none"
  BY <1>1, <1>3 DEF Stacked
<1>4. ASSUME NEW q \in Requests, via'[q] = "none"
      PROVE  ~ InTurn(q)'
  <2>1. ~ InTurn(q)
    BY <1>4 DEF Stacked
  <2>2. turn'[q] = turn[q]
    BY <1>1, <2>1 DEF InTurn
  <2> QED
    BY <2>1, <2>2 DEF InTurn
<1> QED
  BY <1>2, <1>3, <1>4 DEF Stacked

LEMMA ResumedGuards ==
    ASSUME TurnTypes, NEW r \in Requests, NEW d \in Depths,
           turn[r][d].pc \in {"call", "tool", "agent"},
           turn' = [turn EXCEPT ![r] = Resumed(r, d)], UNCHANGED via
    PROVE  GuardsKept
<1>1. /\ \A q \in Requests : q # r => turn'[q] = turn[q]
      /\ \A e \in Depths :
             turn'[r][e] = IF e < d THEN turn[r][e]
                           ELSE IF e = d
                                THEN [agent |-> turn[r][d].agent, pc |-> "think"]
                                ELSE NoFrame
  BY ResumedFacts
<1>2. ASSUME NEW e \in Depths, e <= d
      PROVE  Nested(r, e)' <=> Nested(r, e)
  <2>1. \A f \in Depths : f < e => f < d
    BY <1>2, DepthsNat
  <2>2. \A f \in Depths : f < e => turn'[r][f] = turn[r][f]
    BY <1>1, <2>1
  <2> QED
    BY <2>2 DEF Nested
<1>3. ASSUME NEW q \in Requests, NEW e \in Depths, Guarded(q, e)'
      PROVE  /\ Guarded(q, e)
             /\ turn'[q][e].agent = turn[q][e].agent
             /\ turn[q][e].pc = "look" /\ turn'[q][e].pc # "look"
                    => turn[q][e].agent \in active
  <2>1. CASE q # r
    BY <1>1, <1>3, <2>1 DEF Guarded, Nested
  <2>2. CASE q = r /\ e < d
    <3>1. turn'[r][e] = turn[r][e]
      BY <1>1, <2>2
    <3>2. Nested(r, e)' <=> Nested(r, e)
      BY <1>2, <2>2, DepthsNat
    <3> QED
      BY <1>3, <2>2, <3>1, <3>2 DEF Guarded
  <2>3. CASE q = r /\ e = d
    <3>1. turn'[r][e] = [agent |-> turn[r][d].agent, pc |-> "think"]
      BY <1>1, <2>3, DepthsNat
    <3>2. turn'[r][e].pc = "think" /\ turn'[r][e].agent = turn[r][d].agent
      BY <3>1
    <3>3. Nested(r, e)' <=> Nested(r, e)
      BY <1>2, <2>3, DepthsNat
    <3> QED
      BY <1>3, <2>3, <3>2, <3>3 DEF Guarded
  <2>4. CASE q = r /\ ~ (e < d) /\ e # d
    <3>1. turn'[r][e] = NoFrame
      BY <1>1, <2>4
    <3> QED
      BY <1>3, <2>4, <3>1 DEF Guarded, NoFrame
  <2> QED
    BY <2>1, <2>2, <2>3, <2>4
<1> QED
  BY <1>3 DEF GuardsKept

-----------------------------------------------------------------------------
(* Steps of the turns                                                      *)

\* What the steps of the turns keep, and what they leave alone.
TurnInv == TurnTypes /\ Stacked /\ DeletesAlone /\ CountedAgentsStay

AdminInv == /\ AdminTypes /\ Staged /\ Exclusive
            /\ CrossedKnown /\ HandsConsistent /\ Listed

LEMMA InvParts == IInv <=> TurnInv /\ AdminInv
BY TypeParts DEF IInv, TurnInv, AdminInv

LEMMA AdminUnchanged ==
    ASSUME AdminInv, UNCHANGED <<agentVars, tools, op, crossed, behind>>
    PROVE  AdminInv'
<1>1. /\ config' = config /\ filed' = filed /\ active' = active
      /\ pending' = pending /\ tools' = tools /\ op' = op
      /\ crossed' = crossed /\ behind' = behind
  BY DEF agentVars
<1>2. AdminTypes'
  BY <1>1 DEF AdminInv, AdminTypes
<1>3. \A m \in Admins : Mutates(m)' <=> Mutates(m)
  BY <1>1 DEF Mutates
<1>4. \A m \in Admins : Reloading(m)' <=> Reloading(m)
  BY <1>1 DEF Reloading
<1>5. \A m \in Admins : InHand(m)' = InHand(m)
  BY <1>1, <1>3, <1>4 DEF InHand
<1>6. \A a \in Agents : Consistent(a)' <=> Consistent(a)
  BY <1>1 DEF Consistent
<1>7. \A m \in Admins, a \in Agents : Handled(m, a)' <=> Handled(m, a)
  BY <1>1, <1>6 DEF Handled
<1>8. Staged'
  BY <1>1, <1>4 DEF AdminInv, Staged, StagedOf
<1>9. Exclusive'
  BY <1>3 DEF AdminInv, Exclusive
<1>10. CrossedKnown'
  BY <1>1, <1>3, <1>4, <1>5 DEF AdminInv, CrossedKnown
<1>11. HandsConsistent'
  BY <1>1, <1>5, <1>6, <1>7 DEF AdminInv, HandsConsistent
<1>12. Exposures' = Exposures
  BY <1>1 DEF Exposures
<1>13. Listed'
  BY <1>1, <1>12 DEF AdminInv, Listed
<1> QED
  BY <1>2, <1>8, <1>9, <1>10, <1>11, <1>13 DEF AdminInv

\* Who keeps all guards kept, and every agent, keeps what is said of them.
LEMMA GuardsSuffice ==
    ASSUME DeletesAlone, CountedAgentsStay, GuardsKept, UNCHANGED <<op, active>>
    PROVE  DeletesAlone' /\ CountedAgentsStay'
<1>1. ASSUME NEW a, InFlight(a)'
      PROVE  InFlight(a)
  BY <1>1 DEF InFlight, GuardsKept
<1>2. DeletesAlone'
  BY <1>1 DEF DeletesAlone
<1>3. ASSUME NEW r \in Requests, NEW d \in Depths, Guarded(r, d)',
             turn'[r][d].pc # "look"
      PROVE  turn'[r][d].agent \in active
  BY <1>3 DEF GuardsKept, CountedAgentsStay
<1> QED
  BY <1>2, <1>3 DEF CountedAgentsStay

LEMMA CallsTyped ==
    ASSUME TurnTypes, NEW r \in Requests
    PROVE  /\ UNCHANGED calls => calls' \in [Requests -> 0..MaxCalls]
           /\ calls[r] < MaxCalls /\ calls' = [calls EXCEPT ![r] = @ + 1]
                  => calls' \in [Requests -> 0..MaxCalls]
<1>1. calls[r] \in 0..MaxCalls
  BY DEF TurnTypes
<1>2. calls[r] < MaxCalls => calls[r] + 1 \in 0..MaxCalls
  BY <1>1, GatewayAgentsAssumption
<1> QED
  BY <1>2 DEF TurnTypes

\* A frame goes on by itself.
LEMMA GoesOn ==
    ASSUME TurnInv, NEW r \in Requests, NEW d \in Depths,
           \/ LookUp(r, d) /\ turn[r][d].agent \in active
           \/ List(r, d) \/ Call(r, d) \/ RunTool(r, d) \/ ToolEnds(r, d)
    PROVE  TurnInv'
<1> USE DEF TurnInv
<1>1. PICK pc \in {"list", "think", "call", "tool"} :
          /\ GoTo(r, d, pc)
          /\ Running(r, d) /\ turn[r][d].pc # "lock"
          /\ turn[r][d].pc = "look" => turn[r][d].agent \in active
  BY DEF LookUp, List, Call, RunTool, ToolEnds, At, Running
<1>2. UNCHANGED <<via, op, active>>
  BY DEF LookUp, List, Call, RunTool, ToolEnds, OnlyTurns, agentVars
<1>3. calls' \in [Requests -> 0..MaxCalls]
  BY CallsTyped DEF LookUp, List, Call, RunTool, ToolEnds
<1>4. turn' \in [Requests -> [Depths -> Frame]]
  BY <1>1, GoToFacts
<1>5. TurnTypes'
  BY <1>2, <1>3, <1>4 DEF TurnTypes
<1>6. Stacked'
  BY <1>1, <1>2, GoToStacked
<1>7. GuardsKept
  BY <1>1, <1>2, GoToGuards
<1> QED
  BY <1>2, <1>5, <1>6, <1>7, GuardsSuffice

\* A turn returns: its agent is not there, or it has its answer.
LEMMA Returns ==
    ASSUME TurnInv, NEW r \in Requests, NEW d \in Depths,
           \/ LookUp(r, d) /\ turn[r][d].agent \notin active
           \/ Answer(r, d)
    PROVE  TurnInv'
<1> USE DEF TurnInv
<1>1. Return(r) /\ UNCHANGED <<via, op, active, calls>>
  BY DEF LookUp, Answer, OnlyTurns, agentVars
<1>2. InTurn(r)
  BY DEF LookUp, Answer, At, InTurn
<1>3. turn' \in [Requests -> [Depths -> Frame]]
  BY <1>1, ReturnFacts
<1>4. TurnTypes'
  BY <1>1, <1>3 DEF TurnTypes
<1>5. Stacked'
  BY <1>1, <1>2, ReturnStacked
<1>6. GuardsKept
  BY <1>1, ReturnGuards
<1> QED
  BY <1>1, <1>4, <1>5, <1>6, GuardsSuffice

\* A tool starts a turn of another agent, or hands off to it.
LEMMA PassesOn ==
    ASSUME TurnInv, NEW r \in Requests, NEW d \in Depths, NEW b \in Agents,
           Delegate(r, d, b) \/ HandOff(r, d, b)
    PROVE  TurnInv'
<1> USE DEF TurnInv
<1>1. PICK pc \in {"agent", "handed"}, start \in {"lock", "look"} :
          /\ Push(r, d, pc, b, start)
          /\ start = "look" => pc = "handed" /\ ~ Locks(r, d)
  BY DEF Delegate, HandOff
<1>2. /\ d < MaxDepth /\ turn[r][d].pc = "call"
      /\ UNCHANGED <<via, op, active, calls>>
  BY DEF Delegate, HandOff, At, OnlyTurns, agentVars
<1>3. Running(r, d)
  BY <1>2 DEF Running
<1>4. turn' \in [Requests -> [Depths -> Frame]]
  BY <1>1, <1>2, PushFacts
<1>5. TurnTypes'
  BY <1>2, <1>4 DEF TurnTypes
<1>6. Stacked'
  BY <1>1, <1>2, <1>3, PushStacked
<1>7. GuardsKept
  BY <1>1, <1>2, PushGuards
<1> QED
  BY <1>2, <1>5, <1>6, <1>7, GuardsSuffice

LEMMA TimesOut ==
    ASSUME TurnInv, NEW r \in Requests, NEW d \in Depths, Timeout(r, d)
    PROVE  TurnInv'
<1> USE DEF TurnInv
<1>1. /\ turn[r][d].pc \in {"call", "tool", "agent"}
      /\ turn' = [turn EXCEPT ![r] = Resumed(r, d)]
      /\ UNCHANGED <<via, op, active, calls>>
  BY DEF Timeout, OnlyTurns, agentVars
<1>2. turn' \in [Requests -> [Depths -> Frame]]
  BY <1>1, ResumedFacts
<1>3. TurnTypes'
  BY <1>1, <1>2 DEF TurnTypes
<1>4. Stacked'
  BY <1>1, ResumedStacked
<1>5. GuardsKept
  BY <1>1, ResumedGuards
<1> QED
  BY <1>1, <1>3, <1>4, <1>5, GuardsSuffice

LEMMA Aborts ==
    ASSUME TurnInv, NEW r \in Requests, Abort(r)
    PROVE  TurnInv'
<1> USE DEF TurnInv
<1>1. /\ turn' = [turn EXCEPT ![r] = Cleared]
      /\ UNCHANGED <<via, op, active, calls>>
  BY DEF Abort, OnlyTurns, agentVars
<1>2. Cleared \in [Depths -> Frame]
  BY DEF Cleared, NoFrame, Frame
<1>3. /\ turn' \in [Requests -> [Depths -> Frame]]
      /\ turn'[r] = Cleared
      /\ \A q \in Requests : q # r => turn'[q] = turn[q]
  BY <1>1, <1>2 DEF TurnTypes
<1>4. \A e \in Depths : turn'[r][e].pc = "none"
  BY <1>3 DEF Cleared, NoFrame
<1>5. TurnTypes'
  BY <1>1, <1>3 DEF TurnTypes
<1>6. Stacked'
  <2>1. ASSUME NEW q \in Requests, NEW e \in Depths,
               turn'[q][e].pc \notin {"agent", "handed"},
               NEW f \in Depths, e < f
        PROVE  turn'[q][f].pc = "none"
    BY <1>3, <1>4, <2>1 DEF Stacked
  <2>2. ASSUME NEW q \in Requests, via'[q] = "none"
        PROVE  ~ InTurn(q)'
    BY <1>1, <1>3, <1>4, <2>2 DEF Stacked, InTurn
  <2> QED
    BY <2>1, <2>2 DEF Stacked
<1>7. ASSUME NEW q \in Requests, NEW e \in Depths, Guarded(q, e)'
      PROVE  q # r /\ Guarded(q, e) /\ turn'[q][e] = turn[q][e]
  <2>1. q # r
    BY <1>4, <1>7 DEF Guarded
  <2> QED
    BY <1>1, <1>3, <1>7, <2>1 DEF Guarded, Nested
<1>8. GuardsKept
  BY <1>7 DEF GuardsKept
<1> QED
  BY <1>1, <1>5, <1>6, <1>8, GuardsSuffice

\* The frame counts itself, while nobody else holds the mutation lock.
LEMMA Enters ==
    ASSUME TurnInv, AdminInv, NEW r \in Requests, NEW d \in Depths, Enter(r, d)
    PROVE  TurnInv'
<1> USE DEF TurnInv
<1>1. /\ turn[r][d].pc = "lock" /\ GoTo(r, d, "look")
      /\ UNCHANGED <<via, op, active, calls>>
  BY DEF Enter, At, OnlyTurns, agentVars
<1>2. Running(r, d)
  BY <1>1 DEF Running
<1>3. /\ turn' \in [Requests -> [Depths -> Frame]]
      /\ OnlyAt(r, d, [agent |-> turn[r][d].agent, pc |-> "look"])
  BY <1>1, GoToFacts
<1>4. TurnTypes'
  BY <1>1, <1>3 DEF TurnTypes
<1>5. Stacked'
  BY <1>1, <1>2, GoToStacked
<1>6. DeletesAlone'
  <2>1. \A m \in Admins : op[m].pc \notin {"remove", "forget"}
    BY DEF Enter, MutexFree, Mutates, AdminInv, Staged, StagedOf, Mutators
  <2> QED
    BY <1>1, <2>1 DEF DeletesAlone
<1>7. ASSUME NEW q \in Requests, NEW e \in Depths, Guarded(q, e)',
             turn'[q][e].pc # "look"
      PROVE  turn'[q][e].agent \in active
  <2>1. turn'[r][d].pc = "look"
    BY <1>3 DEF OnlyAt
  <2>2. turn'[q][e] = turn[q][e]
    BY <1>3, <1>7, <2>1 DEF OnlyAt
  <2>3. \A f \in Depths : turn'[q][f].pc = "agent" <=> turn[q][f].pc = "agent"
    BY <1>1, <1>3, <2>1 DEF OnlyAt
  <2>4. Nested(q, e)' <=> Nested(q, e)
    BY <2>3 DEF Nested
  <2>5. Guarded(q, e)
    BY <1>1, <1>7, <2>2, <2>4 DEF Guarded
  <2> QED
    BY <1>7, <2>2, <2>5 DEF CountedAgentsStay
<1> QED
  BY <1>1, <1>4, <1>5, <1>6, <1>7 DEF CountedAgentsStay

\* A message arrives.
LEMMA Arrives ==
    ASSUME TurnInv, NEW r \in Requests, NEW v \in Vias, NEW a \in Agents,
           Arrive(r, v, a)
    PROVE  TurnInv'
<1> USE DEF TurnInv
<1> DEFINE f == [agent |-> a, pc |-> IF v = "ws" THEN "look" ELSE "lock"]
<1>1. /\ via[r] = "none" /\ via' = [via EXCEPT ![r] = v]
      /\ turn' = [turn EXCEPT ![r][0] = f]
      /\ UNCHANGED <<op, active, calls>>
  BY DEF Arrive, agentVars
<1>2. f \in Frame /\ f.pc \in {"look", "lock"} /\ (f.pc = "look" => v = "ws")
  BY DEF Frame
<1>3. 0 \in Depths /\ \A e \in Depths : ~ (e < 0)
  BY GatewayAgentsAssumption DEF Depths
<1>4. \A e \in Depths : turn[r][e].pc = "none"
  BY <1>1 DEF Stacked, InTurn
<1> HIDE DEF f
<1>5. /\ turn' \in [Requests -> [Depths -> Frame]]
      /\ turn'[r][0] = f
      /\ \A e \in Depths : e # 0 => turn'[r][e] = turn[r][e]
      /\ \A q \in Requests : q # r => turn'[q] = turn[q]
  <2>1. turn' = [turn EXCEPT ![r] = [turn[r] EXCEPT ![0] = f]]
    BY <1>1 DEF TurnTypes
  <2>2. turn[r] \in [Depths -> Frame]
    BY DEF TurnTypes
  <2>3. [turn[r] EXCEPT ![0] = f] \in [Depths -> Frame]
    BY <1>2, <1>3, <2>2
  <2>4. turn'[r] = [turn[r] EXCEPT ![0] = f]
    BY <2>1 DEF TurnTypes
  <2> QED
    BY <1>3, <2>1, <2>2, <2>3, <2>4 DEF TurnTypes
<1>6. TurnTypes'
  BY <1>1, <1>5 DEF TurnTypes
<1>7. \A q \in Requests : q # r => via'[q] = via[q]
  BY <1>1 DEF TurnTypes
<1>8. via'[r] = v /\ v # "none"
  BY <1>1 DEF TurnTypes, Vias
<1>9. Stacked'
  <2>1. ASSUME NEW q \in Requests, NEW e \in Depths,
               turn'[q][e].pc \notin {"agent", "handed"},
               NEW g \in Depths, e < g
        PROVE  turn'[q][g].pc = "none"
    <3>1. g # 0
      BY <1>3, <2>1
    <3> QED
      BY <1>4, <1>5, <2>1, <3>1 DEF Stacked
  <2>2. ASSUME NEW q \in Requests, via'[q] = "none"
        PROVE  ~ InTurn(q)'
    <3>1. q # r
      BY <1>8, <2>2
    <3> QED
      BY <1>5, <1>7, <2>2, <3>1 DEF Stacked, InTurn
  <2> QED
    BY <2>1, <2>2 DEF Stacked
<1>10. ASSUME NEW q \in Requests, NEW e \in Depths, Guarded(q, e)'
       PROVE  Guarded(q, e) /\ turn'[q][e] = turn[q][e]
  <2>1. CASE q # r
    BY <1>5, <1>7, <1>10, <2>1 DEF Guarded, Nested
  <2>2. CASE q = r
    <3>1. e = 0
      BY <1>4, <1>5, <1>10, <2>2 DEF Guarded
    <3>2. ~ Nested(r, e)'
      BY <1>3, <3>1 DEF Nested
    <3> QED
      BY <1>2, <1>5, <1>8, <1>10, <2>2, <3>1, <3>2 DEF Guarded
  <2> QED
    BY <2>1, <2>2
<1>11. GuardsKept
  BY <1>10 DEF GuardsKept
<1> QED
  BY <1>1, <1>6, <1>9, <1>11, GuardsSuffice

-----------------------------------------------------------------------------
(* Steps of the administration: what follows from how op[m] changes        *)

OthersSame(m) == \A n \in Admins : n # m => op'[n] = op[n]

LEMMA OthersHands ==
    ASSUME NEW m \in Admins, OthersSame(m), NEW n \in Admins, n # m
    PROVE  /\ Mutates(n)' <=> Mutates(n)
           /\ Reloading(n)' <=> Reloading(n)
           /\ InHand(n)' = InHand(n)
<1>1. op'[n] = op[n]
  BY DEF OthersSame
<1>2. Mutates(n)' <=> Mutates(n)
  BY <1>1 DEF Mutates
<1>3. Reloading(n)' <=> Reloading(n)
  BY <1>1 DEF Reloading
<1> QED
  BY <1>1, <1>2, <1>3 DEF InHand

LEMMA StagedStep ==
    ASSUME Staged, NEW m \in Admins, OthersSame(m), StagedOf(m)'
    PROVE  Staged'
<1>1. ASSUME NEW n \in Admins, n # m
      PROVE  StagedOf(n)'
  <2>1. op'[n] = op[n] /\ StagedOf(n)
    BY <1>1 DEF OthersSame, Staged
  <2>2. Reloading(n)' <=> Reloading(n)
    BY <1>1, OthersHands
  <2> QED
    BY <2>1, <2>2 DEF StagedOf
<1> QED
  BY <1>1 DEF Staged

LEMMA ExclusiveStep ==
    ASSUME Exclusive, NEW m \in Admins, OthersSame(m), Mutates(m)' => Mutates(m)
    PROVE  Exclusive'
<1>1. \A n \in Admins : Mutates(n)' => Mutates(n)
  BY OthersHands
<1> QED
  BY <1>1 DEF Exclusive

\* The operation takes nothing new in hand, and what becomes pending may.
LEMMA CrossedStep ==
    ASSUME CrossedKnown, NEW m \in Admins, OthersSame(m), crossed \subseteq crossed',
           Reloading(m)' => Reloading(m) /\ InHand(m)' \subseteq InHand(m),
           Mutates(m)' => Mutates(m) /\ op'[m].agent = op[m].agent,
           \A n \in Admins : Reloading(n) /\ Reloading(n)'
                               => pending' \subseteq pending \cup crossed
    PROVE  CrossedKnown'
<1>1. ASSUME NEW n \in Admins
      PROVE  /\ Reloading(n)' => Reloading(n) /\ InHand(n)' \subseteq InHand(n)
             /\ Mutates(n)' => Mutates(n) /\ op'[n].agent = op[n].agent
  <2>1. CASE n = m
    BY <2>1
  <2>2. CASE n # m
    BY <2>2, OthersHands DEF OthersSame
  <2> QED
    BY <2>1, <2>2
<1>2. ASSUME NEW k \in Admins, NEW n \in Admins, Reloading(k)', Mutates(n)'
      PROVE  op'[n].agent \in crossed'
  BY <1>1, <1>2 DEF CrossedKnown
<1>3. ASSUME NEW k \in Admins, NEW n \in Admins, Reloading(k)', Reloading(n)', k # n
      PROVE  InHand(k)' \subseteq crossed'
  <2>1. Reloading(k) /\ Reloading(n) /\ InHand(k)' \subseteq InHand(k)
    BY <1>1, <1>3
  <2>2. InHand(k) \subseteq crossed
    BY <1>3, <2>1 DEF CrossedKnown
  <2> QED
    BY <2>1, <2>2
<1>4. ASSUME NEW k \in Admins, Reloading(k)'
      PROVE  pending' \subseteq crossed'
  <2>1. Reloading(k)
    BY <1>1, <1>4
  <2> QED
    BY <1>4, <2>1 DEF CrossedKnown
<1> QED
  BY <1>2, <1>3, <1>4 DEF CrossedKnown

\* An agent that is not crossed is in one hand at most.
LEMMA OneHand ==
    ASSUME AdminTypes, Exclusive, CrossedKnown,
           NEW m \in Admins, NEW n \in Admins, NEW a \in Agents \ crossed,
           a \in InHand(m), a \in InHand(n)
    PROVE  m = n
<1> SUFFICES ASSUME m # n PROVE FALSE
  OBVIOUS
<1>1. Reloading(m) \/ (Mutates(m) /\ op[m].agent = a)
  BY DEF InHand
<1>2. Reloading(n) \/ (Mutates(n) /\ op[n].agent = a)
  BY DEF InHand
<1>3. CASE Reloading(m) /\ Reloading(n)
  BY <1>3 DEF CrossedKnown
<1>4. CASE ~ (Reloading(m) /\ Reloading(n))
  BY <1>1, <1>2, <1>4 DEF CrossedKnown, Exclusive
<1> QED
  BY <1>3, <1>4

\* The tables say the same of agent a as before.
TablesSame(a) ==
    /\ a \in config' <=> a \in config
    /\ a \in active' <=> a \in active
    /\ a \in pending' <=> a \in pending

LEMMA HandsStep ==
    ASSUME AdminInv, AdminTypes', Exclusive', CrossedKnown', crossed \subseteq crossed',
           NEW m \in Admins, OthersSame(m),
           \A a \in Agents \ crossed' :
               /\ a \notin InHand(m) /\ a \notin InHand(m)' => TablesSame(a)
               /\ a \in InHand(m)' => Handled(m, a)'
               /\ a \in InHand(m) /\ a \notin InHand(m)' => Consistent(a)'
    PROVE  HandsConsistent'
<1>1. ASSUME NEW a \in Agents \ crossed', NEW n \in Admins, a \in InHand(n)'
      PROVE  Handled(n, a)'
  <2>1. CASE n = m
    BY <1>1, <2>1
  <2>2. CASE n # m
    <3>1. op'[n] = op[n] /\ a \in InHand(n)
      BY <1>1, <2>2, OthersHands DEF OthersSame
    <3>2. a \notin InHand(m)'
      <4> SUFFICES ASSUME a \in InHand(m)' PROVE FALSE
        OBVIOUS
      <4>1. Reloading(m)' \/ (Mutates(m)' /\ op'[m].agent = a)
        BY DEF InHand
      <4>2. Reloading(n)' \/ (Mutates(n)' /\ op'[n].agent = a)
        BY <1>1 DEF InHand
      <4>3. CASE Reloading(m)' /\ Reloading(n)'
        BY <1>1, <2>2, <4>3 DEF CrossedKnown
      <4>4. CASE ~ (Reloading(m)' /\ Reloading(n)')
        BY <1>1, <2>2, <4>1, <4>2, <4>4 DEF CrossedKnown, Exclusive
      <4> QED
        BY <4>3, <4>4
    <3>3. a \notin InHand(m)
      <4>1. a \in Agents \ crossed
        BY <1>1
      <4>2. ASSUME a \in InHand(m) PROVE n = m
        BY <3>1, <4>1, <4>2, OneHand DEF AdminInv
      <4> QED
        BY <2>2, <4>2
    <3>4. TablesSame(a)
      BY <3>2, <3>3
    <3>5. Consistent(a)' <=> Consistent(a)
      BY <3>4 DEF TablesSame, Consistent
    <3>6. Handled(n, a)
      BY <1>1, <3>1 DEF AdminInv, HandsConsistent
    <3> QED
      BY <3>1, <3>4, <3>5, <3>6 DEF Handled, TablesSame
  <2> QED
    BY <2>1, <2>2
<1>2. ASSUME NEW a \in Agents \ crossed', \A n \in Admins : a \notin InHand(n)'
      PROVE  Consistent(a)'
  <2>1. CASE a \in InHand(m)
    BY <1>2, <2>1
  <2>2. CASE a \notin InHand(m)
    <3>1. \A n \in Admins : a \notin InHand(n)
      BY <1>2, <2>2, OthersHands
    <3>2. Consistent(a)
      BY <3>1 DEF AdminInv, HandsConsistent
    <3>3. TablesSame(a)
      BY <1>2, <2>2
    <3> QED
      BY <3>2, <3>3 DEF TablesSame, Consistent
  <2> QED
    BY <2>1, <2>2
<1> QED
  BY <1>1, <1>2 DEF HandsConsistent

\* The operation neither begins nor ends a registration, nor adds agents.
LEMMA ListedStep ==
    ASSUME Listed, NEW m \in Admins, OthersSame(m), op[m].pc # "register",
           UNCHANGED <<tools, behind>>, Exposures' \subseteq Exposures
    PROVE  Listed'
<1>1. ASSUME ~ behind', NEW a \in Exposures', a \notin tools'
      PROVE  \E n \in Admins : op'[n].pc = "register" /\ a \in op'[n].todo
  <2>1. PICK n \in Admins : op[n].pc = "register" /\ a \in op[n].todo
    BY <1>1 DEF Listed
  <2>2. op'[n] = op[n]
    BY <2>1 DEF OthersSame
  <2> QED
    BY <2>1, <2>2
<1> QED
  BY <1>1 DEF Listed

LEMMA ExposuresShrink ==
    ASSUME active' \subseteq active, filed' \subseteq filed
    PROVE  Exposures' \subseteq Exposures
BY DEF Exposures

\* No turn moves and only an idle agent goes, or is to go.
LEMMA TurnsStep ==
    ASSUME TurnInv, NEW m \in Admins, OthersSame(m), UNCHANGED turnVars,
           \A a \in active : InFlight(a) => a \in active',
           op'[m].pc \in {"remove", "forget"} =>
               /\ op'[m].agent = op[m].agent
               /\ op[m].pc \in {"remove", "forget"} \/ ~ InFlight(op[m].agent)
    PROVE  TurnInv'
<1>1. turn' = turn /\ calls' = calls /\ via' = via
  BY DEF turnVars
<1>2. TurnTypes' /\ Stacked'
  BY <1>1 DEF TurnInv, TurnTypes, Stacked, InTurn
<1>3. \A r \in Requests, d \in Depths : Guarded(r, d)' <=> Guarded(r, d)
  BY <1>1 DEF Guarded, Nested
<1>4. \A a : InFlight(a)' <=> InFlight(a)
  BY <1>1, <1>3 DEF InFlight
<1>5. DeletesAlone'
  <2>1. ASSUME NEW n \in Admins, op'[n].pc \in {"remove", "forget"}
        PROVE  ~ InFlight(op'[n].agent)
    <3>1. CASE n = m
      BY <2>1, <3>1 DEF TurnInv, DeletesAlone
    <3>2. CASE n # m
      BY <2>1, <3>2 DEF TurnInv, DeletesAlone, OthersSame
    <3> QED
      BY <3>1, <3>2
  <2>2. ASSUME NEW n \in Admins, op'[n].pc \in {"remove", "forget"}
        PROVE  ~ InFlight(op[n].agent)'
    BY <1>4, <2>1, <2>2
  <2> QED
    BY <2>2 DEF DeletesAlone
<1>6. ASSUME NEW r \in Requests, NEW d \in Depths, Guarded(r, d)',
             turn'[r][d].pc # "look"
      PROVE  turn'[r][d].agent \in active'
  <2>1. Guarded(r, d) /\ turn'[r][d] = turn[r][d]
    BY <1>1, <1>3, <1>6
  <2>2. turn[r][d].agent \in active
    BY <1>6, <2>1 DEF TurnInv, CountedAgentsStay
  <2>3. InFlight(turn[r][d].agent)
    BY <2>1 DEF InFlight
  <2> QED
    BY <2>1, <2>2, <2>3
<1>7. CountedAgentsStay'
  BY <1>6 DEF CountedAgentsStay
<1> QED
  BY <1>2, <1>5, <1>7 DEF TurnInv

-----------------------------------------------------------------------------
(* How op[m] changes                                                       *)

Stages == {"idle", "lock", "check", "build", "proxies", "insert", "unpend",
           "remove", "forget", "expose", "register", "done"}

LEMMA SetFacts ==
    ASSUME AdminTypes, NEW m \in Admins, NEW x \in Op, op' = [op EXCEPT ![m] = x]
    PROVE  op' \in [Admins -> Op] /\ op'[m] = x /\ OthersSame(m)
BY DEF AdminTypes, OthersSame

\* The fields of op[m] other than pc, todo and left are as they were.
Keeps(m) == /\ op'[m].kind = op[m].kind /\ op'[m].agent = op[m].agent
            /\ op'[m].created = op[m].created

LEMMA OpFields ==
    ASSUME AdminTypes, NEW m \in Admins
    PROVE  /\ op[m] \in Op
           /\ op[m].kind \in Mutators \cup Reloaders /\ op[m].pc \in Stages
           /\ op[m].agent \in Agents \cup {None} /\ op[m].todo \subseteq Agents
           /\ op[m].left \subseteq Agents /\ op[m].created \in BOOLEAN
<1>1. op[m] \in Op
  BY DEF AdminTypes
<1> QED
  BY <1>1 DEF Op, Stages

LEMMA ProceedFacts ==
    ASSUME AdminTypes, NEW m \in Admins, NEW pc \in Stages, Proceed(m, pc)
    PROVE  /\ op' \in [Admins -> Op] /\ OthersSame(m)
           /\ op'[m].pc = pc /\ Keeps(m)
           /\ op'[m].todo = op[m].todo /\ op'[m].left = op[m].left
<1> DEFINE x == [op[m] EXCEPT !.pc = pc]
<1>1. op[m] \in Op
  BY OpFields
<1>2. /\ x \in Op
      /\ x.pc = pc /\ x.kind = op[m].kind /\ x.agent = op[m].agent
      /\ x.todo = op[m].todo /\ x.left = op[m].left /\ x.created = op[m].created
  BY <1>1 DEF Op, Stages
<1>3. op' = [op EXCEPT ![m] = x]
  BY DEF Proceed
<1> HIDE DEF x
<1>4. op' \in [Admins -> Op] /\ op'[m] = x /\ OthersSame(m)
  BY <1>2, <1>3, SetFacts
<1> QED
  BY <1>2, <1>4 DEF Keeps

LEMMA EndFacts ==
    ASSUME AdminTypes, NEW m \in Admins, End(m)
    PROVE  /\ op' \in [Admins -> Op] /\ OthersSame(m)
           /\ op'[m].pc = "done" /\ op'[m].kind = "reload"
           /\ ~ Mutates(m)' /\ ~ Reloading(m)' /\ InHand(m)' = {}
           /\ StagedOf(m)'
<1> DEFINE x == [Idle EXCEPT !.pc = "done"]
<1>1. x \in Op /\ x.pc = "done" /\ x.kind = "reload"
  BY DEF Op, Idle, Mutators, Reloaders
<1>2. op' = [op EXCEPT ![m] = x]
  BY DEF End
<1> HIDE DEF x
<1>3. op' \in [Admins -> Op] /\ op'[m] = x /\ OthersSame(m)
  BY <1>1, <1>2, SetFacts
<1>4. ~ Mutates(m)' /\ ~ Reloading(m)'
  BY <1>1, <1>3 DEF Mutates, Reloading
<1>5. InHand(m)' = {}
  BY <1>4 DEF InHand
<1>6. StagedOf(m)'
  BY <1>1, <1>3, <1>4 DEF StagedOf
<1> QED
  BY <1>1, <1>3, <1>4, <1>5, <1>6

LEMMA TypesStep ==
    ASSUME AdminTypes, NEW m \in Admins, OthersSame(m), op' \in [Admins -> Op],
           op'[m].kind \in Mutators \/ op'[m].pc \in {"proxies", "insert"}
               => op'[m].agent \in Agents,
           config' \subseteq Agents, filed' \subseteq config', active' \subseteq Agents,
           pending' \subseteq Agents, tools' \subseteq Agents, crossed' \subseteq Agents,
           behind' \in BOOLEAN
    PROVE  AdminTypes'
<1>1. ASSUME NEW n \in Admins,
             op'[n].kind \in Mutators \/ op'[n].pc \in {"proxies", "insert"}
      PROVE  op'[n].agent \in Agents
  <2>1. CASE n = m
    BY <1>1, <2>1
  <2>2. CASE n # m
    BY <1>1, <2>2 DEF OthersSame, AdminTypes
  <2> QED
    BY <2>1, <2>2
<1> QED
  BY <1>1 DEF AdminTypes

\* What the hands of an operation hold.
LEMMA Hands ==
    ASSUME AdminTypes, NEW m \in Admins
    PROVE  /\ Mutates(m) => ~ Reloading(m) /\ InHand(m) = {op[m].agent}
           /\ Reloading(m) => /\ ~ Mutates(m)
                              /\ InHand(m) = op[m].todo \cup op[m].left
                                             \cup ({op[m].agent} \ {None})
           /\ ~ Mutates(m) /\ ~ Reloading(m) => InHand(m) = {}
BY DEF Mutates, Reloading, InHand, Mutators, Reloaders

LEMMA HandsNext ==
    ASSUME NEW m \in Admins
    PROVE  /\ Mutates(m)' => ~ Reloading(m)' /\ InHand(m)' = {op'[m].agent}
           /\ Reloading(m)' => /\ ~ Mutates(m)'
                               /\ InHand(m)' = op'[m].todo \cup op'[m].left
                                               \cup ({op'[m].agent} \ {None})
           /\ ~ Mutates(m)' /\ ~ Reloading(m)' => InHand(m)' = {}
BY DEF Mutates, Reloading, InHand, Mutators, Reloaders

-----------------------------------------------------------------------------
(* Steps of the administration                                             *)

\* What the tables say of agents the operation does not have in hand stays,
\* what it has in hand is handled, and what it lets go is consistent.
HandsRight(m) ==
    \A a \in Agents \ crossed' :
        /\ a \notin InHand(m) /\ a \notin InHand(m)' => TablesSame(a)
        /\ a \in InHand(m)' => Handled(m, a)'
        /\ a \in InHand(m) /\ a \notin InHand(m)' => Consistent(a)'

\* The new value of op[m] is one an operation can have.
Proper(m) ==
    /\ op' \in [Admins -> Op] /\ OthersSame(m) /\ StagedOf(m)'
    /\ op'[m].kind \in Mutators \/ op'[m].pc \in {"proxies", "insert"}
           => op'[m].agent \in Agents

\* The operation takes nothing in hand that it did not have.
TakesNothing(m) ==
    /\ Mutates(m)' => Mutates(m) /\ op'[m].agent = op[m].agent
    /\ Reloading(m)' => Reloading(m) /\ InHand(m)' \subseteq InHand(m)

TablesTyped == /\ config' \subseteq Agents /\ filed' \subseteq config'
               /\ active' \subseteq Agents /\ pending' \subseteq Agents

\* A step between the start of an operation and its registration of tools.
LEMMA AdminKeeps ==
    ASSUME TurnInv, AdminInv, NEW m \in Admins, Proper(m), TakesNothing(m),
           TablesTyped, HandsRight(m),
           UNCHANGED <<turnVars, tools, crossed, behind>>, op[m].pc # "register",
           active' = active, filed' \subseteq filed,
           \A n \in Admins : Reloading(n) /\ Reloading(n)'
                               => pending' \subseteq pending \cup crossed,
           op'[m].pc \in {"remove", "forget"} =>
               /\ op'[m].agent = op[m].agent
               /\ op[m].pc \in {"remove", "forget"} \/ ~ InFlight(op[m].agent)
    PROVE  TurnInv' /\ AdminInv'
<1> USE DEF Proper, TakesNothing
<1>1. TurnInv'
  BY TurnsStep
<1>2. AdminTypes'
  <2>1. tools' \subseteq Agents /\ crossed' \subseteq Agents /\ behind' \in BOOLEAN
    BY DEF AdminInv, AdminTypes
  <2> QED
    BY <2>1, TypesStep DEF AdminInv, TablesTyped
<1>3. Staged'
  BY StagedStep DEF AdminInv
<1>4. Exclusive'
  BY ExclusiveStep DEF AdminInv
<1>5. CrossedKnown'
  BY CrossedStep DEF AdminInv
<1>6. HandsConsistent'
  BY <1>2, <1>4, <1>5, HandsStep DEF HandsRight
<1>7. Listed'
  BY ListedStep, ExposuresShrink DEF AdminInv
<1> QED
  BY <1>1, <1>2, <1>3, <1>4, <1>5, <1>6, <1>7 DEF AdminInv

\* Nothing changes but op.
LEMMA OnlyOpsKept ==
    ASSUME AdminInv, OnlyOps
    PROVE  /\ UNCHANGED <<turnVars, tools, crossed, behind>>
           /\ active' = active /\ filed' = filed /\ pending' = pending
           /\ TablesTyped /\ \A a : TablesSame(a) /\ (Consistent(a)' <=> Consistent(a))
<1>1. /\ config' = config /\ filed' = filed /\ active' = active
      /\ pending' = pending /\ UNCHANGED <<turnVars, tools, crossed, behind>>
  BY DEF OnlyOps, agentVars
<1> QED
  BY <1>1 DEF AdminInv, AdminTypes, TablesTyped, TablesSame, Consistent

\* What is said of the agent an operation has in hand.
LEMMA HandledNow ==
    ASSUME AdminInv, NEW m \in Admins, NEW a \in Agents \ crossed, a \in InHand(m)
    PROVE  Handled(m, a)
BY DEF AdminInv, HandsConsistent

LEMMA AskKeeps ==
    ASSUME TurnInv, AdminInv, NEW m \in Admins, NEW kind \in Mutators,
           NEW a \in Agents, Ask(m, kind, a)
    PROVE  TurnInv' /\ AdminInv'
<1> DEFINE x == [Idle EXCEPT !.kind = kind, !.pc = "lock", !.agent = a]
<1>1. op[m] = Idle /\ op' = [op EXCEPT ![m] = x] /\ OnlyOps
  BY DEF Ask
<1>2. x \in Op /\ x.kind = kind /\ x.pc = "lock" /\ x.agent = a
  BY DEF Op, Idle
<1> HIDE DEF x
<1>3. op' \in [Admins -> Op] /\ op'[m] = x /\ OthersSame(m)
  BY <1>1, <1>2, SetFacts DEF AdminInv
<1>4. ~ Mutates(m)' /\ ~ Reloading(m)'
  BY <1>2, <1>3 DEF Mutates, Reloading
<1>5. op[m].pc = "idle" /\ ~ Mutates(m) /\ ~ Reloading(m)
  BY <1>1 DEF Mutates, Reloading, Idle
<1>6. Proper(m)
  BY <1>2, <1>3, <1>4 DEF Proper, StagedOf
<1>7. InHand(m) = {} /\ InHand(m)' = {}
  BY <1>4, <1>5, Hands, HandsNext DEF AdminInv
<1>8. HandsRight(m)
  BY <1>1, <1>7, OnlyOpsKept DEF HandsRight
<1> QED
  BY <1>1, <1>2, <1>3, <1>4, <1>5, <1>6, <1>8, OnlyOpsKept, AdminKeeps DEF TakesNothing

\* An operation ends that leaves the agent it was about consistent.
LEMMA EndKeeps ==
    ASSUME TurnInv, AdminInv, NEW m \in Admins, End(m), TablesTyped,
           \A a \in Agents \ crossed :
               /\ a \notin InHand(m) => TablesSame(a)
               /\ a \in InHand(m) => Consistent(a)',
           UNCHANGED <<turnVars, tools, crossed, behind>>, op[m].pc # "register",
           active' = active, filed' \subseteq filed,
           \A n \in Admins : Reloading(n) /\ Reloading(n)'
                               => pending' \subseteq pending \cup crossed
    PROVE  TurnInv' /\ AdminInv'
<1>1. /\ op' \in [Admins -> Op] /\ OthersSame(m)
      /\ op'[m].pc = "done" /\ op'[m].kind = "reload"
      /\ ~ Mutates(m)' /\ ~ Reloading(m)' /\ InHand(m)' = {}
      /\ StagedOf(m)'
  BY EndFacts DEF AdminInv
<1>2. Proper(m)
  BY <1>1 DEF Proper, Mutators
<1>3. HandsRight(m)
  BY <1>1 DEF HandsRight
<1> QED
  BY <1>1, <1>2, <1>3, AdminKeeps DEF TakesNothing

\* An operation is refused, or the store fails, before anything is changed.
LEMMA RefusalKeeps ==
    ASSUME TurnInv, AdminInv, NEW m \in Admins, End(m), OnlyOps,
           op[m].kind = "update" \/ op[m].pc = "check", op[m].pc \in {"check", "build"}
    PROVE  TurnInv' /\ AdminInv'
<1>1. ASSUME NEW a \in Agents \ crossed, a \in InHand(m)
      PROVE  Consistent(a)
  BY <1>1, HandledNow DEF Handled
<1> QED
  BY <1>1, OnlyOpsKept, EndKeeps

\* A mutation goes on to its next stage, with the agent it has in hand.
LEMMA MutationGoesOn ==
    ASSUME TurnInv, AdminInv, NEW m \in Admins, Mutates(m),
           NEW pc \in Stages \ {"idle", "lock", "done"}, Proceed(m, pc)
    PROVE  /\ op' \in [Admins -> Op] /\ OthersSame(m)
           /\ op'[m].pc = pc /\ Keeps(m)
           /\ op[m].kind \in Mutators /\ op[m].agent \in Agents
           /\ op[m].agent \in InHand(m)
           /\ InHand(m) = {op[m].agent} /\ InHand(m)' = {op[m].agent}
           /\ ~ Reloading(m)' /\ TakesNothing(m)
           /\ StagedOf(m)' => Proper(m)
<1>1. /\ op' \in [Admins -> Op] /\ OthersSame(m) /\ op'[m].pc = pc /\ Keeps(m)
  BY ProceedFacts DEF AdminInv
<1>2. op[m].kind \in Mutators /\ op[m].agent \in Agents
  BY DEF Mutates, AdminInv, AdminTypes
<1>3. Mutates(m)'
  BY <1>1, <1>2 DEF Mutates, Keeps
<1>4. InHand(m) = {op[m].agent} /\ InHand(m)' = {op[m].agent} /\ ~ Reloading(m)'
  BY <1>1, <1>3, Hands, HandsNext DEF AdminInv, Keeps
<1>5. TakesNothing(m)
  BY <1>1, <1>4 DEF TakesNothing, Keeps
<1>6. StagedOf(m)' => Proper(m)
  BY <1>1, <1>2 DEF Proper, Keeps
<1> QED
  BY <1>1, <1>2, <1>4, <1>5, <1>6

LEMMA CheckCreateKeeps ==
    ASSUME TurnInv, AdminInv, NEW m \in Admins, CheckCreate(m)
    PROVE  TurnInv' /\ AdminInv'
<1>1. /\ op[m].pc = "check" /\ op[m].kind = "create"
      /\ UNCHANGED <<filed, active, pending, tools, turnVars, crossed, behind>>
  BY DEF CheckCreate
<1>2. CASE End(m) /\ UNCHANGED config
  <2>1. OnlyOps
    BY <1>1, <1>2 DEF OnlyOps, agentVars
  <2> QED
    BY <1>1, <1>2, <2>1, RefusalKeeps
<1>3. CASE /\ op[m].agent \notin config \cup active \cup pending
           /\ config' = config \cup {op[m].agent}
           /\ Proceed(m, "build")
  <2>1. Mutates(m) /\ "build" \in Stages \ {"idle", "lock", "done"}
    BY <1>1 DEF Mutates, Mutators, Stages
  <2>2. /\ op' \in [Admins -> Op] /\ OthersSame(m)
        /\ op'[m].pc = "build" /\ Keeps(m)
        /\ op[m].agent \in Agents
        /\ InHand(m) = {op[m].agent} /\ InHand(m)' = {op[m].agent}
        /\ ~ Reloading(m)' /\ TakesNothing(m)
        /\ StagedOf(m)' => Proper(m)
    BY <1>3, <2>1, MutationGoesOn
  <2>3. op'[m].kind = "create" /\ op'[m].pc = "build"
    BY <1>1, <2>2 DEF Keeps
  <2>4. Proper(m)
    BY <2>2, <2>3 DEF StagedOf
  <2>5. TablesTyped
    BY <1>1, <1>3, <2>2 DEF AdminInv, AdminTypes, TablesTyped
  <2>6. HandsRight(m)
    <3>1. ASSUME NEW a \in Agents, a # op[m].agent
          PROVE  TablesSame(a)
      BY <1>1, <1>3, <3>1 DEF TablesSame
    <3>2. ASSUME NEW a \in Agents, a = op[m].agent
          PROVE  Handled(m, a)'
      BY <1>1, <1>3, <2>3, <3>2 DEF Handled
    <3> QED
      BY <2>2, <3>1, <3>2 DEF HandsRight
  <2> QED
    BY <1>1, <2>2, <2>3, <2>4, <2>5, <2>6, AdminKeeps
<1> QED
  BY <1>2, <1>3 DEF CheckCreate

\* A mutation passes its check, and what it has in hand is as it expects.
LEMMA OnlyProceeds ==
    ASSUME TurnInv, AdminInv, NEW m \in Admins, Mutates(m), op[m].pc # "register",
           NEW pc \in Stages \ {"idle", "lock", "done"}, Proceed(m, pc), OnlyOps,
           StagedOf(m)',
           \A a \in Agents \ crossed : a = op[m].agent => Handled(m, a)',
           pc \in {"remove", "forget"} => ~ InFlight(op[m].agent)
    PROVE  TurnInv' /\ AdminInv'
<1>1. /\ op' \in [Admins -> Op] /\ OthersSame(m)
      /\ op'[m].pc = pc /\ Keeps(m)
      /\ InHand(m) = {op[m].agent} /\ InHand(m)' = {op[m].agent}
      /\ TakesNothing(m) /\ Proper(m)
  BY MutationGoesOn
<1>2. /\ UNCHANGED <<turnVars, tools, crossed, behind>>
      /\ active' = active /\ filed' = filed /\ pending' = pending
      /\ TablesTyped /\ \A a : TablesSame(a) /\ (Consistent(a)' <=> Consistent(a))
  BY OnlyOpsKept
<1>3. HandsRight(m)
  BY <1>1, <1>2 DEF HandsRight
<1>4. op'[m].agent = op[m].agent
  BY <1>1 DEF Keeps
<1> QED
  BY <1>1, <1>2, <1>3, <1>4, AdminKeeps

LEMMA CheckUpdateKeeps ==
    ASSUME TurnInv, AdminInv, NEW m \in Admins, CheckUpdate(m)
    PROVE  TurnInv' /\ AdminInv'
<1>1. op[m].pc = "check" /\ op[m].kind = "update" /\ OnlyOps
  BY DEF CheckUpdate
<1>2. CASE End(m)
  BY <1>1, <1>2, RefusalKeeps
<1>3. CASE op[m].agent \in config /\ Proceed(m, "build")
  <2>1. Mutates(m) /\ "build" \in Stages \ {"idle", "lock", "done"}
    BY <1>1 DEF Mutates, Mutators, Stages
  <2>2. /\ op'[m].pc = "build" /\ Keeps(m) /\ op[m].agent \in Agents
        /\ op[m].agent \in InHand(m) /\ ~ Reloading(m)'
    BY <1>3, <2>1, MutationGoesOn
  <2>3. op'[m].kind = "update"
    BY <1>1, <2>2 DEF Keeps
  <2>4. StagedOf(m)'
    BY <2>2, <2>3 DEF StagedOf
  <2>5. op[m].agent \notin crossed => Consistent(op[m].agent)
    BY <1>1, <2>2, HandledNow DEF Handled
  <2>6. config' = config /\ \A a : Consistent(a)' <=> Consistent(a)
    BY <1>1, OnlyOpsKept DEF OnlyOps, agentVars
  <2>7. ASSUME NEW a \in Agents \ crossed, a = op[m].agent
        PROVE  Handled(m, a)'
    <3>1. Consistent(a)'
      BY <2>5, <2>6, <2>7
    <3> QED
      BY <1>3, <2>2, <2>3, <2>6, <2>7, <3>1 DEF Handled
  <2> QED
    BY <1>1, <1>3, <2>1, <2>4, <2>7, OnlyProceeds
<1> QED
  BY <1>2, <1>3 DEF CheckUpdate

LEMMA CheckDeleteKeeps ==
    ASSUME TurnInv, AdminInv, NEW m \in Admins, CheckDelete(m)
    PROVE  TurnInv' /\ AdminInv'
<1>1. op[m].pc = "check" /\ op[m].kind = "delete" /\ OnlyOps
  BY DEF CheckDelete
<1>2. CASE End(m)
  BY <1>1, <1>2, RefusalKeeps
<1>3. CASE ~ InFlight(op[m].agent) /\ Proceed(m, "remove")
  <2>1. Mutates(m) /\ "remove" \in Stages \ {"idle", "lock", "done"}
    BY <1>1 DEF Mutates, Mutators, Stages
  <2>2. /\ op'[m].pc = "remove" /\ Keeps(m) /\ op[m].agent \in Agents
        /\ op[m].agent \in InHand(m) /\ ~ Reloading(m)'
    BY <1>3, <2>1, MutationGoesOn
  <2>3. op'[m].kind = "delete"
    BY <1>1, <2>2 DEF Keeps
  <2>4. StagedOf(m)'
    BY <2>2, <2>3 DEF StagedOf
  <2>5. op[m].agent \notin crossed => Consistent(op[m].agent)
    BY <1>1, <2>2, HandledNow DEF Handled
  <2>6. \A a : Consistent(a)' <=> Consistent(a)
    BY <1>1, OnlyOpsKept
  <2>7. ASSUME NEW a \in Agents \ crossed, a = op[m].agent
        PROVE  Handled(m, a)'
    <3>1. Consistent(a)'
      BY <2>5, <2>6, <2>7
    <3> QED
      BY <2>2, <3>1 DEF Handled
  <2> QED
    BY <1>1, <1>3, <2>1, <2>4, <2>7, OnlyProceeds
<1> QED
  BY <1>2, <1>3 DEF CheckDelete

\* An operation goes on making the agents it has in hand.
Making(m) == op[m].pc \in {"build", "proxies", "insert"}

LEMMA MakingKeeps ==
    ASSUME TurnInv, AdminInv, NEW m \in Admins, Making(m), Making(m)', OnlyOps,
           op' \in [Admins -> Op], OthersSame(m), op'[m].kind = op[m].kind,
           InHand(m)' = InHand(m),
           op[m].kind \notin Reloaders => op'[m].agent = op[m].agent,
           op'[m].agent # None => op'[m].agent \in Agents,
           op'[m].kind \in Reloaders =>
               /\ op'[m].todo \cap op'[m].left = {}
               /\ op'[m].agent \notin op'[m].todo \cup op'[m].left
               /\ op'[m].pc = "build" <=> op'[m].agent = None
    PROVE  TurnInv' /\ AdminInv'
<1>1. /\ op[m].pc \in {"build", "proxies", "insert"}
      /\ op'[m].pc \in {"build", "proxies", "insert"}
  BY DEF Making
<1>2. op[m].kind \in Mutators \cup Reloaders /\ op[m].kind # "delete"
  BY <1>1, OpFields DEF AdminInv, Staged, StagedOf
<1>3. StagedOf(m)'
  BY <1>1, <1>2 DEF StagedOf, Reloading
<1>4. op'[m].kind \in Mutators => op'[m].agent \in Agents
  BY DEF AdminInv, AdminTypes, Mutators, Reloaders
<1>5. op'[m].pc \in {"proxies", "insert"} => op'[m].agent \in Agents
  BY <1>1, <1>2, <1>4
<1>6. Proper(m)
  BY <1>3, <1>4, <1>5 DEF Proper
<1>7. TakesNothing(m)
  BY <1>1, <1>2 DEF TakesNothing, Mutates, Reloading, Mutators, Reloaders
<1>8. /\ UNCHANGED <<turnVars, tools, crossed, behind>>
      /\ active' = active /\ filed' = filed /\ pending' = pending
      /\ TablesTyped /\ \A a : TablesSame(a) /\ (Consistent(a)' <=> Consistent(a))
  BY OnlyOpsKept
<1>9. ASSUME NEW a \in Agents \ crossed, a \in InHand(m)
      PROVE  Handled(m, a)'
  <2>1. Handled(m, a) /\ TablesSame(a) /\ (Consistent(a)' <=> Consistent(a))
    BY <1>8, <1>9, HandledNow
  <2> QED
    BY <1>1, <2>1 DEF Handled, TablesSame
<1>10. HandsRight(m)
  BY <1>8, <1>9 DEF HandsRight
<1> QED
  BY <1>1, <1>6, <1>7, <1>8, <1>10, AdminKeeps

\* The operation has nothing to build but what it drained, or is about.
LEMMA ToBuildFacts ==
    ASSUME AdminInv, NEW m \in Admins, op[m].pc = "build",
           NEW a \in Agents, a \in ToBuild(m)
    PROVE  \/ /\ op[m].kind \in Mutators /\ Mutates(m)
              /\ a = op[m].agent /\ InHand(m) = {a}
           \/ /\ op[m].kind \in Reloaders /\ Reloading(m) /\ ~ Mutates(m)
              /\ op[m].agent = None /\ a \in op[m].todo /\ a \notin op[m].left
              /\ InHand(m) = op[m].todo \cup op[m].left
              /\ op[m].todo \cap op[m].left = {}
<1>1. CASE op[m].kind \in Mutators
  <2>1. a = op[m].agent /\ Mutates(m)
    BY <1>1 DEF ToBuild, Mutates
  <2> QED
    BY <1>1, <2>1, Hands DEF AdminInv
<1>2. CASE op[m].kind \notin Mutators
  <2>1. op[m].kind \in Reloaders /\ Reloading(m) /\ a \in op[m].todo
    BY <1>2, OpFields DEF AdminInv, ToBuild, Reloading
  <2>2. op[m].agent = None /\ op[m].todo \cap op[m].left = {}
    BY <2>1 DEF AdminInv, Staged, StagedOf
  <2>3. ~ Mutates(m) /\ InHand(m) = op[m].todo \cup op[m].left
    BY <2>1, <2>2, Hands DEF AdminInv
  <2> QED
    BY <2>1, <2>2, <2>3
<1> QED
  BY <1>1, <1>2

LEMMA BuildKeeps ==
    ASSUME TurnInv, AdminInv, NEW m \in Admins, NEW a \in Agents, Build(m, a)
    PROVE  TurnInv' /\ AdminInv'
<1> DEFINE p == IF a \in WithMcp \cap filed THEN "proxies" ELSE "insert"
           x == [op[m] EXCEPT !.agent = a, !.todo = @ \ {a}, !.pc = p]
<1>1. op[m].pc = "build" /\ a \in ToBuild(m) /\ OnlyOps
  BY DEF Build
<1>2. op' = [op EXCEPT ![m] = x]
  BY DEF Build, AdminInv, AdminTypes
<1>3. p \in {"proxies", "insert"}
  OBVIOUS
<1> HIDE DEF p
<1>4. op[m] \in Op /\ op[m].todo \subseteq Agents
  BY OpFields DEF AdminInv
<1>5. /\ x.pc = p /\ x.agent = a /\ x.kind = op[m].kind
      /\ x.todo = op[m].todo \ {a} /\ x.left = op[m].left
  BY <1>4 DEF Op
<1>6. x \in Op
  BY <1>3, <1>4 DEF Op
<1> HIDE DEF x
<1>7. op' \in [Admins -> Op] /\ op'[m] = x /\ OthersSame(m)
  BY <1>2, <1>6, SetFacts DEF AdminInv
<1>8. a # None
  BY GatewayAgentsAssumption
<1>9. CASE op[m].kind \in Mutators /\ Mutates(m) /\ a = op[m].agent /\ InHand(m) = {a}
  <2>1. Mutates(m)'
    BY <1>3, <1>5, <1>7, <1>9 DEF Mutates
  <2>2. InHand(m)' = InHand(m)
    BY <1>5, <1>7, <1>9, <2>1, HandsNext
  <2>3. Making(m) /\ Making(m)'
    BY <1>1, <1>3, <1>5, <1>7 DEF Making
  <2>4. op'[m].kind = op[m].kind /\ op'[m].agent = op[m].agent /\ op'[m].agent \in Agents
    BY <1>5, <1>7, <1>9
  <2>5. op'[m].kind \notin Reloaders
    BY <1>9, <2>4 DEF Mutators, Reloaders
  <2> QED
    BY <1>1, <1>7, <2>2, <2>3, <2>4, <2>5, MakingKeeps
<1>10. CASE /\ op[m].kind \in Reloaders /\ Reloading(m) /\ ~ Mutates(m)
            /\ op[m].agent = None /\ a \in op[m].todo /\ a \notin op[m].left
            /\ InHand(m) = op[m].todo \cup op[m].left
            /\ op[m].todo \cap op[m].left = {}
  <2>1. Reloading(m)'
    BY <1>3, <1>5, <1>7, <1>10 DEF Reloading
  <2>2. InHand(m)' = InHand(m)
    BY <1>5, <1>7, <1>8, <1>10, <2>1, HandsNext
  <2> QED
    BY <1>1, <1>3, <1>5, <1>7, <1>8, <1>10, <2>2, MakingKeeps DEF Making
<1> QED
  BY <1>1, <1>9, <1>10, ToBuildFacts

LEMMA ProxiesKeeps ==
    ASSUME TurnInv, AdminInv, NEW m \in Admins, Proxies(m)
    PROVE  TurnInv' /\ AdminInv'
<1>1. op[m].pc = "proxies" /\ Proceed(m, "insert") /\ OnlyOps
  BY DEF Proxies
<1>2. /\ op' \in [Admins -> Op] /\ OthersSame(m)
      /\ op'[m].pc = "insert" /\ Keeps(m)
      /\ op'[m].todo = op[m].todo /\ op'[m].left = op[m].left
  BY <1>1, ProceedFacts DEF AdminInv, Stages
<1>3. op'[m].kind = op[m].kind /\ op'[m].agent = op[m].agent
  BY <1>2 DEF Keeps
<1>4. op[m].agent \in Agents /\ op[m].agent # None
  BY <1>1, GatewayAgentsAssumption DEF AdminInv, AdminTypes
<1>5. InHand(m)' = InHand(m)
  <2>1. Reloading(m)' <=> Reloading(m)
    BY <1>1, <1>2, <1>3 DEF Reloading
  <2>2. Mutates(m)' <=> Mutates(m)
    BY <1>1, <1>2, <1>3 DEF Mutates
  <2> QED
    BY <1>2, <1>3, <2>1, <2>2 DEF InHand
<1>6. op[m].kind \in Reloaders =>
          /\ op[m].todo \cap op[m].left = {}
          /\ op[m].agent \notin op[m].todo \cup op[m].left
  BY <1>1 DEF AdminInv, Staged, StagedOf, Reloading
<1>7. Making(m) /\ Making(m)'
  BY <1>1, <1>2 DEF Making
<1>8. op'[m].kind \in Reloaders =>
          /\ op'[m].todo \cap op'[m].left = {}
          /\ op'[m].agent \notin op'[m].todo \cup op'[m].left
          /\ op'[m].pc = "build" <=> op'[m].agent = None
  BY <1>2, <1>3, <1>4, <1>6
<1> QED
  BY <1>1, <1>2, <1>3, <1>4, <1>5, <1>7, <1>8, MakingKeeps

LEMMA BuildFailsKeeps ==
    ASSUME TurnInv, AdminInv, NEW m \in Admins, NEW a \in Agents, BuildFails(m, a)
    PROVE  TurnInv' /\ AdminInv'
<1>1. /\ op[m].pc = "build" /\ a \in ToBuild(m)
      /\ UNCHANGED <<config, filed, active, tools, turnVars, crossed, behind>>
      /\ pending' = IF op[m].kind = "create" THEN pending \cup {a} ELSE pending
  BY DEF BuildFails
<1>2. CASE op[m].kind \in Reloaders
  <2> DEFINE x == [op[m] EXCEPT !.todo = @ \ {a}, !.left = @ \cup {a}]
  <2>1. op' = [op EXCEPT ![m] = x]
    BY <1>2 DEF BuildFails, AdminInv, AdminTypes
  <2>2. op[m] \in Op /\ op[m].todo \subseteq Agents /\ op[m].left \subseteq Agents
    BY OpFields DEF AdminInv
  <2>3. /\ x.pc = op[m].pc /\ x.agent = op[m].agent /\ x.kind = op[m].kind
        /\ x.todo = op[m].todo \ {a} /\ x.left = op[m].left \cup {a}
    BY <2>2 DEF Op
  <2>4. x \in Op
    BY <2>2 DEF Op
  <2> HIDE DEF x
  <2>5. op' \in [Admins -> Op] /\ op'[m] = x /\ OthersSame(m)
    BY <2>1, <2>4, SetFacts DEF AdminInv
  <2>6. pending' = pending
    BY <1>1, <1>2 DEF Reloaders
  <2>7. OnlyOps
    BY <1>1, <2>6 DEF OnlyOps, agentVars
  <2>8. op[m].kind \notin Mutators
    BY <1>2 DEF Mutators, Reloaders
  <2>9. /\ op[m].agent = None /\ a \in op[m].todo /\ a \notin op[m].left
        /\ InHand(m) = op[m].todo \cup op[m].left
        /\ op[m].todo \cap op[m].left = {}
    BY <1>1, <2>8, ToBuildFacts
  <2>10. Reloading(m)'
    BY <1>1, <1>2, <2>3, <2>5 DEF Reloading
  <2>11. InHand(m)' = InHand(m)
    BY <2>3, <2>5, <2>9, <2>10, HandsNext
  <2>12. Making(m) /\ Making(m)'
    BY <1>1, <2>3, <2>5 DEF Making
  <2>13. /\ op'[m].todo \cap op'[m].left = {}
         /\ op'[m].agent \notin op'[m].todo \cup op'[m].left
         /\ op'[m].pc = "build" /\ op'[m].agent = None
    BY <1>1, <2>2, <2>3, <2>5, <2>9, GatewayAgentsAssumption
  <2> QED
    BY <1>2, <2>3, <2>5, <2>7, <2>11, <2>12, <2>13, MakingKeeps
<1>3. CASE op[m].kind = "update"
  <2>1. End(m)
    BY <1>3 DEF BuildFails, Reloaders
  <2>2. OnlyOps
    BY <1>1, <1>3 DEF OnlyOps, agentVars
  <2> QED
    BY <1>1, <1>3, <2>1, <2>2, RefusalKeeps
<1>4. CASE op[m].kind = "create"
  <2>1. End(m) /\ pending' = pending \cup {a} /\ op[m].kind \in Mutators
    BY <1>1, <1>4 DEF BuildFails, Reloaders, Mutators
  <2>2. Mutates(m) /\ a = op[m].agent /\ InHand(m) = {a}
    BY <1>1, <2>1, ToBuildFacts DEF Mutators, Reloaders
  <2>3. TablesTyped
    BY <1>1, <2>1 DEF AdminInv, AdminTypes, TablesTyped
  <2>4. ASSUME NEW b \in Agents \ crossed
        PROVE  /\ b \notin InHand(m) => TablesSame(b)
               /\ b \in InHand(m) => Consistent(b)'
    <3>1. CASE b # a
      BY <1>1, <2>1, <2>2, <3>1 DEF TablesSame
    <3>2. CASE b = a
      <4>1. Handled(m, b)
        BY <2>2, <3>2, HandledNow
      <4>2. b \in config /\ b \notin active
        BY <1>1, <1>4, <4>1 DEF Handled
      <4> QED
        BY <1>1, <2>1, <2>2, <3>2, <4>2 DEF Consistent
    <3> QED
      BY <3>1, <3>2
  <2>5. \A n \in Admins : Reloading(n) => pending' \subseteq pending \cup crossed
    BY <2>1, <2>2 DEF AdminInv, CrossedKnown
  <2> QED
    BY <1>1, <2>1, <2>3, <2>4, <2>5, EndKeeps
<1>5. op[m].kind \in {"update", "create"} \cup Reloaders
  BY <1>1, OpFields DEF AdminInv, Staged, StagedOf, Mutators
<1> QED
  BY <1>2, <1>3, <1>4, <1>5

LEMMA UnpendKeeps ==
    ASSUME TurnInv, AdminInv, NEW m \in Admins, Unpend(m)
    PROVE  TurnInv' /\ AdminInv'
<1>1. /\ op[m].pc = "unpend" /\ End(m) /\ pending' = pending \ {op[m].agent}
      /\ UNCHANGED <<config, filed, active, tools, turnVars, crossed, behind>>
  BY DEF Unpend
<1>2. Mutates(m)
  BY <1>1 DEF AdminInv, Staged, StagedOf, Mutates, Mutators
<1>3. InHand(m) = {op[m].agent}
  BY <1>2, Hands DEF AdminInv
<1>4. TablesTyped
  BY <1>1 DEF AdminInv, AdminTypes, TablesTyped
<1>5. ASSUME NEW b \in Agents \ crossed
      PROVE  /\ b \notin InHand(m) => TablesSame(b)
             /\ b \in InHand(m) => Consistent(b)'
  <2>1. CASE b \notin InHand(m)
    BY <1>1, <1>3, <2>1 DEF TablesSame
  <2>2. CASE b \in InHand(m)
    <3>1. b \in config \cap active
      BY <1>1, <2>2, HandledNow DEF Handled
    <3> QED
      BY <1>1, <1>3, <2>2, <3>1 DEF Consistent
  <2> QED
    BY <2>1, <2>2
<1> QED
  BY <1>1, <1>4, <1>5, EndKeeps

LEMMA ForgetKeeps ==
    ASSUME TurnInv, AdminInv, NEW m \in Admins, Forget(m)
    PROVE  TurnInv' /\ AdminInv'
<1>1. /\ op[m].pc = "forget" /\ End(m) /\ pending' = pending \ {op[m].agent}
      /\ config' = config \ {op[m].agent} /\ filed' = filed \ {op[m].agent}
      /\ UNCHANGED <<active, tools, turnVars, crossed, behind>>
  BY DEF Forget
<1>2. Mutates(m)
  BY <1>1 DEF AdminInv, Staged, StagedOf, Mutates, Mutators
<1>3. InHand(m) = {op[m].agent}
  BY <1>2, Hands DEF AdminInv
<1>4. TablesTyped
  BY <1>1 DEF AdminInv, AdminTypes, TablesTyped
<1>5. ASSUME NEW b \in Agents \ crossed
      PROVE  /\ b \notin InHand(m) => TablesSame(b)
             /\ b \in InHand(m) => Consistent(b)'
  <2>1. CASE b \notin InHand(m)
    BY <1>1, <1>3, <2>1 DEF TablesSame
  <2>2. CASE b \in InHand(m)
    <3>1. b \notin active
      BY <1>1, <2>2, HandledNow DEF Handled
    <3> QED
      BY <1>1, <1>3, <2>2, <3>1 DEF Consistent
  <2> QED
    BY <2>1, <2>2
<1> QED
  BY <1>1, <1>4, <1>5, EndKeeps

\* What was drained and not built is pending again.
LEMMA RestoreKeeps ==
    ASSUME TurnInv, AdminInv, NEW m \in Admins, Restore(m)
    PROVE  TurnInv' /\ AdminInv'
<1>1. /\ op[m].kind \in Reloaders /\ op[m].pc = "build" /\ op[m].todo = {}
      /\ pending' = op[m].left
      /\ UNCHANGED <<config, filed, active, tools, turnVars, crossed, behind>>
  BY DEF Restore
<1>2. Reloading(m)
  BY <1>1 DEF Reloading
<1>3. op[m].agent = None
  BY <1>1, <1>2 DEF AdminInv, Staged, StagedOf
<1>4. InHand(m) = op[m].left /\ ~ Mutates(m)
  BY <1>1, <1>2, <1>3, Hands DEF AdminInv
<1>5. op[m].left \subseteq Agents /\ op[m].kind \notin Mutators
  BY <1>1, OpFields DEF AdminInv, Mutators, Reloaders
<1>6. pending \subseteq crossed
  BY <1>2 DEF AdminInv, CrossedKnown
<1>7. /\ op' \in [Admins -> Op] /\ OthersSame(m)
      /\ op'[m].pc \in {"done", "expose"} /\ op'[m].kind \in Reloaders
  <2>1. CASE End(m)
    BY <2>1, EndFacts DEF AdminInv, Reloaders
  <2>2. CASE op' = [op EXCEPT ![m].left = {}, ![m].pc = "expose"]
    <3> DEFINE x == [op[m] EXCEPT !.left = {}, !.pc = "expose"]
    <3>1. op[m] \in Op
      BY OpFields DEF AdminInv
    <3>2. x \in Op /\ x.pc = "expose" /\ x.kind = op[m].kind
      BY <3>1 DEF Op
    <3>3. op' = [op EXCEPT ![m] = x]
      BY <2>2 DEF AdminInv, AdminTypes
    <3> HIDE DEF x
    <3>4. op' \in [Admins -> Op] /\ op'[m] = x /\ OthersSame(m)
      BY <3>2, <3>3, SetFacts DEF AdminInv
    <3> QED
      BY <1>1, <3>2, <3>4
  <2> QED
    BY <2>1, <2>2 DEF Restore
<1>8. op'[m].kind \notin Mutators
  BY <1>7 DEF Mutators, Reloaders
<1>9. ~ Mutates(m)' /\ ~ Reloading(m)'
  BY <1>7, <1>8 DEF Mutates, Reloading
<1>10. InHand(m)' = {}
  BY <1>9, HandsNext
<1>11. StagedOf(m)'
  BY <1>7, <1>8, <1>9 DEF StagedOf, Mutators
<1>12. Proper(m)
  BY <1>7, <1>8, <1>11 DEF Proper
<1>13. TablesTyped
  BY <1>1, <1>5 DEF AdminInv, AdminTypes, TablesTyped
<1>14. ASSUME NEW b \in Agents \ crossed
       PROVE  /\ b \notin InHand(m) => TablesSame(b)
              /\ b \in InHand(m) => Consistent(b)'
  <2>1. CASE b \notin InHand(m)
    BY <1>1, <1>4, <1>6, <2>1 DEF TablesSame
  <2>2. CASE b \in InHand(m)
    <3>1. Handled(m, b)
      BY <2>2, HandledNow
    <3>2. op[m].kind # "update"
      BY <1>1 DEF Reloaders
    <3>3. b \in config /\ b \notin active
      BY <1>1, <3>1, <3>2 DEF Handled
    <3> QED
      BY <1>1, <1>4, <2>2, <3>3 DEF Consistent
  <2> QED
    BY <2>1, <2>2
<1>15. HandsRight(m)
  BY <1>1, <1>10, <1>14 DEF HandsRight
<1>16. ASSUME NEW n \in Admins, Reloading(n), Reloading(n)'
       PROVE  pending' \subseteq crossed
  <2>1. n # m
    BY <1>9, <1>16
  <2>2. InHand(m) \subseteq crossed
    BY <1>2, <1>16, <2>1 DEF AdminInv, CrossedKnown
  <2> QED
    BY <1>1, <1>4, <2>2
<1>17. TakesNothing(m)
  BY <1>9 DEF TakesNothing
<1>18. /\ UNCHANGED <<turnVars, tools, crossed, behind>> /\ op[m].pc # "register"
       /\ active' = active /\ filed' = filed
       /\ op'[m].pc \notin {"remove", "forget"}
  BY <1>1, <1>7
<1> QED
  BY <1>12, <1>13, <1>15, <1>16, <1>17, <1>18, AdminKeeps

LEMMA HandsTyped ==
    ASSUME AdminTypes, NEW m \in Admins
    PROVE  InHand(m) \subseteq Agents
<1>1. op[m].todo \subseteq Agents /\ op[m].left \subseteq Agents
      /\ op[m].agent \in Agents \cup {None}
  BY OpFields
<1>2. Mutates(m) => op[m].agent \in Agents
  BY DEF Mutates, AdminTypes
<1> QED
  BY <1>1, <1>2, Hands

\* A create, update or delete has the mutation lock and an agent in hand.
LEMMA LockKeeps ==
    ASSUME TurnInv, AdminInv, NEW m \in Admins, Lock(m)
    PROVE  TurnInv' /\ AdminInv'
<1>1. /\ op[m].pc = "lock" /\ MutexFree /\ Proceed(m, "check")
      /\ UNCHANGED <<agentVars, tools, turnVars, behind>>
      /\ crossed' = crossed \cup
                    (IF \E n \in Admins : Reloading(n) THEN {op[m].agent} ELSE {})
  BY DEF Lock, Cross
<1>2. /\ config' = config /\ filed' = filed /\ active' = active
      /\ pending' = pending /\ tools' = tools /\ behind' = behind
      /\ UNCHANGED turnVars
  BY <1>1 DEF agentVars
<1>3. /\ op' \in [Admins -> Op] /\ OthersSame(m)
      /\ op'[m].pc = "check" /\ Keeps(m)
  BY <1>1, ProceedFacts DEF AdminInv, Stages
<1>4. op[m].kind \in Mutators /\ op[m].agent \in Agents
  BY <1>1 DEF AdminInv, AdminTypes, Staged, StagedOf
<1>5. op'[m].kind \in Mutators /\ op'[m].agent = op[m].agent
  BY <1>3, <1>4 DEF Keeps
<1>6. \A n \in Admins : ~ Mutates(n)
  BY <1>1 DEF MutexFree
<1>7. ~ Reloading(m) /\ ~ Reloading(m)' /\ InHand(m) = {} /\ InHand(m)' = {op[m].agent}
  <2>1. ~ Reloading(m) /\ ~ Reloading(m)' /\ Mutates(m)'
    BY <1>1, <1>3, <1>5 DEF Reloading, Mutates
  <2> QED
    BY <1>5, <1>6, <2>1, Hands, HandsNext DEF AdminInv
<1>8. TurnInv'
  BY <1>2, <1>3, TurnsStep
<1>9. crossed \subseteq crossed' /\ crossed' \subseteq Agents
  BY <1>1, <1>4 DEF AdminInv, AdminTypes
<1>10. AdminTypes'
  BY <1>2, <1>3, <1>4, <1>5, <1>9, TypesStep DEF AdminInv, AdminTypes
<1>11. Staged'
  <2>1. StagedOf(m)'
    BY <1>3, <1>5, <1>7 DEF StagedOf
  <2> QED
    BY <1>3, <2>1, StagedStep DEF AdminInv
<1>12. \A n \in Admins : Mutates(n)' => n = m
  BY <1>3, <1>6, OthersHands
<1>13. \A n \in Admins : Reloading(n)' => n # m /\ Reloading(n) /\ InHand(n)' = InHand(n)
  BY <1>3, <1>7, OthersHands
<1>14. Exclusive'
  BY <1>12 DEF Exclusive
<1>15. CrossedKnown'
  <2>1. ASSUME NEW k \in Admins, NEW n \in Admins, Reloading(k)', Mutates(n)'
        PROVE  op'[n].agent \in crossed'
    BY <1>1, <1>5, <1>12, <1>13, <2>1
  <2>2. ASSUME NEW k \in Admins, NEW n \in Admins, Reloading(k)', Reloading(n)', k # n
        PROVE  InHand(k)' \subseteq crossed'
    BY <1>9, <1>13, <2>2 DEF AdminInv, CrossedKnown
  <2>3. ASSUME NEW k \in Admins, Reloading(k)'
        PROVE  pending' \subseteq crossed'
    BY <1>2, <1>9, <1>13, <2>3 DEF AdminInv, CrossedKnown
  <2> QED
    BY <2>1, <2>2, <2>3 DEF CrossedKnown
<1>16. ASSUME NEW a \in Agents \ crossed'
       PROVE  /\ TablesSame(a)
              /\ a \in InHand(m)' => Handled(m, a)'
  <2>1. TablesSame(a)
    BY <1>2 DEF TablesSame
  <2>2. ASSUME a = op[m].agent
        PROVE  Handled(m, a)'
    <3>1. \A n \in Admins : ~ Reloading(n)
      BY <1>1, <1>16, <2>2
    <3>2. \A n \in Admins : InHand(n) = {}
      BY <1>6, <3>1, Hands DEF AdminInv
    <3>3. Consistent(a)
      BY <1>9, <3>2 DEF AdminInv, HandsConsistent
    <3>4. Consistent(a)'
      BY <1>2, <3>3 DEF Consistent
    <3> QED
      BY <1>3, <3>4 DEF Handled
  <2> QED
    BY <1>7, <2>1, <2>2
<1>17. HandsConsistent'
  BY <1>3, <1>7, <1>9, <1>10, <1>14, <1>15, <1>16, HandsStep
<1>18. Listed'
  BY <1>1, <1>2, <1>3, ListedStep, ExposuresShrink DEF AdminInv
<1> QED
  BY <1>8, <1>10, <1>11, <1>14, <1>15, <1>17, <1>18 DEF AdminInv

\* A reload takes all pending agents in hand.
LEMMA DrainKeeps ==
    ASSUME TurnInv, AdminInv, NEW m \in Admins, NEW kind \in Reloaders, Drain(m, kind)
    PROVE  TurnInv' /\ AdminInv'
<1> DEFINE x == [Idle EXCEPT !.kind = kind, !.todo = pending, !.pc = "build"]
<1>1. /\ op[m] = Idle /\ op' = [op EXCEPT ![m] = x]
      /\ pending' = {} /\ crossed' = crossed \cup UNION {InHand(n) : n \in Admins}
      /\ UNCHANGED <<config, filed, active, tools, turnVars, behind>>
  BY DEF Drain, Cross
<1>2. pending \subseteq Agents /\ None \notin pending
  BY GatewayAgentsAssumption DEF AdminInv, AdminTypes
<1>3. /\ x \in Op /\ x.kind = kind /\ x.pc = "build" /\ x.agent = None
      /\ x.todo = pending /\ x.left = {}
  BY <1>2 DEF Op, Idle
<1> HIDE DEF x
<1>4. op' \in [Admins -> Op] /\ op'[m] = x /\ OthersSame(m)
  BY <1>1, <1>3, SetFacts DEF AdminInv
<1>5. kind \notin Mutators
  BY DEF Mutators, Reloaders
<1>6. ~ Mutates(m) /\ ~ Reloading(m) /\ op[m].pc = "idle"
  BY <1>1 DEF Mutates, Reloading, Idle
<1>7. ~ Mutates(m)' /\ Reloading(m)'
  BY <1>3, <1>4, <1>5 DEF Mutates, Reloading
<1>8. InHand(m) = {} /\ InHand(m)' = pending
  BY <1>3, <1>4, <1>6, <1>7, Hands, HandsNext DEF AdminInv
<1>9. crossed \subseteq crossed' /\ \A n \in Admins : InHand(n) \subseteq crossed'
  BY <1>1
<1>10. crossed' \subseteq Agents
  <2>1. \A n \in Admins : InHand(n) \subseteq Agents
    BY HandsTyped DEF AdminInv
  <2> QED
    BY <1>1, <2>1 DEF AdminInv, AdminTypes
<1>11. TurnInv'
  BY <1>1, <1>3, <1>4, TurnsStep
<1>12. AdminTypes'
  BY <1>1, <1>3, <1>4, <1>5, <1>10, TypesStep DEF AdminInv, AdminTypes
<1>13. Staged'
  <2>1. StagedOf(m)'
    BY <1>2, <1>3, <1>4, <1>5 DEF StagedOf, Mutators
  <2> QED
    BY <1>4, <2>1, StagedStep DEF AdminInv
<1>14. Exclusive'
  BY <1>4, <1>7, ExclusiveStep DEF AdminInv
<1>15. CrossedKnown'
  <2>1. ASSUME NEW k \in Admins, NEW n \in Admins, Reloading(k)', Mutates(n)'
        PROVE  op'[n].agent \in crossed'
    <3>1. n # m /\ Mutates(n) /\ op'[n].agent = op[n].agent
      BY <1>4, <1>7, <2>1, OthersHands DEF OthersSame
    <3>2. op[n].agent \in InHand(n)
      BY <3>1, Hands DEF AdminInv
    <3> QED
      BY <1>9, <3>1, <3>2
  <2>2. ASSUME NEW k \in Admins, NEW n \in Admins, Reloading(k)', Reloading(n)', k # n
        PROVE  InHand(k)' \subseteq crossed'
    <3>1. CASE k = m
      <4>1. Reloading(n)
        BY <1>4, <2>2, <3>1, OthersHands
      <4>2. pending \subseteq crossed
        BY <4>1 DEF AdminInv, CrossedKnown
      <4> QED
        BY <1>8, <1>9, <3>1, <4>2
    <3>2. CASE k # m
      BY <1>4, <1>9, <3>2, OthersHands
    <3> QED
      BY <3>1, <3>2
  <2>3. ASSUME NEW k \in Admins, Reloading(k)'
        PROVE  pending' \subseteq crossed'
    BY <1>1
  <2> QED
    BY <2>1, <2>2, <2>3 DEF CrossedKnown
<1>16. ASSUME NEW a \in Agents \ crossed'
       PROVE  /\ a \notin InHand(m)' => TablesSame(a)
              /\ a \in InHand(m)' => Handled(m, a)'
  <2>1. CASE a \notin pending
    BY <1>1, <1>8, <2>1 DEF TablesSame
  <2>2. CASE a \in pending
    <3>1. Consistent(a)
      BY <1>9, <1>16 DEF AdminInv, HandsConsistent
    <3>2. a \in config' /\ a \notin active' /\ a \notin pending'
      BY <1>1, <2>2, <3>1 DEF Consistent
    <3>3. op'[m].pc = "build" /\ op'[m].kind # "update"
      BY <1>3, <1>4 DEF Reloaders
    <3> QED
      BY <1>8, <2>2, <3>2, <3>3 DEF Handled
  <2> QED
    BY <2>1, <2>2
<1>17. HandsConsistent'
  BY <1>4, <1>8, <1>9, <1>12, <1>14, <1>15, <1>16, HandsStep
<1>18. Listed'
  BY <1>1, <1>4, <1>6, ListedStep, ExposuresShrink DEF AdminInv
<1> QED
  BY <1>11, <1>12, <1>13, <1>14, <1>15, <1>17, <1>18 DEF AdminInv

\* An agent becomes active: a create goes on to the tools, an update to
\* pending_agents, and a reload to the next agent.
LEMMA InsertOp ==
    ASSUME AdminInv, NEW m \in Admins, Insert(m)
    PROVE  /\ op[m].agent \in Agents /\ op[m].agent # None
           /\ op' \in [Admins -> Op] /\ OthersSame(m)
           /\ op'[m].kind = op[m].kind
           /\ op'[m].todo = op[m].todo /\ op'[m].left = op[m].left
           /\ \/ /\ op[m].kind = "create" /\ op'[m].pc = "expose"
                 /\ op'[m].agent = op[m].agent
              \/ /\ op[m].kind = "update" /\ op'[m].pc = "unpend"
                 /\ op'[m].agent = op[m].agent
              \/ /\ op[m].kind \in Reloaders /\ op'[m].pc = "build"
                 /\ op'[m].agent = None
<1>1. op[m].pc = "insert" /\ op[m].agent \in Agents
  BY DEF Insert, AdminInv, AdminTypes
<1>2. op[m].agent # None
  BY <1>1, GatewayAgentsAssumption
<1>3. op[m] \in Op /\ op \in [Admins -> Op]
  BY OpFields DEF AdminInv, AdminTypes
<1>4. CASE op[m].kind = "create"
  <2>1. Proceed(m, "expose")
    BY <1>4 DEF Insert, Proceed
  <2>2. "expose" \in Stages
    BY DEF Stages
  <2> QED
    BY <1>1, <1>2, <1>4, <2>1, <2>2, ProceedFacts DEF AdminInv, Keeps
<1>5. CASE op[m].kind = "update"
  <2>1. Proceed(m, "unpend")
    BY <1>5 DEF Insert, Proceed
  <2>2. "unpend" \in Stages
    BY DEF Stages
  <2> QED
    BY <1>1, <1>2, <1>5, <2>1, <2>2, ProceedFacts DEF AdminInv, Keeps
<1>6. CASE op[m].kind \in Reloaders
  <2> DEFINE x == [op[m] EXCEPT !.pc = "build", !.agent = None, !.created = TRUE]
  <2>1. op' = [op EXCEPT ![m].pc = "build", ![m].agent = None, ![m].created = TRUE]
    BY <1>6 DEF Insert, Reloaders
  <2>2. op' = [op EXCEPT ![m] = x]
    BY <1>3, <2>1
  <2>3. /\ x \in Op /\ x.kind = op[m].kind /\ x.pc = "build" /\ x.agent = None
        /\ x.todo = op[m].todo /\ x.left = op[m].left
    BY <1>3 DEF Op
  <2> HIDE DEF x
  <2>4. op' \in [Admins -> Op] /\ op'[m] = x /\ OthersSame(m)
    BY <2>2, <2>3, SetFacts DEF AdminInv
  <2> QED
    BY <1>1, <1>2, <1>6, <2>3, <2>4
<1>7. op[m].kind \in {"create", "update"} \cup Reloaders
  BY <1>1, OpFields DEF AdminInv, Staged, StagedOf, Mutators
<1> QED
  BY <1>4, <1>5, <1>6, <1>7

LEMMA InsertKeeps ==
    ASSUME TurnInv, AdminInv, NEW m \in Admins, Insert(m)
    PROVE  TurnInv' /\ AdminInv'
<1> DEFINE b == op[m].agent
<1>1. /\ op[m].pc = "insert" /\ AgentsWritable /\ active' = active \cup {b}
      /\ behind' = (behind \/ b \notin active)
      /\ UNCHANGED <<config, filed, pending, tools, turnVars, crossed>>
  BY DEF Insert
<1>2. /\ b \in Agents /\ b # None
      /\ op' \in [Admins -> Op] /\ OthersSame(m)
      /\ op'[m].kind = op[m].kind
      /\ op'[m].todo = op[m].todo /\ op'[m].left = op[m].left
      /\ \/ op[m].kind = "create" /\ op'[m].pc = "expose" /\ op'[m].agent = b
         \/ op[m].kind = "update" /\ op'[m].pc = "unpend" /\ op'[m].agent = b
         \/ op[m].kind \in Reloaders /\ op'[m].pc = "build" /\ op'[m].agent = None
  BY InsertOp
<1> HIDE DEF b
<1>3. b = op[m].agent
  BY DEF b
<1>4. op'[m].kind \in Mutators => op'[m].agent = b
  BY <1>2 DEF Mutators, Reloaders
<1>5. Reloading(m)' => /\ Reloading(m) /\ op'[m].pc = "build" /\ op'[m].agent = None
                       /\ op[m].todo \cap op[m].left = {}
                       /\ b \notin op[m].todo \cup op[m].left
  <2>1. ASSUME Reloading(m)'
        PROVE  Reloading(m) /\ op'[m].pc = "build" /\ op'[m].agent = None
    BY <1>1, <1>2, <2>1 DEF Reloading
  <2>2. Reloading(m) => /\ op[m].todo \cap op[m].left = {}
                        /\ b \notin op[m].todo \cup op[m].left
    BY <1>3 DEF AdminInv, Staged, StagedOf
  <2> QED
    BY <2>1, <2>2
<1>6. Mutates(m)' => Mutates(m) /\ op'[m].agent = b
  BY <1>1, <1>2, <1>4 DEF Mutates
<1>7. /\ Mutates(m) => InHand(m) = {b}
      /\ Reloading(m) => InHand(m) = op[m].todo \cup op[m].left \cup {b}
      /\ Reloading(m)' => InHand(m)' = op[m].todo \cup op[m].left
  BY <1>2, <1>3, <1>5, Hands, HandsNext DEF AdminInv
<1>8. Mutates(m) \/ Reloading(m)
  BY <1>1, OpFields DEF AdminInv, Mutates, Reloading
<1>9. b \in InHand(m)
  BY <1>7, <1>8
<1>10. TurnInv'
  BY <1>1, <1>2, TurnsStep
<1>11. AdminTypes'
  <2>1. behind' \in BOOLEAN
    BY <1>1
  <2> QED
    BY <1>1, <1>2, <1>4, <2>1, TypesStep DEF AdminInv, AdminTypes
<1>12. Staged'
  <2>1. StagedOf(m)'
    <3>1. Reloading(m)' => /\ op'[m].todo \cap op'[m].left = {}
                           /\ op'[m].agent \notin op'[m].todo \cup op'[m].left
                           /\ op'[m].pc = "build" => op'[m].agent = None
      BY <1>2, <1>5, GatewayAgentsAssumption, OpFields DEF AdminInv
    <3> QED
      BY <1>2, <3>1 DEF StagedOf, Reloaders, Mutators
  <2> QED
    BY <1>2, <2>1, StagedStep DEF AdminInv
<1>13. Exclusive'
  BY <1>2, <1>6, ExclusiveStep DEF AdminInv
<1>14. CrossedKnown'
  <2>1. Reloading(m)' => Reloading(m) /\ InHand(m)' \subseteq InHand(m)
    BY <1>5, <1>7
  <2>2. crossed \subseteq crossed' /\ pending' = pending
    BY <1>1
  <2> QED
    BY <1>2, <1>3, <1>6, <2>1, <2>2, CrossedStep DEF AdminInv
<1>15. ASSUME NEW a \in Agents \ crossed', a \in InHand(m)
       PROVE  /\ op[m].kind # "update" => a \notin pending
              /\ a \in config /\ (op[m].kind = "update" => Consistent(a))
              /\ op[m].kind # "update" => a \notin active
  <2>1. a \in Agents \ crossed
    BY <1>1, <1>15
  <2>2. Handled(m, a)
    BY <1>15, <2>1, HandledNow
  <2> QED
    BY <1>1, <2>2 DEF Handled
<1>16. ASSUME NEW a \in Agents \ crossed', a \notin InHand(m)
       PROVE  TablesSame(a)
  <2>1. a # b
    BY <1>9, <1>16
  <2> QED
    BY <1>1, <2>1 DEF TablesSame
<1>17. ASSUME NEW a \in Agents \ crossed', a \in InHand(m)'
       PROVE  Handled(m, a)'
  <2>1. CASE Reloading(m)'
    <3>1. a \in InHand(m) /\ a # b /\ op'[m].pc = "build" /\ op'[m].kind # "update"
      BY <1>2, <1>5, <1>7, <1>17, <2>1 DEF Reloading, Reloaders
    <3>2. a \in config' /\ a \notin active' /\ a \notin pending'
      BY <1>1, <1>2, <1>15, <3>1
    <3> QED
      BY <3>1, <3>2 DEF Handled
  <2>2. CASE ~ Reloading(m)'
    <3>1. Mutates(m)' /\ a = b
      BY <1>6, <1>17, <2>2, HandsNext
    <3>2. a \in InHand(m) /\ a \in config' /\ a \in active'
      BY <1>1, <1>9, <1>15, <1>17, <3>1
    <3>3. CASE op[m].kind = "update"
      <4>1. op'[m].pc = "unpend"
        BY <1>2, <3>3 DEF Reloaders
      <4> QED
        BY <3>2, <4>1 DEF Handled
    <3>4. CASE op[m].kind # "update"
      <4>1. op'[m].pc = "expose"
        BY <1>2, <1>6, <3>1, <3>4 DEF Mutates, Mutators, Reloaders
      <4>2. a \notin pending'
        BY <1>1, <1>15, <1>17, <3>2, <3>4
      <4> QED
        BY <3>2, <4>1, <4>2 DEF Handled
    <3> QED
      BY <3>3, <3>4
  <2> QED
    BY <2>1, <2>2
<1>18. ASSUME NEW a \in Agents \ crossed', a \in InHand(m), a \notin InHand(m)'
       PROVE  Consistent(a)'
  <2>1. ~ Mutates(m)'
    BY <1>6, <1>7, <1>18, HandsNext
  <2>2. /\ op[m].kind # "update" /\ op[m].kind \notin Mutators
        /\ op[m].kind \in Reloaders /\ op'[m].pc = "build"
    BY <1>2, <2>1 DEF Mutates, Mutators, Reloaders
  <2>3. Reloading(m)' /\ Reloading(m)
    BY <1>1, <1>2, <1>8, <2>2 DEF Mutates, Reloading
  <2>4. a = b
    BY <1>7, <1>18, <2>3
  <2>5. a \in config /\ a \notin pending
    BY <1>15, <1>18, <2>2
  <2> QED
    BY <1>1, <2>4, <2>5 DEF Consistent
<1>19. HandsConsistent'
  BY <1>1, <1>2, <1>11, <1>13, <1>14, <1>16, <1>17, <1>18, HandsStep
<1>20. Listed'
  <2>1. ASSUME ~ behind', NEW a \in Exposures'
        PROVE  a \in tools'
    <3>1. ~ behind /\ active' = active
      BY <1>1, <2>1
    <3>2. a \in Exposures
      BY <1>1, <2>1, <3>1 DEF Exposures
    <3> QED
      BY <1>1, <3>1, <3>2 DEF AdminInv, Listed, AgentsWritable
  <2> QED
    BY <2>1 DEF Listed
<1> QED
  BY <1>10, <1>11, <1>12, <1>13, <1>14, <1>19, <1>20 DEF AdminInv

\* The tools of the agents are being registered: the tables stay, and the
\* operation keeps what it has in hand or lets it go.
LEMMA RegisteringKeeps ==
    ASSUME TurnInv, AdminInv, NEW m \in Admins, op[m].pc \in {"expose", "register"},
           UNCHANGED <<agentVars, turnVars, crossed>>, behind' \in BOOLEAN,
           tools' \subseteq Agents, op' \in [Admins -> Op], OthersSame(m),
           \/ op'[m].kind = "reload" /\ op'[m].pc = "done"
           \/ Keeps(m) /\ op'[m].pc = "register",
           Listed'
    PROVE  TurnInv' /\ AdminInv'
<1>1. /\ config' = config /\ filed' = filed /\ active' = active
      /\ pending' = pending /\ crossed' = crossed /\ UNCHANGED turnVars
  BY DEF agentVars
<1>2. ~ Reloading(m) /\ ~ Reloading(m)'
  BY DEF Reloading
<1>3. Mutates(m)' => Mutates(m) /\ op'[m].agent = op[m].agent
  BY DEF Mutates, Keeps
<1>4. /\ Mutates(m) => InHand(m) = {op[m].agent}
      /\ ~ Mutates(m) => InHand(m) = {}
      /\ Mutates(m)' => InHand(m)' = {op[m].agent}
      /\ ~ Mutates(m)' => InHand(m)' = {}
  BY <1>2, <1>3, Hands, HandsNext DEF AdminInv
<1>5. TurnInv'
  BY <1>1, TurnsStep
<1>6. op'[m].kind \in Mutators \/ op'[m].pc \in {"proxies", "insert"}
          => op'[m].agent \in Agents
  BY DEF AdminInv, AdminTypes, Keeps, Mutators
<1>7. AdminTypes'
  BY <1>1, <1>6, TypesStep DEF AdminInv, AdminTypes
<1>8. Staged'
  <2>1. op[m].kind \notin {"update", "delete"}
    BY DEF AdminInv, Staged, StagedOf
  <2>2. StagedOf(m)'
    BY <1>2, <2>1 DEF StagedOf, Keeps
  <2> QED
    BY <2>2, StagedStep DEF AdminInv
<1>9. Exclusive'
  BY <1>3, ExclusiveStep DEF AdminInv
<1>10. CrossedKnown'
  BY <1>1, <1>2, <1>3, CrossedStep DEF AdminInv
<1>11. ASSUME NEW a \in Agents \ crossed'
       PROVE  TablesSame(a) /\ (Consistent(a)' <=> Consistent(a))
  BY <1>1 DEF TablesSame, Consistent
<1>12. ASSUME NEW a \in Agents \ crossed', a \in InHand(m)
       PROVE  a \in config \cap active /\ a \notin pending /\ Consistent(a)
  <2>1. Handled(m, a)
    BY <1>1, <1>12, HandledNow
  <2> QED
    BY <2>1 DEF Handled, Consistent
<1>13. ASSUME NEW a \in Agents \ crossed', a \in InHand(m)'
       PROVE  Handled(m, a)'
  <2>1. Mutates(m)' /\ a \in InHand(m)
    BY <1>3, <1>4, <1>13
  <2>2. op'[m].pc = "register"
    BY <2>1 DEF Mutates
  <2>3. a \in config' \cap active' /\ a \notin pending'
    BY <1>1, <1>12, <1>13, <2>1
  <2> QED
    BY <2>2, <2>3 DEF Handled
<1>14. HandsConsistent'
  BY <1>1, <1>7, <1>9, <1>10, <1>11, <1>12, <1>13, HandsStep
<1> QED
  BY <1>5, <1>7, <1>8, <1>9, <1>10, <1>14 DEF AdminInv

LEMMA ExposeKeeps ==
    ASSUME TurnInv, AdminInv, NEW m \in Admins, Expose(m)
    PROVE  TurnInv' /\ AdminInv'
<1>1. /\ op[m].pc = "expose" /\ behind' = FALSE
      /\ UNCHANGED <<agentVars, tools, turnVars, crossed>>
  BY DEF Expose
<1>2. Exposures' = Exposures /\ tools' \subseteq Agents /\ behind' \in BOOLEAN
  BY <1>1 DEF Exposures, agentVars, AdminInv, AdminTypes
<1>3. CASE Exposures = {} /\ End(m)
  <2>1. /\ op' \in [Admins -> Op] /\ OthersSame(m)
        /\ op'[m].kind = "reload" /\ op'[m].pc = "done"
    BY <1>3, EndFacts DEF AdminInv
  <2>2. Listed'
    BY <1>2, <1>3 DEF Listed
  <2> QED
    BY <1>1, <1>2, <2>1, <2>2, RegisteringKeeps
<1>4. CASE op' = [op EXCEPT ![m].todo = Exposures, ![m].pc = "register"]
  <2> DEFINE x == [op[m] EXCEPT !.todo = Exposures, !.pc = "register"]
  <2>1. op[m] \in Op /\ Exposures \subseteq Agents
    BY OpFields DEF AdminInv, AdminTypes, Exposures
  <2>2. /\ x \in Op /\ x.pc = "register" /\ x.kind = op[m].kind
        /\ x.agent = op[m].agent /\ x.created = op[m].created
        /\ x.todo = Exposures
    BY <2>1 DEF Op
  <2>3. op' = [op EXCEPT ![m] = x]
    BY <1>4 DEF AdminInv, AdminTypes
  <2> HIDE DEF x
  <2>4. op' \in [Admins -> Op] /\ op'[m] = x /\ OthersSame(m)
    BY <2>2, <2>3, SetFacts DEF AdminInv
  <2>5. Keeps(m) /\ op'[m].pc = "register" /\ op'[m].todo = Exposures
    BY <2>2, <2>4 DEF Keeps
  <2>6. Listed'
    BY <1>2, <2>5 DEF Listed
  <2> QED
    BY <1>1, <1>2, <2>4, <2>5, <2>6, RegisteringKeeps
<1> QED
  BY <1>3, <1>4 DEF Expose

LEMMA RegisterKeeps ==
    ASSUME TurnInv, AdminInv, NEW m \in Admins, Register(m)
    PROVE  TurnInv' /\ AdminInv'
<1>1. PICK a \in op[m].todo :
          /\ tools' = tools \cup {a}
          /\ IF op[m].todo = {a} THEN End(m)
             ELSE op' = [op EXCEPT ![m].todo = @ \ {a}]
  BY DEF Register
<1>2. /\ op[m].pc = "register"
      /\ UNCHANGED <<agentVars, turnVars, crossed, behind>>
  BY DEF Register
<1>3. op[m] \in Op /\ op[m].todo \subseteq Agents
  BY OpFields DEF AdminInv
<1>4. /\ Exposures' = Exposures /\ tools' \subseteq Agents
      /\ behind' \in BOOLEAN /\ behind' = behind
  BY <1>1, <1>2, <1>3 DEF Exposures, agentVars, AdminInv, AdminTypes
<1>5. /\ op' \in [Admins -> Op] /\ OthersSame(m)
      /\ \/ op[m].todo = {a} /\ op'[m].kind = "reload" /\ op'[m].pc = "done"
         \/ Keeps(m) /\ op'[m].pc = "register" /\ op'[m].todo = op[m].todo \ {a}
  <2>1. CASE op[m].todo = {a}
    BY <1>1, <2>1, EndFacts DEF AdminInv
  <2>2. CASE op[m].todo # {a}
    <3> DEFINE x == [op[m] EXCEPT !.todo = @ \ {a}]
    <3>1. /\ x \in Op /\ x.pc = op[m].pc /\ x.kind = op[m].kind
          /\ x.agent = op[m].agent /\ x.created = op[m].created
          /\ x.todo = op[m].todo \ {a}
      BY <1>3 DEF Op
    <3>2. op' = [op EXCEPT ![m] = x]
      BY <1>1, <2>2 DEF AdminInv, AdminTypes
    <3> HIDE DEF x
    <3>3. op' \in [Admins -> Op] /\ op'[m] = x /\ OthersSame(m)
      BY <3>1, <3>2, SetFacts DEF AdminInv
    <3> QED
      BY <1>2, <3>1, <3>3 DEF Keeps
  <2> QED
    BY <2>1, <2>2
<1>6. ASSUME ~ behind', NEW e \in Exposures', e \notin tools'
      PROVE  \E n \in Admins : op'[n].pc = "register" /\ e \in op'[n].todo
  <2>1. e \notin tools /\ e # a
    BY <1>1, <1>6
  <2>2. PICK n \in Admins : op[n].pc = "register" /\ e \in op[n].todo
    BY <1>4, <1>6, <2>1 DEF AdminInv, Listed
  <2>3. CASE n # m
    BY <1>5, <2>2, <2>3 DEF OthersSame
  <2>4. CASE n = m
    BY <1>5, <2>1, <2>2, <2>4
  <2> QED
    BY <2>3, <2>4
<1>7. Listed'
  BY <1>6 DEF Listed
<1> QED
  BY <1>2, <1>4, <1>5, <1>7, RegisteringKeeps

\* A deleted agent goes, and nobody is counted for it.
LEMMA RemoveKeeps ==
    ASSUME TurnInv, AdminInv, NEW m \in Admins, Remove(m)
    PROVE  TurnInv' /\ AdminInv'
<1> DEFINE b == op[m].agent
<1>1. /\ op[m].pc = "remove" /\ active' = active \ {b} /\ Proceed(m, "forget")
      /\ UNCHANGED <<config, filed, pending, tools, turnVars, crossed, behind>>
  BY DEF Remove
<1>2. op[m].kind = "delete"
  BY <1>1 DEF AdminInv, Staged, StagedOf
<1>3. Mutates(m) /\ "forget" \in Stages \ {"idle", "lock", "done"}
  BY <1>1, <1>2 DEF Mutates, Mutators, Stages
<1>4. /\ op' \in [Admins -> Op] /\ OthersSame(m)
      /\ op'[m].pc = "forget" /\ Keeps(m)
      /\ InHand(m) = {b} /\ InHand(m)' = {b}
      /\ ~ Reloading(m)' /\ TakesNothing(m)
      /\ StagedOf(m)' => Proper(m)
  BY <1>1, <1>3, MutationGoesOn
<1>5. op'[m].kind = "delete" /\ op'[m].agent = b
  BY <1>2, <1>4 DEF Keeps
<1>6. StagedOf(m)'
  BY <1>4, <1>5 DEF StagedOf
<1>7. ~ InFlight(b)
  BY <1>1 DEF TurnInv, DeletesAlone
<1>8. TurnInv'
  <2>1. \A a \in active : InFlight(a) => a \in active'
    BY <1>1, <1>7
  <2> QED
    BY <1>1, <1>4, <1>5, <2>1, TurnsStep
<1>9. AdminTypes'
  BY <1>1, <1>4, <1>6, TypesStep DEF AdminInv, AdminTypes, Proper
<1>10. Staged'
  BY <1>4, <1>6, StagedStep DEF AdminInv
<1>11. Exclusive'
  BY <1>4, ExclusiveStep DEF AdminInv, TakesNothing
<1>12. CrossedKnown'
  BY <1>1, <1>4, CrossedStep DEF AdminInv, TakesNothing
<1>13. ASSUME NEW a \in Agents \ crossed'
       PROVE  /\ a \notin InHand(m) => TablesSame(a)
              /\ a \in InHand(m)' => Handled(m, a)'
  <2>1. CASE a # b
    BY <1>1, <1>4, <2>1 DEF TablesSame
  <2>2. CASE a = b
    BY <1>1, <1>4, <2>2 DEF Handled
  <2> QED
    BY <2>1, <2>2
<1>14. HandsConsistent'
  BY <1>1, <1>4, <1>9, <1>11, <1>12, <1>13, HandsStep
<1>15. Listed'
  <2>1. Exposures' \subseteq Exposures
    BY <1>1, ExposuresShrink
  <2> QED
    BY <1>1, <1>4, <2>1, ListedStep DEF AdminInv
<1> QED
  BY <1>8, <1>9, <1>10, <1>11, <1>12, <1>14, <1>15 DEF AdminInv

-----------------------------------------------------------------------------
(* The theorems                                                            *)

LEMMA Initially ==
    ASSUME Init
    PROVE  IInv
<1> USE DEF Init
<1>1. \A r \in Requests, d \in Depths : turn[r][d] = NoFrame
  OBVIOUS
<1>2. \A r \in Requests, d \in Depths : turn[r][d].pc = "none"
  BY <1>1 DEF NoFrame
<1>3. \A m \in Admins : op[m] = Idle
  OBVIOUS
<1>4. \A m \in Admins : op[m].pc = "idle" /\ op[m].kind = "reload"
  BY <1>3 DEF Idle
<1>5. \A m \in Admins : ~ Mutates(m) /\ ~ Reloading(m)
  BY <1>4 DEF Mutates, Reloading
<1>6. \A m \in Admins : InHand(m) = {}
  BY <1>5 DEF InHand
<1>7. TurnTypes
  <2>1. NoFrame \in Frame
    BY DEF NoFrame, Frame
  <2>2. 0 \in 0..MaxCalls
    BY GatewayAgentsAssumption
  <2> QED
    BY <2>1, <2>2 DEF TurnTypes
<1>8. Stacked
  BY <1>2 DEF Stacked, InTurn
<1>9. DeletesAlone
  BY <1>4 DEF DeletesAlone
<1>10. CountedAgentsStay
  BY <1>2 DEF CountedAgentsStay, Guarded
<1>11. AdminTypes
  <2>1. Idle \in Op
    BY DEF Idle, Op, Reloaders
  <2>2. \A m \in Admins : op[m].kind \notin Mutators
    BY <1>4 DEF Mutators
  <2>3. tools \subseteq Agents
    BY DEF Exposures
  <2> QED
    BY <1>4, <2>1, <2>2, <2>3 DEF AdminTypes
<1>12. Staged
  BY <1>4, <1>5 DEF Staged, StagedOf
<1>13. Exclusive
  BY <1>5 DEF Exclusive
<1>14. CrossedKnown
  BY <1>5 DEF CrossedKnown
<1>15. HandsConsistent
  <2>1. \A a \in Agents : Consistent(a)
    BY DEF Consistent
  <2> QED
    BY <1>6, <2>1 DEF HandsConsistent
<1>16. Listed
  BY DEF Listed
<1> QED
  BY <1>7, <1>8, <1>9, <1>10, <1>11, <1>12, <1>13, <1>14, <1>15, <1>16, InvParts
     DEF TurnInv, AdminInv

\* A step of a message's turn, of its tools, or its arrival.
LEMMA TurnsKeep ==
    ASSUME TurnInv, AdminInv, NEW r \in Requests,
           \/ TurnStep(r) \/ TimeoutStep(r) \/ Abort(r)
           \/ \E d \in Depths : ToolEnds(r, d)
           \/ \E v \in Vias, a \in Agents : Arrive(r, v, a)
    PROVE  TurnInv' /\ AdminInv'
<1>1. CASE TurnStep(r)
  <2>1. PICK d \in Depths :
            \/ Enter(r, d) \/ LookUp(r, d) \/ List(r, d) \/ Answer(r, d)
            \/ Call(r, d) \/ RunTool(r, d)
            \/ \E b \in Agents : Delegate(r, d, b) \/ HandOff(r, d, b)
    BY <1>1 DEF TurnStep
  <2>2. TurnInv'
    <3>1. CASE Enter(r, d)
      BY <3>1, Enters
    <3>2. CASE LookUp(r, d) \/ Answer(r, d)
      BY <3>2, GoesOn, Returns
    <3>3. CASE List(r, d) \/ Call(r, d) \/ RunTool(r, d)
      BY <3>3, GoesOn
    <3>4. CASE \E b \in Agents : Delegate(r, d, b) \/ HandOff(r, d, b)
      BY <3>4, PassesOn
    <3> QED
      BY <2>1, <3>1, <3>2, <3>3, <3>4
  <2>3. UNCHANGED <<agentVars, tools, op, crossed, behind>>
    BY <2>1 DEF Enter, LookUp, List, Answer, Call, RunTool, Delegate, HandOff, OnlyTurns
  <2> QED
    BY <2>2, <2>3, AdminUnchanged
<1>2. CASE TimeoutStep(r)
  <2>1. PICK d \in Depths : Timeout(r, d)
    BY <1>2 DEF TimeoutStep
  <2>2. UNCHANGED <<agentVars, tools, op, crossed, behind>>
    BY <2>1 DEF Timeout, OnlyTurns
  <2> QED
    BY <2>1, <2>2, TimesOut, AdminUnchanged
<1>3. CASE Abort(r)
  <2>1. UNCHANGED <<agentVars, tools, op, crossed, behind>>
    BY <1>3 DEF Abort, OnlyTurns
  <2> QED
    BY <1>3, <2>1, Aborts, AdminUnchanged
<1>4. CASE \E d \in Depths : ToolEnds(r, d)
  <2>1. PICK d \in Depths : ToolEnds(r, d)
    BY <1>4
  <2>2. UNCHANGED <<agentVars, tools, op, crossed, behind>>
    BY <2>1 DEF ToolEnds, OnlyTurns
  <2> QED
    BY <2>1, <2>2, GoesOn, AdminUnchanged
<1>5. CASE \E v \in Vias, a \in Agents : Arrive(r, v, a)
  <2>1. PICK v \in Vias, a \in Agents : Arrive(r, v, a)
    BY <1>5
  <2>2. UNCHANGED <<agentVars, tools, op, crossed, behind>>
    BY <2>1 DEF Arrive
  <2> QED
    BY <2>1, <2>2, Arrives, AdminUnchanged
<1> QED
  BY <1>1, <1>2, <1>3, <1>4, <1>5

\* A step of a request of the administration.
LEMMA AdminKeepsAll ==
    ASSUME TurnInv, AdminInv, NEW m \in Admins,
           \/ AdminStep(m)
           \/ \E kind \in Mutators, a \in Agents : Ask(m, kind, a)
           \/ \E kind \in Reloaders : Drain(m, kind)
    PROVE  TurnInv' /\ AdminInv'
<1>1. CASE \E kind \in Mutators, a \in Agents : Ask(m, kind, a)
  BY <1>1, AskKeeps
<1>2. CASE \E kind \in Reloaders : Drain(m, kind)
  BY <1>2, DrainKeeps
<1>3. CASE Lock(m) \/ CheckCreate(m) \/ CheckUpdate(m) \/ CheckDelete(m)
  BY <1>3, LockKeeps, CheckCreateKeeps, CheckUpdateKeeps, CheckDeleteKeeps
<1>4. CASE \E a \in Agents : Build(m, a) \/ BuildFails(m, a)
  BY <1>4, BuildKeeps, BuildFailsKeeps
<1>5. CASE Proxies(m) \/ Insert(m) \/ Unpend(m) \/ Restore(m)
  BY <1>5, ProxiesKeeps, InsertKeeps, UnpendKeeps, RestoreKeeps
<1>6. CASE Expose(m) \/ Register(m) \/ Remove(m) \/ Forget(m)
  BY <1>6, ExposeKeeps, RegisterKeeps, RemoveKeeps, ForgetKeeps
<1> QED
  BY <1>1, <1>2, <1>3, <1>4, <1>5, <1>6 DEF AdminStep

LEMMA Stays ==
    ASSUME TurnInv, AdminInv, UNCHANGED vars
    PROVE  TurnInv' /\ AdminInv'
<1>1. /\ turn' = turn /\ calls' = calls /\ via' = via /\ op' = op /\ active' = active
      /\ UNCHANGED <<agentVars, tools, op, crossed, behind>>
  BY DEF vars, turnVars, agentVars
<1>2. TurnTypes' /\ Stacked'
  BY <1>1 DEF TurnInv, TurnTypes, Stacked, InTurn
<1>3. GuardsKept
  BY <1>1 DEF GuardsKept, Guarded, Nested
<1> QED
  BY <1>1, <1>2, <1>3, GuardsSuffice, AdminUnchanged DEF TurnInv

LEMMA Inductive == IInv /\ [Next]_vars => IInv'
<1> SUFFICES ASSUME IInv, [Next]_vars PROVE IInv'
  OBVIOUS
<1>1. TurnInv /\ AdminInv
  BY InvParts
<1>2. TurnInv' /\ AdminInv'
  BY <1>1, TurnsKeep, AdminKeepsAll, Stays DEF Next
<1> QED
  BY <1>2, InvParts, PTL

\* The inductive invariant holds in every reachable state: it is what the
\* operations on the agents may rely on at each of their stages.
THEOREM Invariance == Spec => []IInv
BY Initially, Inductive, PTL DEF Spec

\* Every variable has its type in every reachable state, for any agents,
\* messages and operations: frames are of known agents, and each operation that
\* makes or changes an agent has one in hand.
THEOREM TypeCorrect == Spec => []TypeOK
<1>1. IInv => TypeOK
  BY DEF IInv
<1> QED
  BY <1>1, Invariance, PTL

\* A turn that is counted as in flight runs on an agent that is still active,
\* whatever deletes race its start (handle_delete_agent's busy check under
\* agent_mutation_lock).
THEOREM CountedAgentsStayTheorem == Spec => []CountedAgentsStay
<1>1. IInv => CountedAgentsStay
  BY DEF IInv
<1> QED
  BY <1>1, Invariance, PTL

\* An agent that no reload crossed and nobody works on is configured exactly if
\* it is active or pending, and is not both (handle_create_agent,
\* handle_update_agent, handle_delete_agent and reload_agents).
THEOREM QuietAgentsConsistentTheorem == Spec => []QuietAgentsConsistent
<1>1. IInv => QuietAgentsConsistent
  BY DEF IInv, HandsConsistent, Consistent, QuietAgentsConsistent
<1> QED
  BY <1>1, Invariance, PTL

\* When nobody registers tools and no agent came in since the last time
\* somebody did, every exposed agent is a tool (register_agent_tools).
THEOREM ExposedAgentsListedTheorem == Spec => []ExposedAgentsListed
<1>1. IInv => ExposedAgentsListed
  BY DEF IInv, Listed, ExposedAgentsListed
<1> QED
  BY <1>1, Invariance, PTL

-----------------------------------------------------------------------------
(* Nobody waits in a circle                                                *)

\* The guards of TurnStep and AdminStep: what a message's turn, or an
\* operation, needs to go on by itself.
TurnGoes(r, d) ==
    \/ At(r, d, "lock") /\ MutexFree
    \/ At(r, d, "look") /\ AgentsReadable
    \/ At(r, d, "list") /\ RegistryReadable
    \/ At(r, d, "think")
    \/ At(r, d, "call") /\ RegistryReadable

AdminGoes(m) ==
    \/ op[m].pc = "lock" /\ MutexFree
    \/ op[m].pc = "check" /\ op[m].kind \in Mutators /\ AgentsReadable
    \/ op[m].pc = "build" /\ (\/ ToBuild(m) \cap Agents # {}
                              \/ op[m].kind \in Reloaders /\ op[m].todo = {})
    \/ op[m].pc = "expose" /\ AgentsReadable
    \/ op[m].pc = "proxies" /\ RegistryWritable
    \/ op[m].pc \in {"insert", "remove"} /\ AgentsWritable
    \/ op[m].pc \in {"unpend", "forget"}
    \/ op[m].pc = "register" /\ RegistryWritable /\ op[m].todo # {}

\* While a message or an operation is under way, one of them can go on, or
\* tool_timeout runs for a tool that holds the registry's read guard.
NoCircle ==
    (\/ \E r \in Requests : InTurn(r)
     \/ \E m \in Admins : op[m].pc \notin {"idle", "done"})
        => \/ \E r \in Requests, d \in Depths : TurnGoes(r, d)
           \/ \E m \in Admins : AdminGoes(m)
           \/ \E r \in Requests, d \in Depths : turn[r][d].pc \in {"tool", "agent"}

\* A turn has a frame that does not wait for the one above it, and an
\* operation that registers tools has one left to register.
Led == \A r \in Requests : InTurn(r) => \E d \in Depths : Running(r, d)

Busy == \A m \in Admins : op[m].pc = "register" => op[m].todo # {}

\* A delegation that waits has a topmost one above it.
LEMMA Topmost ==
    ASSUME NEW D \in SUBSET Depths, D # {}
    PROVE  \E d \in D : \A e \in D : e <= d
<1> DEFINE R == OpToRel(<, Nat)
           T == {MaxDepth - d : d \in D}
<1>1. \A x, y \in Nat : <<x, y>> \in R <=> x < y
  BY DEF OpToRel
<1>2. IsWellFoundedOn(R, Nat)
  BY NatLessThanWellFounded
<1>0. /\ \A d \in D : d \in Nat /\ MaxDepth - d \in Nat
      /\ MaxDepth \in Nat
  BY GatewayAgentsAssumption DEF Depths
<1>3. T \subseteq Nat /\ T # {}
  BY <1>0
<1> HIDE DEF R
<1>4. PICK x \in T : \A y \in T : ~ (<<y, x>> \in R)
  BY <1>2, <1>3, WFMin
<1>5. PICK d \in D : x = MaxDepth - d
  BY <1>4
<1>6. ASSUME NEW e \in D PROVE e <= d
  <2>1. ~ (MaxDepth - e < MaxDepth - d)
    BY <1>1, <1>3, <1>4, <1>5
  <2>2. e \in Nat /\ d \in Nat /\ MaxDepth \in Nat
    BY <1>0
  <2> QED
    BY <2>1, <2>2
<1> QED
  BY <1>6

\* A turn that goes on, passes on, returns or is cut off leaves its message
\* with such a frame, or with none.
LEMMA LedStep ==
    ASSUME TurnTypes, Stacked, Led, NEW r \in Requests,
           \/ TurnStep(r) \/ TimeoutStep(r) \/ Abort(r)
           \/ \E d \in Depths : ToolEnds(r, d)
           \/ \E v \in Vias, a \in Agents : Arrive(r, v, a)
    PROVE  Led'
<1>1. ASSUME NEW d \in Depths, Running(r, d)',
             \A q \in Requests, e \in Depths : q # r => turn'[q][e] = turn[q][e]
      PROVE  Led'
  BY <1>1 DEF Led, InTurn, Running
<1>2. ASSUME \A e \in Depths : turn'[r][e].pc = "none",
             \A q \in Requests, e \in Depths : q # r => turn'[q][e] = turn[q][e]
      PROVE  Led'
  BY <1>2 DEF Led, InTurn, Running
<1>3. ASSUME NEW d \in Depths, NEW pc \in {"look", "list", "think", "call", "tool"},
             GoTo(r, d, pc)
      PROVE  Led'
  <2>1. OnlyAt(r, d, [agent |-> turn[r][d].agent, pc |-> pc])
    BY <1>3, GoToFacts
  <2>2. Running(r, d)'
    BY <2>1 DEF OnlyAt, Running
  <2> QED
    BY <1>1, <2>1, <2>2 DEF OnlyAt
<1>4. ASSUME NEW d \in Depths, NEW b \in Agents, NEW pc \in {"agent", "handed"},
             NEW start \in {"lock", "look"}, d < MaxDepth, Push(r, d, pc, b, start)
      PROVE  Led'
  <2>1. d + 1 \in Depths /\ Pushed(r, d, pc, b, start)
    BY <1>4, PushFacts
  <2>2. Running(r, d + 1)'
    BY <2>1 DEF Pushed, Running
  <2> QED
    BY <1>1, <2>1, <2>2 DEF Pushed
<1>5. ASSUME Return(r) PROVE Led'
  <2>1. /\ \A q \in Requests : q # r => turn'[q] = turn[q]
        /\ \A e \in Depths :
               turn'[r][e] = IF \E d \in Depths : e < d /\ At(r, d, "agent")
                             THEN turn[r][e]
                             ELSE IF At(r, e, "agent")
                                  THEN [agent |-> turn[r][e].agent, pc |-> "think"]
                                  ELSE NoFrame
    BY <1>5, ReturnFacts
  <2> DEFINE D == {d \in Depths : At(r, d, "agent")}
  <2>2. CASE D = {}
    <3>1. \A e \in Depths : turn'[r][e] = NoFrame
      BY <2>1, <2>2
    <3> QED
      BY <1>2, <2>1, <3>1 DEF NoFrame
  <2>3. CASE D # {}
    <3>1. PICK d \in D : \A e \in D : e <= d
      BY <2>3, Topmost
    <3>2. ~ \E e \in Depths : d < e /\ At(r, e, "agent")
      BY <3>1, DepthsNat
    <3>3. turn'[r][d] = [agent |-> turn[r][d].agent, pc |-> "think"]
      BY <2>1, <3>1, <3>2
    <3>4. Running(r, d)'
      BY <3>3 DEF Running
    <3> QED
      BY <1>1, <2>1, <3>1, <3>4
  <2> QED
    BY <2>2, <2>3
<1>6. ASSUME NEW d \in Depths, Timeout(r, d) PROVE Led'
  <2>0. turn' = [turn EXCEPT ![r] = Resumed(r, d)] /\ ~ (d < d)
    BY <1>6, DepthsNat DEF Timeout
  <2>1. /\ \A q \in Requests : q # r => turn'[q] = turn[q]
        /\ turn'[r][d] = [agent |-> turn[r][d].agent, pc |-> "think"]
    BY <2>0, ResumedFacts
  <2>2. Running(r, d)'
    BY <2>1 DEF Running
  <2> QED
    BY <1>1, <2>1, <2>2
<1>7. CASE Abort(r)
  <2>1. turn' = [turn EXCEPT ![r] = Cleared]
    BY <1>7 DEF Abort
  <2>2. /\ turn'[r] = Cleared /\ \A q \in Requests : q # r => turn'[q] = turn[q]
    BY <2>1 DEF TurnTypes
  <2> QED
    BY <1>2, <2>2 DEF Cleared, NoFrame
<1>8. ASSUME NEW v \in Vias, NEW a \in Agents, Arrive(r, v, a) PROVE Led'
  <2> DEFINE f == [agent |-> a, pc |-> IF v = "ws" THEN "look" ELSE "lock"]
  <2>1. turn' = [turn EXCEPT ![r][0] = f] /\ 0 \in Depths
    BY <1>8, GatewayAgentsAssumption DEF Arrive, Depths
  <2>2. f.pc \in {"look", "lock"}
    OBVIOUS
  <2> HIDE DEF f
  <2>3. turn'[r][0] = f /\ \A q \in Requests : q # r => turn'[q] = turn[q]
    BY <2>1 DEF TurnTypes
  <2>4. Running(r, 0)'
    BY <2>2, <2>3 DEF Running
  <2> QED
    BY <1>1, <2>1, <2>3, <2>4
<1>9. CASE TurnStep(r)
  <2>1. PICK d \in Depths :
            \/ Enter(r, d) \/ LookUp(r, d) \/ List(r, d) \/ Answer(r, d)
            \/ Call(r, d) \/ RunTool(r, d)
            \/ \E b \in Agents : Delegate(r, d, b) \/ HandOff(r, d, b)
    BY <1>9 DEF TurnStep
  <2>2. CASE Enter(r, d) \/ List(r, d) \/ Call(r, d) \/ RunTool(r, d)
    BY <1>3, <2>2 DEF Enter, List, Call, RunTool
  <2>3. CASE LookUp(r, d) \/ Answer(r, d)
    BY <1>3, <1>5, <2>3 DEF LookUp, Answer
  <2>4. ASSUME NEW b \in Agents, Delegate(r, d, b) \/ HandOff(r, d, b)
        PROVE  Led'
    <3>1. d < MaxDepth
      BY <2>4 DEF Delegate, HandOff
    <3>2. PICK pc \in {"agent", "handed"}, start \in {"lock", "look"} :
              Push(r, d, pc, b, start)
      BY <2>4 DEF Delegate, HandOff
    <3> QED
      BY <1>4, <3>1, <3>2
  <2> QED
    BY <2>1, <2>2, <2>3, <2>4
<1>10. ASSUME NEW d \in Depths, ToolEnds(r, d) PROVE Led'
  BY <1>3, <1>10 DEF ToolEnds
<1> QED
  BY <1>6, <1>7, <1>8, <1>9, <1>10 DEF TimeoutStep

\* An operation comes to register tools with at least one, and leaves with the
\* last.
LEMMA BusyStep ==
    ASSUME AdminTypes, Busy, NEW m \in Admins,
           \/ AdminStep(m)
           \/ \E kind \in Mutators, a \in Agents : Ask(m, kind, a)
           \/ \E kind \in Reloaders : Drain(m, kind)
    PROVE  Busy'
<1>1. ASSUME NEW x, op' = [op EXCEPT ![m] = x], x.pc = "register" => x.todo # {}
      PROVE  Busy'
  <2>1. op'[m] = x /\ \A n \in Admins : n # m => op'[n] = op[n]
    BY <1>1 DEF AdminTypes
  <2> QED
    BY <1>1, <2>1 DEF Busy
<1>2. End(m) => Busy'
  <2>1. End(m) => op' = [op EXCEPT ![m] = [Idle EXCEPT !.pc = "done"]]
    BY DEF End
  <2>2. [Idle EXCEPT !.pc = "done"].pc = "done"
    BY DEF Idle
  <2> QED
    BY <1>1, <2>1, <2>2
<1>3. op[m] \in Op
  BY DEF AdminTypes
<1>4. ASSUME NEW pc \in Stages \ {"register"}, Proceed(m, pc) PROVE Busy'
  <2> DEFINE x == [op[m] EXCEPT !.pc = pc]
  <2>1. op' = [op EXCEPT ![m] = x] /\ x.pc = pc
    BY <1>3, <1>4 DEF Proceed, Op
  <2> HIDE DEF x
  <2> QED
    BY <1>1, <2>1
<1>5. CASE \/ Lock(m) \/ CheckCreate(m) \/ CheckUpdate(m) \/ CheckDelete(m)
           \/ Proxies(m) \/ Unpend(m) \/ Remove(m) \/ Forget(m)
  BY <1>2, <1>4, <1>5
     DEF Lock, CheckCreate, CheckUpdate, CheckDelete, Proxies, Unpend, Remove, Forget, Stages
<1>6. ASSUME NEW a \in Agents, Build(m, a) PROVE Busy'
  <2> DEFINE x == [op[m] EXCEPT !.agent = a, !.todo = @ \ {a},
                                !.pc = IF a \in WithMcp \cap filed THEN "proxies"
                                       ELSE "insert"]
  <2>1. op' = [op EXCEPT ![m] = x] /\ x.pc \in {"proxies", "insert"}
    BY <1>3, <1>6 DEF Build, Op
  <2> HIDE DEF x
  <2> QED
    BY <1>1, <2>1
<1>7. ASSUME NEW a \in Agents, BuildFails(m, a) PROVE Busy'
  <2>1. CASE op[m].kind \in Reloaders
    <3> DEFINE x == [op[m] EXCEPT !.todo = @ \ {a}, !.left = @ \cup {a}]
    <3>1. op' = [op EXCEPT ![m] = x] /\ x.pc = "build"
      BY <1>3, <1>7, <2>1 DEF BuildFails, Op
    <3> HIDE DEF x
    <3> QED
      BY <1>1, <3>1
  <2>2. CASE op[m].kind \notin Reloaders
    BY <1>2, <1>7, <2>2 DEF BuildFails
  <2> QED
    BY <2>1, <2>2
<1>8. CASE Insert(m)
  <2>1. PICK pc \in {"expose", "unpend", "build"} :
            \/ op' = [op EXCEPT ![m].pc = pc]
            \/ op' = [op EXCEPT ![m].pc = pc, ![m].agent = None, ![m].created = TRUE]
    BY <1>8 DEF Insert
  <2> DEFINE x == [op[m] EXCEPT !.pc = pc]
             y == [op[m] EXCEPT !.pc = pc, !.agent = None, !.created = TRUE]
  <2>2. op' = [op EXCEPT ![m] = x] \/ op' = [op EXCEPT ![m] = y]
    BY <2>1
  <2>3. x.pc # "register" /\ y.pc # "register"
    BY <1>3 DEF Op
  <2> HIDE DEF x, y
  <2> QED
    BY <1>1, <2>2, <2>3
<1>9. CASE Restore(m)
  <2>1. CASE op[m].created /\ op[m].kind = "reload"
    <3> DEFINE x == [op[m] EXCEPT !.left = {}, !.pc = "expose"]
    <3>1. op' = [op EXCEPT ![m] = x] /\ x.pc = "expose"
      BY <1>3, <1>9, <2>1 DEF Restore, Op
    <3> HIDE DEF x
    <3> QED
      BY <1>1, <3>1
  <2>2. CASE ~ (op[m].created /\ op[m].kind = "reload")
    BY <1>2, <1>9, <2>2 DEF Restore
  <2> QED
    BY <2>1, <2>2
<1>10. CASE Expose(m)
  <2>1. CASE Exposures = {}
    BY <1>2, <1>10, <2>1 DEF Expose
  <2>2. CASE Exposures # {}
    <3> DEFINE x == [op[m] EXCEPT !.todo = Exposures, !.pc = "register"]
    <3>1. op' = [op EXCEPT ![m] = x] /\ x.todo = Exposures
      BY <1>3, <1>10, <2>2 DEF Expose, Op
    <3> HIDE DEF x
    <3> QED
      BY <1>1, <2>2, <3>1
  <2> QED
    BY <2>1, <2>2
<1>11. CASE Register(m)
  <2>1. PICK a \in op[m].todo :
            IF op[m].todo = {a} THEN End(m)
            ELSE op' = [op EXCEPT ![m].todo = @ \ {a}]
    BY <1>11 DEF Register
  <2>2. CASE op[m].todo = {a}
    BY <1>2, <2>1, <2>2
  <2>3. CASE op[m].todo # {a}
    <3> DEFINE x == [op[m] EXCEPT !.todo = @ \ {a}]
    <3>1. op' = [op EXCEPT ![m] = x] /\ x.todo = op[m].todo \ {a}
      BY <1>3, <2>1, <2>3 DEF Op
    <3> HIDE DEF x
    <3> QED
      BY <1>1, <2>3, <3>1
  <2> QED
    BY <2>2, <2>3
<1>12. ASSUME NEW kind \in Mutators, NEW a \in Agents, Ask(m, kind, a) PROVE Busy'
  <2> DEFINE x == [Idle EXCEPT !.kind = kind, !.pc = "lock", !.agent = a]
  <2>1. op' = [op EXCEPT ![m] = x] /\ x.pc = "lock"
    BY <1>12 DEF Ask, Idle
  <2> HIDE DEF x
  <2> QED
    BY <1>1, <2>1
<1>13. ASSUME NEW kind \in Reloaders, Drain(m, kind) PROVE Busy'
  <2> DEFINE x == [Idle EXCEPT !.kind = kind, !.todo = pending, !.pc = "build"]
  <2>1. op' = [op EXCEPT ![m] = x] /\ x.pc = "build"
    BY <1>13 DEF Drain, Idle
  <2> HIDE DEF x
  <2> QED
    BY <1>1, <2>1
<1> QED
  BY <1>5, <1>6, <1>7, <1>8, <1>9, <1>10, <1>11, <1>12, <1>13 DEF AdminStep

LEMMA CircleStep == IInv /\ Led /\ Busy /\ [Next]_vars => Led' /\ Busy'
<1> SUFFICES ASSUME IInv, Led, Busy, [Next]_vars PROVE Led' /\ Busy'
  OBVIOUS
<1>1. TurnTypes /\ AdminTypes /\ Stacked
  BY TypeParts DEF IInv
<1>2. ASSUME NEW r \in Requests,
             \/ TurnStep(r) \/ TimeoutStep(r) \/ Abort(r)
             \/ \E d \in Depths : ToolEnds(r, d)
             \/ \E v \in Vias, a \in Agents : Arrive(r, v, a)
      PROVE  Led' /\ Busy'
  <2>1. op' = op
    BY <1>2 DEF TurnStep, TimeoutStep, Enter, LookUp, List, Answer, Call, RunTool,
                Delegate, HandOff, Timeout, Abort, ToolEnds, Arrive, OnlyTurns
  <2> QED
    BY <1>1, <1>2, <2>1, LedStep DEF Busy
<1>3. ASSUME NEW m \in Admins,
             \/ AdminStep(m)
             \/ \E kind \in Mutators, a \in Agents : Ask(m, kind, a)
             \/ \E kind \in Reloaders : Drain(m, kind)
      PROVE  Led' /\ Busy'
  <2>1. turn' = turn
    BY <1>3 DEF AdminStep, Lock, CheckCreate, CheckUpdate, CheckDelete, Build, BuildFails,
                Proxies, Insert, Unpend, Restore, Expose, Register, Remove, Forget, Ask,
                Drain, OnlyOps, turnVars
  <2> QED
    BY <1>1, <1>3, <2>1, BusyStep DEF Led, InTurn, Running
<1>4. CASE UNCHANGED vars
  BY <1>4 DEF vars, turnVars, Led, Busy, InTurn, Running
<1> QED
  BY <1>2, <1>3, <1>4 DEF Next

\* No circle of the mutation lock, the lock of agents and the one of the tool
\* registry holds the gateway up, for any agents, messages and operations:
\* while any of them is under way, one can go on at once, or a tool is being
\* executed under the registry's read guard, and that one has a timer.
THEOREM NoCircleTheorem == Spec => []NoCircle
<1>1. Init => Led /\ Busy
  BY DEF Init, Led, Busy, InTurn, Idle, NoFrame
<1>2. ASSUME IInv, Led, Busy PROVE NoCircle
  <2> SUFFICES ASSUME \A r \in Requests, d \in Depths :
                          ~ TurnGoes(r, d) /\ turn[r][d].pc \notin {"tool", "agent"},
                      \A m \in Admins : ~ AdminGoes(m)
               PROVE  /\ \A r \in Requests : ~ InTurn(r)
                      /\ \A m \in Admins : op[m].pc \in {"idle", "done"}
    BY DEF NoCircle
  <2>1. RegistryWritable
    BY DEF RegistryWritable
  <2>2. \A m \in Admins : op[m].pc \notin {"proxies", "register"}
    BY <1>2, <2>1 DEF AdminGoes, Busy
  <2>3. RegistryReadable /\ AgentsWritable
    BY <2>2 DEF RegistryReadable, AgentsWritable
  <2>4. \A m \in Admins : op[m].pc \notin {"insert", "remove"}
    BY <2>3 DEF AdminGoes
  <2>5. AgentsReadable
    BY <2>4 DEF AgentsReadable
  <2>6. \A m \in Admins : op[m].pc \notin {"check", "expose", "unpend", "forget", "build"}
    <3> TAKE m \in Admins
    <3>1. /\ op[m].kind \in Mutators \cup Reloaders /\ op[m].todo \subseteq Agents
          /\ op[m].kind \in Mutators => op[m].agent \in Agents
          /\ op[m].pc = "check" => op[m].kind \in Mutators
      BY <1>2, OpFields, TypeParts DEF IInv, AdminTypes, Staged, StagedOf
    <3>2. op[m].pc # "build"
      <4> SUFFICES ASSUME op[m].pc = "build"
                   PROVE  AdminGoes(m)
        OBVIOUS
      <4>2. CASE op[m].kind \in Mutators
        <5>1. ToBuild(m) = {op[m].agent}
          BY <4>2 DEF ToBuild
        <5>2. op[m].agent \in ToBuild(m) \cap Agents
          BY <3>1, <4>2, <5>1
        <5>3. ToBuild(m) \cap Agents # {}
          BY <5>2
        <5> QED
          BY <5>3 DEF AdminGoes
      <4>3. CASE op[m].kind \notin Mutators
        <5>1. ToBuild(m) = op[m].todo
          BY <4>3 DEF ToBuild
        <5>2. op[m].kind \in Reloaders
          BY <3>1, <4>3
        <5>3. ToBuild(m) \cap Agents # {} \/ op[m].todo = {}
          <6>1. op[m].todo \cap Agents = op[m].todo
            BY <3>1
          <6> QED
            BY <5>1, <6>1
        <5> QED
          BY <5>2, <5>3 DEF AdminGoes
      <4> QED
        BY <4>2, <4>3
    <3> QED
      BY <2>5, <3>1, <3>2 DEF AdminGoes
  <2>7. \A r \in Requests, d \in Depths : turn[r][d].pc \notin {"look", "list", "think", "call"}
    BY <2>3, <2>5 DEF TurnGoes, At
  <2>8. \A m \in Admins : op[m].pc \in {"idle", "lock", "done"}
    <3>1. \A m \in Admins : op[m].pc \in Stages
      BY <1>2, OpFields, TypeParts DEF IInv
    <3> QED
      BY <2>2, <2>4, <2>6, <3>1 DEF Stages
  <2>9. MutexFree
    BY <2>7, <2>8 DEF MutexFree, Mutates
  <2>10. \A r \in Requests, d \in Depths : ~ Running(r, d)
    <3>1. \A r \in Requests, d \in Depths :
              turn[r][d].pc \in {"none", "lock", "look", "list", "think", "call", "tool",
                                 "agent", "handed"}
      BY <1>2 DEF IInv, TypeOK, Frame
    <3> QED
      BY <2>7, <2>9, <3>1 DEF TurnGoes, At, Running
  <2> QED
    BY <1>2, <2>8, <2>9, <2>10 DEF Led, AdminGoes
<1> QED
  BY <1>1, <1>2, CircleStep, Invariance, PTL DEF Spec
=============================================================================
