---------------------------- MODULE GatewayAgents ----------------------------
(***************************************************************************)
(* The agents of the gateway (crates/rockbot-gateway/src/gateway.rs): the  *)
(* requests that create, update, delete and reload them, the turns that    *)
(* run on them, and the delegations from one agent to another              *)
(* (crates/rockbot-tools/src/lib.rs).                                      *)
(*                                                                         *)
(* Four locks tie them together.  None is a variable: who holds a lock is  *)
(* read off where each request stands.                                     *)
(*   - agent_mutation_lock, a mutex: held by a create, update or delete    *)
(*     from its start to its answer, by a turn while it looks its agent    *)
(*     up, and not at all by a reload.                                     *)
(*   - agents, a read-write lock: its read guard is kept by                *)
(*     register_agent_tools while it waits for the tool registry.          *)
(*   - the tool registry's read-write lock (one registry is shared by all  *)
(*     agents, crates/rockbot-cli/src/commands/gateway.rs): its read guard *)
(*     is kept by execute_tool while the tool, its approval, or the turn   *)
(*     of the agent it delegates to, is awaited.                           *)
(*   - pending_agents and agents_config: held within a step.               *)
(* tokio's locks let no reader pass a writer that waits.                   *)
(***************************************************************************)
EXTENDS Naturals, FiniteSets

CONSTANTS
    Agents,     \* agent ids
    Requests,   \* messages to agents, each of which starts one turn
    Admins,     \* clients that make one request of the administration each
    Exposed,    \* agents configured with expose_as_tool
    WithMcp,    \* agents configured with MCP servers
    MaxDepth,   \* MAX_DELEGATION_DEPTH
    MaxCalls,   \* bound on the tool calls of a message
    None        \* no agent

Depths == 0..MaxDepth

ASSUME GatewayAgentsAssumption ==
    /\ IsFiniteSet(Agents) /\ None \notin Agents
    /\ Exposed \subseteq Agents /\ WithMcp \subseteq Agents
    /\ MaxDepth \in Nat /\ MaxCalls \in Nat

VARIABLES
    config,     \* agents_config
    filed,      \* those of config that were not created by POST, which leaves
                \* expose_as_tool and mcp_servers out
    active,     \* agents
    pending,    \* pending_agents
    tools,      \* agents that are tools of the registry
    turn,       \* the turns of each message: one frame per delegation depth
    calls,      \* tool calls of each message so far
    via,        \* how each message arrived: by POST, cron or A2A ("http"), at
                \* the SSE endpoint ("stream") or over a WebSocket ("ws")
    op,         \* what each client of the administration is in the middle of
    crossed,    \* history: agents that an operation had in hand while a
                \*          reload overlapped with it
    behind      \* history: an agent became active and the agent tools were
                \*          not registered since

agentVars == <<config, filed, active, pending>>
turnVars == <<turn, calls, via>>
vars == <<agentVars, tools, turnVars, op, crossed, behind>>

-----------------------------------------------------------------------------
\* A turn: about to lock the mutation lock, about to read agents, about to
\* read the registry, with the model, about to run a tool, in a plain tool, in
\* a delegation, or handed off to the turn above it.
Frame == [agent : Agents \cup {None},
          pc : {"none", "lock", "look", "list", "think", "call", "tool",
                "agent", "handed"}]

Vias == {"http", "stream", "ws"}

NoFrame == [agent |-> None, pc |-> "none"]

Mutators == {"create", "update", "delete"}
Reloaders == {"reload", "slash"}

Op == [kind : Mutators \cup Reloaders,
       pc : {"idle", "lock", "check", "build", "proxies", "insert", "unpend",
             "remove", "forget", "expose", "register", "done"},
       agent : Agents \cup {None}, \* the agent it works on
       todo : SUBSET Agents,       \* drained and not built; to register
       left : SUBSET Agents,       \* still_pending
       created : BOOLEAN]          \* created > 0

Idle == [kind |-> "reload", pc |-> "idle", agent |-> None, todo |-> {},
         left |-> {}, created |-> FALSE]

InTurn(r) == \E d \in Depths : turn[r][d].pc # "none"

\* The frame was started by a delegation, or by a hand-off below one.
Nested(r, d) == \E e \in Depths : e < d /\ turn[r][e].pc = "agent"

\* The frame looks its agent up under the mutation lock: all do but the one
\* of a WebSocket message.
Locks(r, d) == Nested(r, d) \/ via[r] # "ws"

\* The frame keeps an AgentRequestGuard.  The one of the SSE endpoint is
\* dropped when the handler has started the stream.
Guarded(r, d) ==
    /\ turn[r][d].pc \notin {"none", "lock"}
    /\ \/ Nested(r, d)
       \/ via[r] = "http"
       \/ via[r] = "stream" /\ turn[r][d].pc = "look"

\* AgentRequestTracker::in_flight.
InFlight(a) == \E r \in Requests, d \in Depths :
                   turn[r][d].agent = a /\ Guarded(r, d)

\* The operation holds the mutation lock.
Mutates(m) ==
    /\ op[m].kind \in Mutators /\ op[m].pc \notin {"idle", "lock", "done"}

MutexFree ==
    /\ \A m \in Admins : ~ Mutates(m)
    /\ \A r \in Requests, d \in Depths :
           ~ (turn[r][d].pc = "look" /\ Locks(r, d))

\* No writer of agents waits, so a reader is let in; no reader of agents
\* keeps its guard, so a writer is.
AgentsReadable == \A m \in Admins : op[m].pc \notin {"insert", "remove"}
AgentsWritable == \A m \in Admins : op[m].pc # "register"

\* The same for the tool registry.
RegistryReadable == \A m \in Admins : op[m].pc \notin {"register", "proxies"}
RegistryWritable == \A r \in Requests, d \in Depths :
                        turn[r][d].pc \notin {"tool", "agent"}

\* A reload between its drain of pending_agents and its write of them.
Reloading(m) ==
    /\ op[m].kind \in Reloaders
    /\ op[m].pc \in {"build", "proxies", "insert"}

\* The agents an operation has taken from where they were, or changes.
InHand(m) ==
    IF Reloading(m) THEN op[m].todo \cup op[m].left \cup ({op[m].agent} \ {None})
    ELSE IF Mutates(m) THEN {op[m].agent} ELSE {}

\* The agents register_agent_tools registers: it adds a tool for each other
\* active agent, and all these share one registry.
Exposures == {a \in active \cap Exposed \cap filed : active # {a}}

TypeOK ==
    /\ config \subseteq Agents /\ filed \subseteq config
    /\ active \subseteq Agents /\ pending \subseteq Agents
    /\ tools \subseteq Agents
    /\ turn \in [Requests -> [Depths -> Frame]]
    /\ calls \in [Requests -> 0..MaxCalls]
    /\ via \in [Requests -> Vias \cup {"none"}]
    /\ op \in [Admins -> Op]
    /\ \A m \in Admins :
           op[m].kind \in Mutators \/ op[m].pc \in {"proxies", "insert"}
               => op[m].agent \in Agents
    /\ crossed \subseteq Agents /\ behind \in BOOLEAN

\* The gateway has been started: each configured agent is active, or pending
\* for want of its provider's key, and the agent tools are registered.
Init ==
    /\ active \in SUBSET Agents /\ pending \in SUBSET (Agents \ active)
    /\ config = active \cup pending
    /\ filed = config
    /\ tools = Exposures
    /\ turn = [r \in Requests |-> [d \in Depths |-> NoFrame]]
    /\ calls = [r \in Requests |-> 0]
    /\ via = [r \in Requests |-> "none"]
    /\ op = [m \in Admins |-> Idle]
    /\ crossed = {} /\ behind = FALSE

-----------------------------------------------------------------------------
(* Turns                                                                   *)

At(r, d, pc) == turn[r][d].pc = pc

\* The frame at depth d goes on at pc.
GoTo(r, d, pc) == turn' = [turn EXCEPT ![r][d].pc = pc]

\* The frame at depth d, now at pc, waits for a turn of agent b above it,
\* which starts at start.
Push(r, d, pc, b, start) ==
    turn' = [turn EXCEPT ![r][d].pc = pc,
                         ![r][d + 1] = [agent |-> b, pc |-> start]]

\* The turns above depth d are gone, and the frame at d is with the model.
Resumed(r, d) ==
    [e \in Depths |-> IF e < d THEN turn[r][e]
                      ELSE IF e = d THEN [turn[r][d] EXCEPT !.pc = "think"]
                      ELSE NoFrame]

Cleared == [e \in Depths |-> NoFrame]

\* The turn on top returns, and with it those that handed off to it: the
\* delegation below them, if there is one, has its result.
Return(r) ==
    turn' = [turn EXCEPT ![r] =
                [e \in Depths |->
                    IF \E d \in Depths : e < d /\ At(r, d, "agent")
                    THEN turn[r][e]
                    ELSE IF At(r, e, "agent")
                         THEN [turn[r][e] EXCEPT !.pc = "think"]
                         ELSE NoFrame]]

OnlyTurns == UNCHANGED <<agentVars, tools, via, op, crossed, behind>>

\* A message for agent a arrives: handle_agent_message_stream,
\* process_agent_message, execute_locally, or the WebSocket handler.
Arrive(r, v, a) ==
    /\ via[r] = "none"
    /\ via' = [via EXCEPT ![r] = v]
    /\ turn' = [turn EXCEPT ![r][0] =
                   [agent |-> a, pc |-> IF v = "ws" THEN "look" ELSE "lock"]]
    /\ UNCHANGED <<agentVars, tools, calls, op, crossed, behind>>

\* The frame locks agent_mutation_lock and counts itself (enter).
Enter(r, d) ==
    /\ At(r, d, "lock")
    /\ MutexFree
    /\ GoTo(r, d, "look")
    /\ UNCHANGED calls /\ OnlyTurns

\* The frame finds its agent, or fails.
LookUp(r, d) ==
    /\ At(r, d, "look")
    /\ AgentsReadable
    /\ IF turn[r][d].agent \in active THEN GoTo(r, d, "list") ELSE Return(r)
    /\ UNCHANGED calls /\ OnlyTurns

\* get_available_tools, get_tool_definitions.
List(r, d) ==
    /\ At(r, d, "list")
    /\ RegistryReadable
    /\ GoTo(r, d, "think")
    /\ UNCHANGED calls /\ OnlyTurns

\* The model answers.
Answer(r, d) ==
    /\ At(r, d, "think")
    /\ Return(r)
    /\ UNCHANGED calls /\ OnlyTurns

\* Mutant: max_tool_calls is not looked at.
CallUnlimited(r, d) ==
    /\ At(r, d, "think")
    /\ calls' = [calls EXCEPT ![r] = @ + 1]
    /\ GoTo(r, d, "call")
    /\ OnlyTurns

\* The model asks for a tool, which max_tool_calls allows, and the time the
\* tool is given starts to run.
Call(r, d) ==
    /\ At(r, d, "think")
    /\ calls[r] < MaxCalls
    /\ calls' = [calls EXCEPT ![r] = @ + 1]
    /\ GoTo(r, d, "call")
    /\ OnlyTurns

\* execute_tool takes the registry's read guard and runs a tool, or asks for
\* its approval: a plain one, one that refuses, or ...
RunTool(r, d) ==
    /\ At(r, d, "call")
    /\ RegistryReadable
    /\ GoTo(r, d, "tool")
    /\ UNCHANGED calls /\ OnlyTurns

\* ... invoke_agent or an agent's tool: a turn of another agent, or ...
Delegate(r, d, b) ==
    /\ At(r, d, "call")
    /\ RegistryReadable
    /\ d < MaxDepth /\ b # turn[r][d].agent
    /\ Push(r, d, "agent", b, "lock")
    /\ UNCHANGED calls /\ OnlyTurns

\* ... handoff, which ends the turn: whoever awaits it, a delegation or the
\* WebSocket handler, goes on with a turn of the other agent.
HandOff(r, d, b) ==
    /\ At(r, d, "call")
    /\ RegistryReadable
    /\ d < MaxDepth /\ b # turn[r][d].agent
    /\ Nested(r, d) \/ via[r] = "ws"
    /\ Push(r, d, "handed", b, IF Locks(r, d) THEN "lock" ELSE "look")
    /\ UNCHANGED calls /\ OnlyTurns

\* The tool returns: it may never do.
ToolEnds(r, d) ==
    /\ At(r, d, "tool")
    /\ GoTo(r, d, "think")
    /\ UNCHANGED calls /\ OnlyTurns

\* Mutant: only the wait for a tool is limited, not the one for an agent.
TimeoutOfTool(r, d) ==
    /\ turn[r][d].pc \in {"call", "tool"}
    /\ turn' = [turn EXCEPT ![r] = Resumed(r, d)]
    /\ UNCHANGED calls /\ OnlyTurns

\* tool_timeout: the future of the tool is dropped, wherever it waits, and
\* with it the turns it started, their guards and their locks.
Timeout(r, d) ==
    /\ turn[r][d].pc \in {"call", "tool", "agent"}
    /\ turn' = [turn EXCEPT ![r] = Resumed(r, d)]
    /\ UNCHANGED calls /\ OnlyTurns

\* The client of the stream is gone, and the task of the turn is aborted.
Abort(r) ==
    /\ via[r] = "stream"
    /\ InTurn(r) /\ turn[r][0].pc \notin {"lock", "look"}
    /\ turn' = [turn EXCEPT ![r] = Cleared]
    /\ UNCHANGED calls /\ OnlyTurns

-----------------------------------------------------------------------------
(* Administration                                                          *)

Proceed(m, pc) == op' = [op EXCEPT ![m].pc = pc]

\* The request is answered.
End(m) == op' = [op EXCEPT ![m] = [Idle EXCEPT !.pc = "done"]]

\* The agents S are in two hands at once, one of which reloads.
Cross(S) == crossed' = crossed \cup S

OnlyOps == UNCHANGED <<agentVars, tools, turnVars, crossed, behind>>

\* A client sends POST, PUT or DELETE for agent a.
Ask(m, kind, a) ==
    /\ op[m] = Idle
    /\ op' = [op EXCEPT ![m] = [Idle EXCEPT !.kind = kind, !.pc = "lock",
                                            !.agent = a]]
    /\ OnlyOps

\* It locks agent_mutation_lock.
Lock(m) ==
    /\ op[m].pc = "lock"
    /\ MutexFree
    /\ Proceed(m, "check")
    /\ Cross(IF \E n \in Admins : Reloading(n) THEN {op[m].agent} ELSE {})
    /\ UNCHANGED <<agentVars, tools, turnVars, behind>>

\* handle_create_agent refuses an id in use, and fails when the store does.
CheckCreate(m) ==
    /\ op[m].pc = "check" /\ op[m].kind = "create"
    /\ AgentsReadable
    /\ \/ /\ End(m) /\ UNCHANGED config
       \/ /\ op[m].agent \notin config \cup active \cup pending
          /\ config' = config \cup {op[m].agent}
          /\ Proceed(m, "build")
    /\ UNCHANGED <<filed, active, pending, tools, turnVars, crossed, behind>>

\* handle_update_agent refuses an agent that has no configuration or is
\* neither active nor pending, and fails when the store does.
CheckUpdate(m) ==
    /\ op[m].pc = "check" /\ op[m].kind = "update"
    /\ AgentsReadable
    /\ \/ End(m)
       \/ /\ op[m].agent \in config /\ op[m].agent \in active \cup pending
          /\ Proceed(m, "build")
    /\ OnlyOps

\* Mutant: the requests in flight are not looked at.
CheckDeleteAlways(m) ==
    /\ op[m].pc = "check" /\ op[m].kind = "delete"
    /\ AgentsReadable
    /\ End(m) \/ Proceed(m, "remove")
    /\ OnlyOps

\* handle_delete_agent refuses an agent that is busy, and fails when the store
\* does.
CheckDelete(m) ==
    /\ op[m].pc = "check" /\ op[m].kind = "delete"
    /\ AgentsReadable
    /\ \/ End(m)
       \/ ~ InFlight(op[m].agent) /\ Proceed(m, "remove")
    /\ OnlyOps

\* reload_agents drains pending_agents.
Drain(m, kind) ==
    /\ op[m] = Idle
    /\ op' = [op EXCEPT ![m] = [Idle EXCEPT !.kind = kind, !.todo = pending,
                                            !.pc = "build"]]
    /\ pending' = {}
    /\ Cross(UNION {InHand(n) : n \in Admins})
    /\ UNCHANGED <<config, filed, active, tools, turnVars, behind>>

\* The agent m builds next: the one it is about, or any of those it drained.
ToBuild(m) == IF op[m].kind \in Mutators THEN {op[m].agent} ELSE op[m].todo

\* The factory makes agent a; if its configuration lists MCP servers, their
\* tools are to be registered first.
Build(m, a) ==
    /\ op[m].pc = "build" /\ a \in ToBuild(m)
    /\ op' = [op EXCEPT ![m].agent = a, ![m].todo = @ \ {a},
                        ![m].pc = IF a \in WithMcp \cap filed THEN "proxies"
                                  ELSE "insert"]
    /\ OnlyOps

\* Mutant: a created agent that cannot be built yet is forgotten.
BuildFailsForGood(m, a) ==
    /\ op[m].pc = "build" /\ a \in ToBuild(m)
    /\ IF op[m].kind \in Reloaders
       THEN op' = [op EXCEPT ![m].todo = @ \ {a}, ![m].left = @ \cup {a}]
       ELSE End(m)
    /\ UNCHANGED <<agentVars, tools, turnVars, crossed, behind>>

\* The factory fails: a created agent is pending, a drained one still is, and
\* an update leaves things as they were.
BuildFails(m, a) ==
    /\ op[m].pc = "build" /\ a \in ToBuild(m)
    /\ IF op[m].kind \in Reloaders
       THEN op' = [op EXCEPT ![m].todo = @ \ {a}, ![m].left = @ \cup {a}]
       ELSE End(m)
    /\ pending' = IF op[m].kind = "create" THEN pending \cup {a} ELSE pending
    /\ UNCHANGED <<config, filed, active, tools, turnVars, crossed, behind>>

\* The proxies of the MCP servers' tools are registered.
Proxies(m) ==
    /\ op[m].pc = "proxies"
    /\ RegistryWritable
    /\ Proceed(m, "insert")
    /\ OnlyOps

\* The agent is inserted in agents.
Insert(m) ==
    /\ op[m].pc = "insert"
    /\ AgentsWritable
    /\ active' = active \cup {op[m].agent}
    /\ behind' = (behind \/ op[m].agent \notin active)
    /\ op' = CASE op[m].kind = "create" -> [op EXCEPT ![m].pc = "expose"]
               [] op[m].kind = "update" -> [op EXCEPT ![m].pc = "unpend"]
               [] OTHER -> [op EXCEPT ![m].pc = "build", ![m].agent = None,
                                      ![m].created = TRUE]
    /\ UNCHANGED <<config, filed, pending, tools, turnVars, crossed>>

\* handle_update_agent drops the agent from pending_agents.
Unpend(m) ==
    /\ op[m].pc = "unpend"
    /\ pending' = pending \ {op[m].agent}
    /\ End(m)
    /\ UNCHANGED <<config, filed, active, tools, turnVars, crossed, behind>>

\* reload_agents puts what is still pending in the place of pending_agents.
\* POST /api/gateway/reload registers the agent tools then; the command
\* /gateway reload does not.
Restore(m) ==
    /\ op[m].kind \in Reloaders /\ op[m].pc = "build" /\ op[m].todo = {}
    /\ pending' = op[m].left
    /\ IF op[m].created /\ op[m].kind = "reload"
       THEN op' = [op EXCEPT ![m].left = {}, ![m].pc = "expose"]
       ELSE End(m)
    /\ UNCHANGED <<config, filed, active, tools, turnVars, crossed, behind>>

\* Mutant: the tools of the agents are taken to be registered.
ExposeNothing(m) ==
    /\ op[m].pc = "expose"
    /\ AgentsReadable
    /\ End(m)
    /\ behind' = FALSE
    /\ UNCHANGED <<agentVars, tools, turnVars, crossed>>

\* register_agent_tools takes agents' read guard and collects the exposures.
Expose(m) ==
    /\ op[m].pc = "expose"
    /\ AgentsReadable
    /\ IF Exposures = {} THEN End(m)
       ELSE op' = [op EXCEPT ![m].todo = Exposures, ![m].pc = "register"]
    /\ behind' = FALSE
    /\ UNCHANGED <<agentVars, tools, turnVars, crossed>>

\* It registers them one by one, as the registry's write lock is had.
Register(m) ==
    /\ op[m].pc = "register"
    /\ RegistryWritable
    /\ \E a \in op[m].todo :
           /\ tools' = tools \cup {a}
           /\ IF op[m].todo = {a} THEN End(m)
              ELSE op' = [op EXCEPT ![m].todo = @ \ {a}]
    /\ UNCHANGED <<agentVars, turnVars, crossed, behind>>

\* handle_delete_agent drops the agent from agents ...
Remove(m) ==
    /\ op[m].pc = "remove"
    /\ AgentsWritable
    /\ active' = active \ {op[m].agent}
    /\ Proceed(m, "forget")
    /\ UNCHANGED <<config, filed, pending, tools, turnVars, crossed, behind>>

\* ... and then from pending_agents and agents_config.
Forget(m) ==
    /\ op[m].pc = "forget"
    /\ pending' = pending \ {op[m].agent}
    /\ config' = config \ {op[m].agent}
    /\ filed' = filed \ {op[m].agent}
    /\ End(m)
    /\ UNCHANGED <<active, tools, turnVars, crossed, behind>>

-----------------------------------------------------------------------------
\* What the gateway does by itself with a message, and with a request of the
\* administration.
TurnStep(r) == \E d \in Depths :
    \/ Enter(r, d) \/ LookUp(r, d) \/ List(r, d) \/ Answer(r, d) \/ Call(r, d)
    \/ RunTool(r, d)
    \/ \E b \in Agents : Delegate(r, d, b) \/ HandOff(r, d, b)

TimeoutStep(r) == \E d \in Depths : Timeout(r, d)

AdminStep(m) ==
    \/ Lock(m) \/ CheckCreate(m) \/ CheckUpdate(m) \/ CheckDelete(m)
    \/ \E a \in Agents : Build(m, a) \/ BuildFails(m, a)
    \/ Proxies(m) \/ Insert(m) \/ Unpend(m) \/ Restore(m)
    \/ Expose(m) \/ Register(m) \/ Remove(m) \/ Forget(m)

Next ==
    \/ \E r \in Requests :
           \/ TurnStep(r) \/ TimeoutStep(r) \/ Abort(r)
           \/ \E d \in Depths : ToolEnds(r, d)
           \/ \E v \in Vias, a \in Agents : Arrive(r, v, a)
    \/ \E m \in Admins :
           \/ AdminStep(m)
           \/ \E kind \in Mutators, a \in Agents : Ask(m, kind, a)
           \/ \E kind \in Reloaders : Drain(m, kind)

Spec == Init /\ [][Next]_vars

\* Tasks that can go on do so, the model answers or asks for a tool within
\* llm_timeout, and timers fire; a tool need not end.
FairSpec ==
    /\ Spec
    /\ \A r \in Requests : WF_vars(TurnStep(r)) /\ WF_vars(TimeoutStep(r))
    /\ \A m \in Admins : WF_vars(AdminStep(m))

-----------------------------------------------------------------------------
(* Properties                                                              *)

\* A turn that keeps a request guard runs on an agent that is still there:
\* neither a DELETE that checked in_flight before it came, nor one that waited
\* while it was looked up, removes the agent (handle_delete_agent).
CountedAgentsStay ==
    \A r \in Requests, d \in Depths :
        Guarded(r, d) /\ turn[r][d].pc # "look" => turn[r][d].agent \in active

\* An agent has a configuration exactly if it is active or pending, and is not
\* both: POST can create it if it has none, PUT and DELETE find it if it has.
\* Only a reload that overlaps with another operation on the agent, or with
\* another reload, can break that (reload_agents takes no mutation lock).
QuietAgentsConsistent ==
    \A a \in Agents \ crossed :
        (\A m \in Admins : a \notin InHand(m))
            => /\ a \in config <=> a \in active \cup pending
               /\ ~ (a \in active /\ a \in pending)

\* Once a POST or a reload over HTTP has run its course, every active agent
\* with expose_as_tool is a tool for the others, however other requests
\* interleaved with it; an agent that a PUT or the command /gateway reload made
\* active is one from the next such registration (register_agent_tools).
ExposedAgentsListed ==
    ~ behind /\ (\A m \in Admins : op[m].pc # "register")
        => Exposures \subseteq tools

\* Every message and every request of the administration is answered, though a
\* tool may hang with the registry's read guard, a create or reload wait for
\* its write lock with the mutation lock or agents' read guard, and the turn
\* the tool waits for in turn wait for those: tool_timeout breaks that circle.
AllReturn ==
    /\ \A r \in Requests : []<>(~ InTurn(r))
    /\ \A m \in Admins : []<>(op[m].pc \in {"idle", "done"})
=============================================================================
