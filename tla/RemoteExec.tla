----------------------------- MODULE RemoteExec -----------------------------
(***************************************************************************)
(* The remote executor registry of rockbot-client (remote_exec.rs), the    *)
(* websocket handlers of the gateway that register, remove and feed it,    *)
(* and the agent's tool call that goes through it.                         *)
(*                                                                         *)
(* Each text frame of a connection is handled by a task of its own, so a   *)
(* handler may run long after the frame was read, and after the connection *)
(* was closed.  A dispatch holds the read guard of `sessions` while it     *)
(* waits for its executor; register and remove need the write guard, and   *)
(* the tokio lock serves its waiters in order of arrival (`lockq`).        *)
(***************************************************************************)
EXTENDS Naturals, Sequences, FiniteSets

CONSTANTS
    Conns,        \* websocket connections (a conn_id is never used again)
    Client,       \* the client at the other end, who may reconnect
    Tui,          \* those whose capabilities say client_type = "tui"
    Calls,        \* tool calls of agents; each dispatch draws a fresh request id
    Target,       \* the executor a call names, or Anyone
    Anyone,
    Capable,      \* the connections that can execute the tool of a call
    Strict,       \* calls with remote_executor_strict
    Streaming,    \* calls whose caller has a progress channel
    MaxChunks     \* bound: output frames an executor sends for one call

ASSUME ConnsAssumption == Tui \subseteq Conns /\ Anyone \notin Conns
ASSUME CallsAssumption ==
    /\ Target \in [Calls -> Conns \union {Anyone}]
    /\ Capable \in [Calls -> SUBSET Conns]
    /\ Streaming \subseteq Calls
    /\ Strict \subseteq {k \in Calls : Target[k] # Anyone}
ASSUME BoundAssumption == MaxChunks \in Nat

VARIABLES
    conn,         \* the life of a connection, up to the end of its cleanup
    noise,        \* how far the noise handshake of a connection got
    caps,         \* what became of its remote_capabilities frame
    handshakes,   \* NOISE_HANDSHAKE_STATES
    transports,   \* NOISE_TRANSPORT_STATES
    sessions,     \* RemoteExecutorRegistry.sessions
    lockq,        \* who waits for the lock of sessions, in order
    readers,      \* the dispatches that hold its read guard
    forwarder,    \* the task between a session's tool_tx and its connection
    toolq,        \* what is in that channel
    pc, dest,     \* where a call stands, and the executor it chose
    pending,      \* RemoteExecutorRegistry.pending, by call
    answered,     \* the oneshot of a call holds a response
    cleanup,      \* the task of schedule_pending_cleanup
    exec,         \* what the executor has done about a call
    sent, inflight, queued, \* output frames: sent; in handler tasks; in output_tx
    shown,        \* output frames passed on as progress events
    ran,          \* history: where the tool of a call ran
    result        \* what the caller was told

connVars == <<conn, noise, caps, handshakes, transports>>
lockVars == <<sessions, lockq, readers>>
chanVars == <<forwarder, toolq>>
outVars  == <<sent, inflight, queued, shown>>
callVars == <<pc, dest, pending, answered, cleanup, result>>
vars == <<connVars, lockVars, chanVars, callVars, exec, outVars, ran>>

Register(c) == <<"register", c>>
Remove(c)   == <<"remove", c>>
Read(k)     == <<"read", k>>
Waiter == {"register", "remove"} \X Conns \union {"read"} \X Calls

TypeOK ==
    /\ conn \in [Conns -> {"new", "open", "closing", "removing", "clearing", "gone"}]
    /\ noise \in [Conns -> {"idle", "hello", "replied", "finish", "ready", "failed"}]
    /\ caps \in [Conns -> {"none", "sent", "queued", "registered", "refused"}]
    /\ handshakes \subseteq Conns /\ transports \subseteq Conns /\ sessions \subseteq Conns
    /\ lockq \in Seq(Waiter) /\ readers \subseteq Calls
    /\ forwarder \in [Conns -> {"none", "running", "stopped"}]
    /\ toolq \in [Conns -> Seq(Calls)]
    /\ pc \in [Calls -> {"idle", "check", "find", "get", "wait", "expired",
                         "drain", "local", "done"}]
    /\ dest \in [Calls -> Conns \union {Anyone}]
    /\ pending \in [Calls -> {"none", "waiting", "taken"}]
    /\ answered \in [Calls -> BOOLEAN]
    /\ cleanup \in [Calls -> {"none", "sleeping", "done"}]
    /\ exec \in [Calls -> {"none", "running", "responding", "finished"}]
    /\ sent \in [Calls -> 0..MaxChunks]
    /\ inflight \in [Calls -> Nat] /\ queued \in [Calls -> Nat] /\ shown \in [Calls -> Nat]
    /\ ran \in [Calls -> SUBSET {"remote", "local"}]
    /\ result \in [Calls -> {"none", "remote", "local", "unavailable"}]

Init ==
    /\ conn = [c \in Conns |-> "new"] /\ noise = [c \in Conns |-> "idle"]
    /\ caps = [c \in Conns |-> "none"] /\ handshakes = {} /\ transports = {} /\ sessions = {}
    /\ lockq = <<>> /\ readers = {}
    /\ forwarder = [c \in Conns |-> "none"] /\ toolq = [c \in Conns |-> <<>>]
    /\ pc = [k \in Calls |-> "idle"] /\ dest = [k \in Calls |-> Anyone]
    /\ pending = [k \in Calls |-> "none"] /\ answered = [k \in Calls |-> FALSE]
    /\ cleanup = [k \in Calls |-> "none"] /\ exec = [k \in Calls |-> "none"]
    /\ sent = [k \in Calls |-> 0] /\ inflight = [k \in Calls |-> 0]
    /\ queued = [k \in Calls |-> 0] /\ shown = [k \in Calls |-> 0]
    /\ ran = [k \in Calls |-> {}] /\ result = [k \in Calls |-> "none"]

-----------------------------------------------------------------------------
(* The lock of `sessions`.  A writer keeps its guard for one insert or     *)
(* remove, so only the readers' guards are state.                          *)

AtHead(w) == lockq # <<>> /\ Head(lockq) = w
\* Mutant: the write guard is granted in spite of the dispatches in progress.
MutWriteGranted(w) == AtHead(w)

WriteGranted(w) == AtHead(w) /\ readers = {}
ReadGranted(k) == AtHead(Read(k))

-----------------------------------------------------------------------------
(* A connection: the client's side of the handshake, the handler tasks of  *)
(* its frames, and the cleanup when it closes.                             *)

Connect(c) ==
    /\ conn[c] = "new"
    /\ conn' = [conn EXCEPT ![c] = "open"]
    /\ UNCHANGED <<noise, caps, handshakes, transports, lockVars, chanVars, callVars, exec, outVars, ran>>

\* The client sends step 1, and step 3 when the answer to it has come; the
\* reader loop spawns a handler for each.
SendHandshake(c) ==
    /\ conn[c] = "open"
    /\ \E step \in {<<"idle", "hello">>, <<"replied", "finish">>} :
          noise[c] = step[1] /\ noise' = [noise EXCEPT ![c] = step[2]]
    /\ UNCHANGED <<conn, caps, handshakes, transports, lockVars, chanVars, callVars, exec, outVars, ran>>

\* It sends its capabilities right behind step 3, with no wait for an answer.
SendCaps(c) ==
    /\ conn[c] = "open" /\ noise[c] \in {"finish", "ready", "failed"} /\ caps[c] = "none"
    /\ caps' = [caps EXCEPT ![c] = "sent"]
    /\ UNCHANGED <<conn, noise, handshakes, transports, lockVars, chanVars, callVars, exec, outVars, ran>>

\* handle_noise_handshake, step 1
HandleHello(c) ==
    /\ noise[c] = "hello"
    /\ handshakes' = handshakes \union {c}
    /\ noise' = [noise EXCEPT ![c] = "replied"]
    /\ UNCHANGED <<conn, caps, transports, lockVars, chanVars, callVars, exec, outVars, ran>>

\* handle_noise_handshake, step 3
HandleFinish(c) ==
    /\ noise[c] = "finish"
    /\ IF c \in handshakes
          THEN /\ handshakes' = handshakes \ {c}
               /\ transports' = transports \union {c}
               /\ noise' = [noise EXCEPT ![c] = "ready"]
          ELSE /\ noise' = [noise EXCEPT ![c] = "failed"]
               /\ UNCHANGED <<handshakes, transports>>
    /\ UNCHANGED <<conn, caps, lockVars, chanVars, callVars, exec, outVars, ran>>

\* handle_remote_capabilities, up to its wait for the write guard
HandleCaps(c) ==
    /\ caps[c] = "sent"
    /\ IF c \in transports
          THEN /\ transports' = transports \ {c}
               /\ lockq' = Append(lockq, Register(c))
               /\ caps' = [caps EXCEPT ![c] = "queued"]
          ELSE /\ caps' = [caps EXCEPT ![c] = "refused"]
               /\ UNCHANGED <<transports, lockq>>
    /\ UNCHANGED <<conn, noise, handshakes, sessions, readers, chanVars, callVars, exec, outVars, ran>>

\* register, and the forwarder that is spawned right after it
Registered(c) ==
    /\ WriteGranted(Register(c))
    /\ lockq' = Tail(lockq)
    /\ sessions' = sessions \union {c}
    /\ caps' = [caps EXCEPT ![c] = "registered"]
    /\ forwarder' = [forwarder EXCEPT ![c] = "running"]
    /\ UNCHANGED <<conn, noise, handshakes, transports, readers, toolq, callVars, exec, outVars, ran>>

\* The reader loop ends: close frame, socket error or shutdown.
Disconnect(c) ==
    /\ conn[c] = "open"
    /\ conn' = [conn EXCEPT ![c] = "closing"]
    /\ UNCHANGED <<noise, caps, handshakes, transports, lockVars, chanVars, callVars, exec, outVars, ran>>

BeginRemove(c) ==
    /\ conn[c] = "closing"
    /\ conn' = [conn EXCEPT ![c] = "removing"]
    /\ lockq' = Append(lockq, Remove(c))
    /\ UNCHANGED <<noise, caps, handshakes, transports, sessions, readers, chanVars, callVars, exec, outVars, ran>>

\* remove: the session goes, and its tool_tx with it
Removed(c) ==
    /\ WriteGranted(Remove(c))
    /\ lockq' = Tail(lockq)
    /\ sessions' = sessions \ {c}
    /\ conn' = [conn EXCEPT ![c] = "clearing"]
    /\ UNCHANGED <<noise, caps, handshakes, transports, readers, chanVars, callVars, exec, outVars, ran>>

\* The noise maps are cleared, then the writer task is aborted.
Cleared(c) ==
    /\ conn[c] = "clearing"
    /\ conn' = [conn EXCEPT ![c] = "gone"]
    /\ handshakes' = handshakes \ {c}
    /\ transports' = transports \ {c}
    /\ UNCHANGED <<noise, caps, lockVars, chanVars, callVars, exec, outVars, ran>>

ConnStep(c) ==
    \/ Connect(c) \/ SendHandshake(c) \/ SendCaps(c) \/ Disconnect(c)
    \/ HandleHello(c) \/ HandleFinish(c) \/ HandleCaps(c) \/ Registered(c)
    \/ BeginRemove(c) \/ Removed(c) \/ Cleared(c)

-----------------------------------------------------------------------------
(* The forwarder of a session, and the executor behind it.                 *)

\* A request is enqueued for the writer.  The client gets it if it is still
\* there, and starts the tool.
Forward(c) ==
    /\ forwarder[c] = "running" /\ toolq[c] # <<>> /\ conn[c] # "gone"
    /\ LET k == Head(toolq[c]) IN
          IF conn[c] = "open"
             THEN /\ exec' = [exec EXCEPT ![k] = "running"]
                  /\ ran' = [ran EXCEPT ![k] = @ \union {"remote"}]
             ELSE UNCHANGED <<exec, ran>>
    /\ toolq' = [toolq EXCEPT ![c] = Tail(@)]
    /\ UNCHANGED <<connVars, lockVars, forwarder, callVars, outVars>>

\* enqueue_ws_message fails (the outbound queue is full, or its receiver is
\* gone): the forwarder stops, and drops this request and all later ones.
StopForwarder(c) ==
    /\ forwarder[c] = "running" /\ toolq[c] # <<>>
    /\ forwarder' = [forwarder EXCEPT ![c] = "stopped"]
    /\ toolq' = [toolq EXCEPT ![c] = <<>>]
    /\ UNCHANGED <<connVars, lockVars, callVars, exec, outVars, ran>>

\* The executor's frames go out on whatever connection its client now has.
Reachable(k) == \E c \in Conns : conn[c] = "open" /\ Client[c] = Client[dest[k]]

EmitOutput(k) ==
    /\ exec[k] = "running" /\ Reachable(k) /\ sent[k] < MaxChunks
    /\ sent' = [sent EXCEPT ![k] = @ + 1]
    /\ inflight' = [inflight EXCEPT ![k] = @ + 1]
    /\ UNCHANGED <<connVars, lockVars, chanVars, callVars, exec, queued, shown, ran>>

Respond(k) ==
    /\ exec[k] = "running" /\ Reachable(k)
    /\ exec' = [exec EXCEPT ![k] = "responding"]
    /\ UNCHANGED <<connVars, lockVars, chanVars, callVars, outVars, ran>>

-----------------------------------------------------------------------------
(* The handlers of the executor's frames; nothing orders them.             *)

\* deliver_response takes the sender of a pending call; the receiver may be
\* gone already, the call having timed out.
DeliverResponse(k) ==
    /\ exec[k] = "responding"
    /\ exec' = [exec EXCEPT ![k] = "finished"]
    /\ IF pending[k] = "waiting"
          THEN /\ pending' = [pending EXCEPT ![k] = "taken"]
               /\ answered' = [answered EXCEPT ![k] = pc[k] = "wait"]
          ELSE UNCHANGED <<pending, answered>>
    /\ UNCHANGED <<connVars, lockVars, chanVars, pc, dest, cleanup, result, outVars, ran>>

\* deliver_output sends into output_tx as long as the call is in the pending
\* map, and otherwise only logs.
DeliverOutput(k) ==
    /\ inflight[k] > 0
    /\ inflight' = [inflight EXCEPT ![k] = @ - 1]
    /\ queued' = [queued EXCEPT ![k] =
                     @ + (IF pending[k] # "none" /\ k \in Streaming THEN 1 ELSE 0)]
    /\ UNCHANGED <<connVars, lockVars, chanVars, callVars, exec, sent, shown, ran>>

-----------------------------------------------------------------------------
(* A tool call: find an executor, dispatch to it, and run the tool locally *)
(* when that gives nothing.                                                *)

To(k, stage) == pc' = [pc EXCEPT ![k] = stage]
AwaitRead(k) == lockq' = Append(lockq, Read(k))
AwaitReadAgain(k) == lockq' = Append(Tail(lockq), Read(k))

\* What a dispatch that returns None means to its caller.
NoRemote(k) ==
    IF k \in Strict
       THEN To(k, "done") /\ result' = [result EXCEPT ![k] = "unavailable"]
       ELSE To(k, "local") /\ UNCHANGED result

\* The sessions a lookup accepts, and those it may return: any TUI when
\* there is one (only find_executor has a preference).
Accepted(k) == {c \in sessions \intersect Capable[k] : Target[k] \in {c, Anyone}}
Preferred(k) ==
    IF Target[k] = Anyone /\ Accepted(k) \intersect Tui # {}
       THEN Accepted(k) \intersect Tui ELSE Accepted(k)

Call(k) ==
    /\ pc[k] = "idle"
    /\ To(k, IF Target[k] = Anyone THEN "check" ELSE "find")
    /\ AwaitRead(k)
    /\ UNCHANGED <<connVars, sessions, readers, chanVars, dest, pending, answered,
                   cleanup, result, exec, outVars, ran>>

\* find_executor(..).is_some(), asked by the agent before it dispatches
Check(k) ==
    /\ pc[k] = "check" /\ ReadGranted(k)
    /\ IF Accepted(k) # {}
          THEN To(k, "find") /\ AwaitReadAgain(k)
          ELSE To(k, "local") /\ lockq' = Tail(lockq)
    /\ UNCHANGED <<connVars, sessions, readers, chanVars, dest, pending, answered,
                   cleanup, result, exec, outVars, ran>>

\* find_executor or resolve_executor_target, whose guard is dropped before
\* the dispatch takes its own
Find(k) ==
    /\ pc[k] = "find" /\ ReadGranted(k)
    /\ \/ /\ Accepted(k) = {}
          /\ NoRemote(k) /\ lockq' = Tail(lockq) /\ UNCHANGED dest
       \/ \E c \in Preferred(k) :
             /\ dest' = [dest EXCEPT ![k] = c]
             /\ To(k, "get") /\ AwaitReadAgain(k) /\ UNCHANGED result
    /\ UNCHANGED <<connVars, sessions, readers, chanVars, pending, answered,
                   cleanup, exec, outVars, ran>>

\* dispatch with its guard: the session may be gone by now; if not, the
\* request is sent (to a channel that may have lost its receiver) and the
\* guard is kept for the wait.
Dispatch(k) ==
    /\ pc[k] = "get" /\ ReadGranted(k)
    /\ lockq' = Tail(lockq)
    /\ IF dest[k] \in sessions
          THEN /\ To(k, "wait") /\ readers' = readers \union {k}
               /\ pending' = [pending EXCEPT ![k] = "waiting"]
               /\ toolq' = [toolq EXCEPT ![dest[k]] =
                               IF forwarder[dest[k]] = "running" THEN Append(@, k) ELSE @]
               /\ UNCHANGED result
          ELSE NoRemote(k) /\ UNCHANGED <<readers, pending, toolq>>
    /\ UNCHANGED <<connVars, sessions, forwarder, dest, answered, cleanup, exec, outVars, ran>>

\* The response is there: the guard is released, the cleanup task spawned.
\* A caller with a progress channel now starts to pass the output on.
Return(k) ==
    /\ pc[k] = "wait" /\ answered[k]
    /\ readers' = readers \ {k}
    /\ cleanup' = [cleanup EXCEPT ![k] = "sleeping"]
    /\ result' = [result EXCEPT ![k] = "remote"]
    /\ To(k, IF k \in Streaming THEN "drain" ELSE "done")
    /\ UNCHANGED <<connVars, sessions, lockq, chanVars, dest, pending, answered, exec, outVars, ran>>

\* Mutant: the timer wins even when the response is there.
MutExpireAnswered(k) ==
    /\ pc[k] = "wait"
    /\ To(k, "expired")
    /\ UNCHANGED <<connVars, lockVars, chanVars, dest, pending, answered, cleanup,
                   result, exec, outVars, ran>>
\* Mutant: the timer only starts once the executor has the request.
MutExpireSent(k) ==
    /\ pc[k] = "wait" /\ ~answered[k] /\ exec[k] # "none"
    /\ To(k, "expired")
    /\ UNCHANGED <<connVars, lockVars, chanVars, dest, pending, answered, cleanup,
                   result, exec, outVars, ran>>

\* The wait times out; the entry is removed under a lock of its own.
Expire(k) ==
    /\ pc[k] = "wait" /\ ~answered[k]
    /\ To(k, "expired")
    /\ UNCHANGED <<connVars, lockVars, chanVars, dest, pending, answered, cleanup,
                   result, exec, outVars, ran>>

\* Mutant: the entry of a call that timed out is not removed.
MutExpired(k) ==
    /\ pc[k] = "expired"
    /\ readers' = readers \ {k}
    /\ NoRemote(k)
    /\ UNCHANGED <<connVars, sessions, lockq, chanVars, dest, pending, answered, cleanup, exec, outVars, ran>>

Expired(k) ==
    /\ pc[k] = "expired"
    /\ pending' = [pending EXCEPT ![k] = "none"]
    /\ readers' = readers \ {k}
    /\ NoRemote(k)
    /\ UNCHANGED <<connVars, sessions, lockq, chanVars, dest, answered, cleanup, exec, outVars, ran>>

\* Mutant: the cleanup task leaves the pending entry, and its output_tx.
MutSweep(k) ==
    /\ cleanup[k] = "sleeping"
    /\ cleanup' = [cleanup EXCEPT ![k] = "done"]
    /\ UNCHANGED <<connVars, lockVars, chanVars, pc, dest, pending, answered, result, exec, outVars, ran>>

\* schedule_pending_cleanup, after its two seconds (the set recently_completed
\* it also keeps only decides how a late frame is logged)
Sweep(k) ==
    /\ cleanup[k] = "sleeping"
    /\ cleanup' = [cleanup EXCEPT ![k] = "done"]
    /\ pending' = [pending EXCEPT ![k] = "none"]
    /\ UNCHANGED <<connVars, lockVars, chanVars, pc, dest, answered, result, exec, outVars, ran>>

\* Mutant: an empty read counts as a frame.
MutShowOutput(k) ==
    /\ pc[k] = "drain" /\ pending[k] # "none"
    /\ queued' = [queued EXCEPT ![k] = @ - 1]
    /\ shown' = [shown EXCEPT ![k] = @ + 1]
    /\ UNCHANGED <<connVars, lockVars, chanVars, callVars, exec, sent, inflight, ran>>

ShowOutput(k) ==
    /\ pc[k] = "drain" /\ queued[k] > 0
    /\ queued' = [queued EXCEPT ![k] = @ - 1]
    /\ shown' = [shown EXCEPT ![k] = @ + 1]
    /\ UNCHANGED <<connVars, lockVars, chanVars, callVars, exec, sent, inflight, ran>>

\* Mutant: the caller stops at the first empty read of the output channel.
MutDrained(k) ==
    /\ pc[k] = "drain" /\ queued[k] = 0
    /\ To(k, "done")
    /\ UNCHANGED <<connVars, lockVars, chanVars, dest, pending, answered, cleanup,
                   result, exec, outVars, ran>>

\* The output channel ends when its last sender goes, the one in pending.
Drained(k) ==
    /\ pc[k] = "drain" /\ queued[k] = 0 /\ pending[k] = "none"
    /\ To(k, "done")
    /\ UNCHANGED <<connVars, lockVars, chanVars, dest, pending, answered, cleanup,
                   result, exec, outVars, ran>>

RunLocally(k) ==
    /\ pc[k] = "local"
    /\ To(k, "done")
    /\ ran' = [ran EXCEPT ![k] = @ \union {"local"}]
    /\ result' = [result EXCEPT ![k] = "local"]
    /\ UNCHANGED <<connVars, lockVars, chanVars, dest, pending, answered, cleanup, exec, outVars>>

CallStep(k) ==
    \/ Check(k) \/ Find(k) \/ Dispatch(k) \/ Return(k) \/ Expire(k) \/ Expired(k)
    \/ Sweep(k) \/ ShowOutput(k) \/ Drained(k) \/ RunLocally(k)
    \/ DeliverResponse(k) \/ DeliverOutput(k)

-----------------------------------------------------------------------------
Next ==
    \/ \E c \in Conns : ConnStep(c) \/ Forward(c) \/ StopForwarder(c)
    \/ \E k \in Calls : CallStep(k) \/ Call(k) \/ EmitOutput(k) \/ Respond(k)

Spec == Init /\ [][Next]_vars

(* The gateway's tasks run and its timers fire; nothing is asked of the    *)
(* clients, of the connections, or of the agents.                          *)
Fairness ==
    /\ \A c \in Conns :
          /\ WF_vars(Registered(c)) /\ WF_vars(BeginRemove(c))
          /\ WF_vars(Removed(c)) /\ WF_vars(Cleared(c))
    /\ \A k \in Calls :
          /\ WF_vars(Check(k)) /\ WF_vars(Find(k)) /\ WF_vars(Dispatch(k))
          /\ WF_vars(Return(k)) /\ WF_vars(Expire(k)) /\ WF_vars(Expired(k))
          /\ WF_vars(Sweep(k)) /\ WF_vars(ShowOutput(k)) /\ WF_vars(Drained(k))
          /\ WF_vars(RunLocally(k))
FairSpec == Spec /\ Fairness

-----------------------------------------------------------------------------
(* Properties.                                                             *)

\* The session a dispatch waits on stays registered for as long as it waits:
\* remove and register cannot get the write guard before it ends.
SessionOutlivesCall ==
    \A k \in Calls : pc[k] \in {"wait", "expired"} => dest[k] \in sessions

\* A response that reaches a waiting dispatch is used: the tool of an
\* answered call ran on its executor and nowhere else.  (A call that timed out
\* falls back to the gateway, and then its tool may run twice.)
AnsweredRanOnce ==
    \A k \in Calls : answered[k] => ran[k] = {"remote"}

\* The pending map does not leak: an entry belongs to a dispatch that still
\* waits, or to a cleanup task that will remove it.
PendingOwned ==
    \A k \in Calls : pending[k] # "none" =>
        \/ pc[k] \in {"wait", "expired"}
        \/ cleanup[k] = "sleeping"

\* A streaming call that ends with the executor's response has shown every
\* output frame that was accepted for it, the late ones included.
AcceptedOutputShown ==
    \A k \in Calls : pc[k] = "done" /\ result[k] = "remote" => queued[k] = 0

\* Every tool call ends, whatever its executor does (timeout in dispatch).
CallsReturn == \A k \in Calls : (pc[k] # "idle") ~> (pc[k] = "done")

\* The cleanup of a closed connection finishes, although it must wait for
\* every dispatch in progress, those to other executors included.
DisconnectsFinish == \A c \in Conns : (conn[c] = "closing") ~> (conn[c] = "gone")

\* "Active Noise sessions keyed by connection ID": a connection whose cleanup
\* is over is not in the registry.
SessionsAreActive == \A c \in sessions : conn[c] # "gone"
=============================================================================
