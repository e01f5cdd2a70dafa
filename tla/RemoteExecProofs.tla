-------------------------- MODULE RemoteExecProofs --------------------------
(***************************************************************************)
(* The safety properties of RemoteExec, for any number of connections and  *)
(* calls.  LockInv ties the read guards to the stages in which a dispatch  *)
(* waits; AnswerInv, PendingInv and OutputInv tie the places a call ran    *)
(* in, its pending entry and its output to its stage; QueueInv ties the    *)
(* queue for the registry's lock to who asks for it.                       *)
(***************************************************************************)
EXTENDS RemoteExec, TLAPS

Waiting == {"wait", "expired"}

LockInv ==
    \A k \in Calls :
       /\ k \in readers <=> pc[k] \in Waiting
       /\ pc[k] \in Waiting => dest[k] \in sessions

AnswerInv ==
    \A k \in Calls :
       /\ exec[k] # "none" => "remote" \in ran[k]
       /\ answered[k] => "remote" \in ran[k] /\ pc[k] \in {"wait", "drain", "done"}
       /\ "local" \in ran[k] => pc[k] = "done" /\ ~answered[k]

PendingInv ==
    \A k \in Calls :
       /\ pending[k] = "waiting" => pc[k] \in Waiting /\ ~answered[k]
       /\ pending[k] # "none" => pc[k] \in Waiting \/ cleanup[k] = "sleeping"

OutputInv ==
    \A k \in Calls :
       /\ k \notin Streaming => queued[k] = 0
       /\ pc[k] = "done" /\ result[k] = "remote" =>
             queued[k] = 0 /\ (k \in Streaming => pending[k] = "none")

-----------------------------------------------------------------------------
Stage == {"idle", "check", "find", "get", "wait", "expired", "drain", "local", "done"}
Outcome == {"none", "remote", "local", "unavailable"}

\* A dispatch that returns None moves its call to a stage and an outcome that exist.
LEMMA NoRemoteType ==
    ASSUME NEW k \in Calls, pc \in [Calls -> Stage], result \in [Calls -> Outcome], NoRemote(k)
    PROVE  pc' \in [Calls -> Stage] /\ result' \in [Calls -> Outcome]
<1>1. \/ To(k, "done") /\ result' = [result EXCEPT ![k] = "unavailable"]
      \/ To(k, "local") /\ UNCHANGED result
  BY DEF NoRemote
<1>2. "done" \in Stage /\ "local" \in Stage /\ "unavailable" \in Outcome
  BY DEF Stage, Outcome
<1> QED BY <1>1, <1>2 DEF To

\* Every step keeps the type of every variable.
LEMMA TypeStep == TypeOK /\ [Next]_vars => TypeOK'
<1> SUFFICES ASSUME TypeOK, [Next]_vars PROVE TypeOK'
  OBVIOUS
<1> USE DEF TypeOK, connVars, lockVars, chanVars, outVars, callVars
<1>1. ASSUME NEW c \in Conns, ConnStep(c) PROVE TypeOK'
  <2>1. Register(c) \in Waiter /\ Remove(c) \in Waiter
    BY DEF Register, Remove, Waiter
  <2>2. ASSUME NEW w \in Waiter PROVE Append(lockq, w) \in Seq(Waiter)
    OBVIOUS
  <2>3. lockq # <<>> => Tail(lockq) \in Seq(Waiter)
    OBVIOUS
  <2>4. CASE Connect(c) BY <2>4 DEF Connect
  <2>5. CASE SendHandshake(c) BY <2>5 DEF SendHandshake
  <2>6. CASE SendCaps(c) BY <2>6 DEF SendCaps
  <2>7. CASE Disconnect(c) BY <2>7 DEF Disconnect
  <2>8. CASE HandleHello(c) BY <2>8 DEF HandleHello
  <2>9. CASE HandleFinish(c)
    <3>2. CASE c \in handshakes
      <4>1. /\ handshakes' = handshakes \ {c}
            /\ transports' = transports \union {c}
            /\ noise' = [noise EXCEPT ![c] = "ready"]
            /\ UNCHANGED <<conn, caps, lockVars, chanVars, callVars, exec, outVars, ran>>
        BY <2>9, <3>2 DEF HandleFinish
      <4> QED BY <4>1
    <3>3. CASE c \notin handshakes
      <4>1. /\ noise' = [noise EXCEPT ![c] = "failed"]
            /\ UNCHANGED <<handshakes, transports>>
            /\ UNCHANGED <<conn, caps, lockVars, chanVars, callVars, exec, outVars, ran>>
        BY <2>9, <3>3 DEF HandleFinish
      <4> QED BY <4>1
    <3> QED BY <3>2, <3>3
  <2>10. CASE HandleCaps(c)
    <3>2. CASE c \in transports
      <4>1. /\ transports' = transports \ {c}
            /\ lockq' = Append(lockq, Register(c))
            /\ caps' = [caps EXCEPT ![c] = "queued"]
            /\ UNCHANGED <<conn, noise, handshakes, sessions, readers, chanVars, callVars, exec, outVars, ran>>
        BY <2>10, <3>2 DEF HandleCaps
      <4> QED BY <4>1, <2>1, <2>2
    <3>3. CASE c \notin transports
      <4>1. /\ caps' = [caps EXCEPT ![c] = "refused"]
            /\ UNCHANGED <<transports, lockq>>
            /\ UNCHANGED <<conn, noise, handshakes, sessions, readers, chanVars, callVars, exec, outVars, ran>>
        BY <2>10, <3>3 DEF HandleCaps
      <4> QED BY <4>1
    <3> QED BY <3>2, <3>3
  <2>11. CASE Registered(c) BY <2>11, <2>3 DEF Registered, WriteGranted, AtHead
  <2>12. CASE BeginRemove(c) BY <2>12, <2>1, <2>2 DEF BeginRemove
  <2>13. CASE Removed(c) BY <2>13, <2>3 DEF Removed, WriteGranted, AtHead
  <2>14. CASE Cleared(c) BY <2>14 DEF Cleared
  <2> QED BY <1>1, <2>4, <2>5, <2>6, <2>7, <2>8, <2>9, <2>10, <2>11, <2>12, <2>13, <2>14 DEF ConnStep
<1>2. ASSUME NEW c \in Conns, Forward(c) PROVE TypeOK'
  <2>1. Head(toolq[c]) \in Calls /\ Tail(toolq[c]) \in Seq(Calls)
    BY <1>2 DEF Forward
  <2>2. CASE conn[c] = "open"
    <3>1. /\ exec' = [exec EXCEPT ![Head(toolq[c])] = "running"]
          /\ ran' = [ran EXCEPT ![Head(toolq[c])] = @ \union {"remote"}]
          /\ toolq' = [toolq EXCEPT ![c] = Tail(@)]
          /\ UNCHANGED <<connVars, lockVars, forwarder, callVars, outVars>>
      BY <1>2, <2>2 DEF Forward
    <3> QED BY <3>1, <2>1
  <2>3. CASE conn[c] # "open"
    <3>1. /\ UNCHANGED <<exec, ran>> /\ toolq' = [toolq EXCEPT ![c] = Tail(@)]
          /\ UNCHANGED <<connVars, lockVars, forwarder, callVars, outVars>>
      BY <1>2, <2>3 DEF Forward
    <3> QED BY <3>1, <2>1
  <2> QED BY <2>2, <2>3
<1>3. ASSUME NEW c \in Conns, StopForwarder(c) PROVE TypeOK'
  BY <1>3 DEF StopForwarder
<1>4. ASSUME NEW k \in Calls, CallStep(k) PROVE TypeOK'
  <2>0. NoRemote(k) => pc' \in [Calls -> Stage] /\ result' \in [Calls -> Outcome]
    BY NoRemoteType DEF Stage, Outcome
  <2> USE DEF To
  <2>1. Read(k) \in Waiter
    BY DEF Read, Waiter
  <2>2. ReadGranted(k) => /\ Tail(lockq) \in Seq(Waiter)
                          /\ Append(Tail(lockq), Read(k)) \in Seq(Waiter)
    BY <2>1 DEF ReadGranted, AtHead
  <2>3. CASE Check(k)
    <3>1. /\ \/ To(k, "find") /\ AwaitReadAgain(k)
             \/ To(k, "local") /\ lockq' = Tail(lockq)
          /\ UNCHANGED <<connVars, sessions, readers, chanVars, dest, pending, answered,
                         cleanup, result, exec, outVars, ran>>
      BY <2>3 DEF Check
    <3>2. CASE To(k, "find") /\ AwaitReadAgain(k)
      BY <2>3, <3>1, <3>2, <2>2 DEF Check, AwaitReadAgain
    <3>3. CASE To(k, "local") /\ lockq' = Tail(lockq)
      BY <2>3, <3>1, <3>3, <2>2 DEF Check
    <3> QED BY <3>1, <3>2, <3>3
  <2>4. CASE Find(k)
    <3>1. CASE Accepted(k) = {} /\ NoRemote(k) /\ lockq' = Tail(lockq) /\ UNCHANGED dest
      <4>1. ReadGranted(k) /\ UNCHANGED <<connVars, sessions, readers, chanVars, pending, answered,
                                          cleanup, exec, outVars, ran>>
        BY <2>4 DEF Find
      <4> QED BY <3>1, <4>1, <2>0, <2>2 DEF Stage, Outcome
    <3>2. ASSUME NEW c \in Preferred(k), dest' = [dest EXCEPT ![k] = c],
                 To(k, "get"), AwaitReadAgain(k), UNCHANGED result
          PROVE  TypeOK'
      <4>1. c \in Conns
        BY DEF Preferred, Accepted
      <4> QED BY <2>4, <3>2, <4>1, <2>2 DEF Find, AwaitReadAgain
    <3> QED BY <2>4, <3>1, <3>2 DEF Find
  <2>5. CASE Dispatch(k)
    <3>1. /\ ReadGranted(k) /\ lockq' = Tail(lockq)
          /\ UNCHANGED <<connVars, sessions, forwarder, dest, answered, cleanup, exec, outVars, ran>>
      BY <2>5 DEF Dispatch
    <3>2. CASE dest[k] \in sessions
      <4>1. /\ To(k, "wait") /\ readers' = readers \union {k}
            /\ pending' = [pending EXCEPT ![k] = "waiting"]
            /\ toolq' = [toolq EXCEPT ![dest[k]] =
                            IF forwarder[dest[k]] = "running" THEN Append(@, k) ELSE @]
            /\ UNCHANGED result
        BY <2>5, <3>2 DEF Dispatch
      <4>2. toolq' \in [Conns -> Seq(Calls)]
        BY <4>1, <3>2
      <4>3. lockq' \in Seq(Waiter) /\ readers' \subseteq Calls
        BY <3>1, <4>1, <2>2
      <4>4. pc' = [pc EXCEPT ![k] = "wait"]
        BY <4>1
      <4>5. /\ pc' \in [Calls -> {"idle", "check", "find", "get", "wait", "expired",
                                  "drain", "local", "done"}]
            /\ pending' \in [Calls -> {"none", "waiting", "taken"}]
        BY <4>1, <4>4
      <4>6. UNCHANGED <<connVars, sessions, forwarder, dest, answered, cleanup, result, exec, outVars, ran>>
        BY <3>1, <4>1
      <4> QED BY <4>2, <4>3, <4>5, <4>6
    <3>3. CASE dest[k] \notin sessions
      <4>1. NoRemote(k) /\ UNCHANGED <<readers, pending, toolq>>
        BY <2>5, <3>3 DEF Dispatch
      <4> QED BY <3>1, <4>1, <2>0, <2>2 DEF Stage, Outcome
    <3> QED BY <3>2, <3>3
  <2>6. CASE Return(k) BY <2>6 DEF Return
  <2>7. CASE Expire(k) BY <2>7 DEF Expire
  <2>8. CASE Expired(k)
    <3>1. /\ pending' = [pending EXCEPT ![k] = "none"]
          /\ readers' = readers \ {k} /\ NoRemote(k)
          /\ UNCHANGED <<connVars, sessions, lockq, chanVars, dest, answered, cleanup, exec, outVars, ran>>
      BY <2>8 DEF Expired
    <3> QED BY <3>1, <2>0 DEF Stage, Outcome
  <2>9. CASE Sweep(k) BY <2>9 DEF Sweep
  <2>10. CASE ShowOutput(k) BY <2>10 DEF ShowOutput
  <2>11. CASE Drained(k) BY <2>11 DEF Drained
  <2>12. CASE RunLocally(k) BY <2>12 DEF RunLocally
  <2>13. CASE DeliverResponse(k)
    <3>2. CASE pending[k] = "waiting"
      <4>1. /\ exec' = [exec EXCEPT ![k] = "finished"]
            /\ pending' = [pending EXCEPT ![k] = "taken"]
            /\ answered' = [answered EXCEPT ![k] = pc[k] = "wait"]
            /\ UNCHANGED <<connVars, lockVars, chanVars, pc, dest, cleanup, result, outVars, ran>>
        BY <2>13, <3>2 DEF DeliverResponse
      <4>2. answered' \in [Calls -> BOOLEAN]
        BY <4>1
      <4> QED BY <4>1, <4>2
    <3>3. CASE pending[k] # "waiting"
      BY <2>13, <3>3 DEF DeliverResponse
    <3> QED BY <3>2, <3>3
  <2>14. CASE DeliverOutput(k) BY <2>14 DEF DeliverOutput
  <2> QED BY <1>4, <2>3, <2>4, <2>5, <2>6, <2>7, <2>8, <2>9, <2>10, <2>11, <2>12, <2>13, <2>14
             DEF CallStep
<1>5. ASSUME NEW k \in Calls, Call(k) PROVE TypeOK'
  <2>1. Append(lockq, Read(k)) \in Seq(Waiter)
    BY DEF Read, Waiter
  <2> QED BY <1>5, <2>1 DEF Call, To, AwaitRead
<1>6. ASSUME NEW k \in Calls, EmitOutput(k) PROVE TypeOK'
  BY <1>6, BoundAssumption DEF EmitOutput
<1>7. ASSUME NEW k \in Calls, Respond(k) PROVE TypeOK'
  BY <1>7 DEF Respond
<1>8. CASE UNCHANGED vars
  BY <1>8 DEF vars
<1> QED BY <1>1, <1>2, <1>3, <1>4, <1>5, <1>6, <1>7, <1>8 DEF Next

\* Every variable keeps its type, for any set of connections and calls.
THEOREM TypeCorrect == Spec => []TypeOK
<1>1. Init => TypeOK
  BY BoundAssumption DEF Init, TypeOK
<1> QED BY <1>1, TypeStep, PTL DEF Spec

-----------------------------------------------------------------------------
\* A step of a connection leaves the calls alone, and takes a session away
\* only when no dispatch holds the read guard.
LEMMA ConnFrame ==
    ASSUME NEW c \in Conns, ConnStep(c)
    PROVE  /\ UNCHANGED <<readers, callVars, exec, outVars, ran>>
           /\ sessions \subseteq sessions' \/ readers = {}
<1> USE DEF connVars, lockVars, chanVars
<1>1. CASE Connect(c) BY <1>1 DEF Connect
<1>2. CASE SendHandshake(c) BY <1>2 DEF SendHandshake
<1>3. CASE SendCaps(c) BY <1>3 DEF SendCaps
<1>4. CASE Disconnect(c) BY <1>4 DEF Disconnect
<1>5. CASE HandleHello(c) BY <1>5 DEF HandleHello
<1>6. CASE HandleFinish(c) BY <1>6 DEF HandleFinish
<1>7. CASE HandleCaps(c) BY <1>7 DEF HandleCaps
<1>8. CASE Registered(c) BY <1>8 DEF Registered
<1>9. CASE BeginRemove(c) BY <1>9 DEF BeginRemove
<1>10. CASE Removed(c) BY <1>10 DEF Removed, WriteGranted
<1>11. CASE Cleared(c) BY <1>11 DEF Cleared
<1> QED BY <1>1, <1>2, <1>3, <1>4, <1>5, <1>6, <1>7, <1>8, <1>9, <1>10, <1>11 DEF ConnStep

-----------------------------------------------------------------------------
\* The guards are held exactly while a dispatch waits, and on a session that is there.
LEMMA LockStep == TypeOK /\ LockInv /\ [Next]_vars => LockInv'
<1> SUFFICES ASSUME TypeOK, LockInv, [Next]_vars PROVE LockInv'
  OBVIOUS
<1>0. /\ pc \in [Calls -> Stage] /\ dest \in [Calls -> Conns \union {Anyone}] /\ readers \subseteq Calls
  BY DEF TypeOK, Stage
<1>1. ASSUME NEW c \in Conns, ConnStep(c) PROVE LockInv'
  BY <1>1, ConnFrame DEF LockInv, callVars
<1>2. ASSUME NEW c \in Conns, Forward(c) \/ StopForwarder(c) PROVE LockInv'
  BY <1>2 DEF Forward, StopForwarder, LockInv, lockVars, callVars
<1>3. ASSUME NEW k \in Calls, EmitOutput(k) \/ Respond(k) PROVE LockInv'
  BY <1>3 DEF EmitOutput, Respond, LockInv, lockVars, callVars
<1>4. ASSUME NEW k \in Calls, CallStep(k) \/ Call(k) PROVE LockInv'
  <2> USE <1>0 DEF LockInv, Waiting, lockVars
  <2>0. NoRemote(k) => \E stage \in {"done", "local"} : To(k, stage)
    BY DEF NoRemote
  <2>1. CASE Check(k)
    <3>1. \E stage \in {"find", "local"} : To(k, stage)
      BY <2>1 DEF Check
    <3> QED BY <2>1, <3>1 DEF Check, To
  <2>2. CASE Find(k)
    <3>1. /\ pc[k] = "find" /\ UNCHANGED <<sessions, readers>>
          /\ \E stage \in {"get", "local", "done"} : To(k, stage)
          /\ \A q \in Calls : q # k => dest'[q] = dest[q]
      BY <2>2, <2>0 DEF Find
    <3> QED BY <3>1 DEF To
  <2>3. CASE Dispatch(k)
    <3>1. CASE dest[k] \in sessions
      BY <2>3, <3>1 DEF Dispatch, To
    <3>2. CASE dest[k] \notin sessions
      BY <2>3, <3>2, <2>0 DEF Dispatch, To
    <3> QED BY <3>1, <3>2
  <2>4. CASE Return(k)
    <3>1. \E stage \in {"drain", "done"} : To(k, stage)
      BY <2>4 DEF Return
    <3> QED BY <2>4, <3>1 DEF Return, To
  <2>5. CASE Expire(k) BY <2>5 DEF Expire, To
  <2>6. CASE Expired(k) BY <2>6, <2>0 DEF Expired, To
  <2>7. CASE Sweep(k) BY <2>7 DEF Sweep
  <2>8. CASE ShowOutput(k) BY <2>8 DEF ShowOutput, callVars
  <2>9. CASE Drained(k) BY <2>9 DEF Drained, To
  <2>10. CASE RunLocally(k) BY <2>10 DEF RunLocally, To
  <2>11. CASE DeliverResponse(k) BY <2>11 DEF DeliverResponse
  <2>12. CASE DeliverOutput(k) BY <2>12 DEF DeliverOutput, callVars
  <2>13. CASE Call(k)
    <3>1. \E stage \in {"check", "find"} : To(k, stage)
      BY <2>13 DEF Call
    <3> QED BY <2>13, <3>1 DEF Call, To
  <2> QED BY <1>4, <2>1, <2>2, <2>3, <2>4, <2>5, <2>6, <2>7, <2>8, <2>9, <2>10, <2>11, <2>12, <2>13
             DEF CallStep
<1>5. CASE UNCHANGED vars
  BY <1>5 DEF LockInv, vars, lockVars, callVars
<1> QED BY <1>1, <1>2, <1>3, <1>4, <1>5 DEF Next

\* The session a dispatch waits on stays registered: remove waits for it.
THEOREM SessionOutlivesCallTheorem == Spec => []SessionOutlivesCall
<1>1. Init => LockInv
  BY DEF Init, LockInv, Waiting
<1>2. LockInv => SessionOutlivesCall
  BY DEF LockInv, SessionOutlivesCall, Waiting
<1> QED BY <1>1, <1>2, LockStep, TypeCorrect, PTL DEF Spec

-----------------------------------------------------------------------------
\* What a step of a call does to the stages, and to the result.
LEMMA NoRemoteStage ==
    ASSUME NEW k, NoRemote(k)
    PROVE  \/ To(k, "done") /\ result' = [result EXCEPT ![k] = "unavailable"]
           \/ To(k, "local") /\ UNCHANGED result
BY DEF NoRemote

\* A response is only taken while its call waits, and a call that runs its
\* tool locally has none.
LEMMA AnswerStep == TypeOK /\ PendingInv /\ AnswerInv /\ [Next]_vars => AnswerInv'
<1> SUFFICES ASSUME TypeOK, PendingInv, AnswerInv, [Next]_vars PROVE AnswerInv'
  OBVIOUS
<1>0. /\ pc \in [Calls -> Stage] /\ exec \in [Calls -> {"none", "running", "responding", "finished"}]
      /\ ran \in [Calls -> SUBSET {"remote", "local"}] /\ answered \in [Calls -> BOOLEAN]
      /\ toolq \in [Conns -> Seq(Calls)]
  BY DEF TypeOK, Stage
<1> USE <1>0
<1>1. ASSUME NEW c \in Conns, ConnStep(c) PROVE AnswerInv'
  BY <1>1, ConnFrame DEF AnswerInv, callVars
<1>2. ASSUME NEW c \in Conns, Forward(c) PROVE AnswerInv'
  <2>1. Head(toolq[c]) \in Calls
    BY <1>2 DEF Forward
  <2>2. \/ UNCHANGED <<exec, ran>>
        \/ /\ exec' = [exec EXCEPT ![Head(toolq[c])] = "running"]
           /\ ran' = [ran EXCEPT ![Head(toolq[c])] = @ \union {"remote"}]
    BY <1>2 DEF Forward
  <2>3. UNCHANGED <<pc, answered>>
    BY <1>2 DEF Forward, callVars
  <2> QED BY <2>1, <2>2, <2>3 DEF AnswerInv
<1>3. ASSUME NEW c \in Conns, StopForwarder(c) PROVE AnswerInv'
  BY <1>3 DEF StopForwarder, AnswerInv, callVars
<1>4. ASSUME NEW k \in Calls, CallStep(k) \/ Call(k) PROVE AnswerInv'
  <2> USE DEF AnswerInv
  <2>1. CASE Check(k)
    <3>1. \E stage \in {"find", "local"} : To(k, stage)
      BY <2>1 DEF Check
    <3> QED BY <2>1, <3>1 DEF Check, To
  <2>2. CASE Find(k)
    <3>1. /\ pc[k] = "find" /\ UNCHANGED <<answered, exec, ran>>
          /\ \E stage \in {"get", "local", "done"} : To(k, stage)
      BY <2>2, NoRemoteStage DEF Find
    <3> QED BY <3>1 DEF To
  <2>3. CASE Dispatch(k)
    <3>1. /\ pc[k] = "get" /\ UNCHANGED <<answered, exec, ran>>
          /\ \E stage \in {"wait", "local", "done"} : To(k, stage)
      BY <2>3, NoRemoteStage DEF Dispatch
    <3> QED BY <3>1 DEF To
  <2>4. CASE Return(k)
    <3>1. \E stage \in {"drain", "done"} : To(k, stage)
      BY <2>4 DEF Return
    <3> QED BY <2>4, <3>1 DEF Return, To
  <2>5. CASE Expire(k) BY <2>5 DEF Expire, To
  <2>6. CASE Expired(k)
    <3>1. \E stage \in {"local", "done"} : To(k, stage)
      BY <2>6, NoRemoteStage DEF Expired
    <3> QED BY <2>6, <3>1 DEF Expired, To
  <2>7. CASE Sweep(k) BY <2>7 DEF Sweep
  <2>8. CASE ShowOutput(k) BY <2>8 DEF ShowOutput, callVars
  <2>9. CASE Drained(k) BY <2>9 DEF Drained, To
  <2>10. CASE RunLocally(k) BY <2>10 DEF RunLocally, To
  <2>11. CASE DeliverResponse(k)
    <3>1. /\ exec[k] = "responding" /\ exec' = [exec EXCEPT ![k] = "finished"]
          /\ UNCHANGED <<pc, ran>>
          /\ \/ UNCHANGED answered
             \/ pending[k] = "waiting" /\ answered' = [answered EXCEPT ![k] = pc[k] = "wait"]
      BY <2>11 DEF DeliverResponse
    <3>2. "remote" \in ran[k] /\ (pending[k] = "waiting" => pc[k] \in Waiting)
      BY <3>1 DEF PendingInv
    <3>3. \A q \in Calls : answered'[q] => answered[q] \/ (q = k /\ pc[k] = "wait")
      BY <3>1
    <3>4. \A q \in Calls : "local" \in ran[q] => ~answered'[q]
      BY <3>3
    <3> QED BY <3>1, <3>2, <3>3, <3>4
  <2>12. CASE DeliverOutput(k) BY <2>12 DEF DeliverOutput, callVars
  <2>13. CASE Call(k)
    <3>1. \E stage \in {"check", "find"} : To(k, stage)
      BY <2>13 DEF Call
    <3> QED BY <2>13, <3>1 DEF Call, To
  <2> QED BY <1>4, <2>1, <2>2, <2>3, <2>4, <2>5, <2>6, <2>7, <2>8, <2>9, <2>10, <2>11, <2>12, <2>13
             DEF CallStep
<1>5. ASSUME NEW k \in Calls, EmitOutput(k) \/ Respond(k) PROVE AnswerInv'
  BY <1>5 DEF EmitOutput, Respond, AnswerInv, callVars
<1>6. CASE UNCHANGED vars
  BY <1>6 DEF AnswerInv, vars, callVars
<1> QED BY <1>1, <1>2, <1>3, <1>4, <1>5, <1>6 DEF Next

\* A pending entry has a dispatch that waits for it, or a cleanup task.
LEMMA PendingStep == TypeOK /\ AnswerInv /\ PendingInv /\ [Next]_vars => PendingInv'
<1> SUFFICES ASSUME TypeOK, AnswerInv, PendingInv, [Next]_vars PROVE PendingInv'
  OBVIOUS
<1>0. /\ pc \in [Calls -> Stage] /\ pending \in [Calls -> {"none", "waiting", "taken"}]
      /\ cleanup \in [Calls -> {"none", "sleeping", "done"}]
      /\ answered \in [Calls -> BOOLEAN]
  BY DEF TypeOK, Stage
<1> USE <1>0
<1>1. ASSUME NEW c \in Conns, ConnStep(c) PROVE PendingInv'
  BY <1>1, ConnFrame DEF PendingInv, callVars
<1>2. ASSUME NEW c \in Conns, Forward(c) \/ StopForwarder(c) PROVE PendingInv'
  BY <1>2 DEF Forward, StopForwarder, PendingInv, callVars
<1>3. ASSUME NEW k \in Calls, EmitOutput(k) \/ Respond(k) PROVE PendingInv'
  BY <1>3 DEF EmitOutput, Respond, PendingInv, callVars
<1>4. ASSUME NEW k \in Calls, CallStep(k) \/ Call(k) PROVE PendingInv'
  <2> USE DEF PendingInv, Waiting
  <2>1. CASE Check(k)
    <3>1. \E stage \in {"find", "local"} : To(k, stage)
      BY <2>1 DEF Check
    <3> QED BY <2>1, <3>1 DEF Check, To
  <2>2. CASE Find(k)
    <3>1. /\ pc[k] = "find" /\ UNCHANGED <<pending, cleanup, answered>>
          /\ \E stage \in {"get", "local", "done"} : To(k, stage)
      BY <2>2, NoRemoteStage DEF Find
    <3> QED BY <3>1 DEF To
  <2>3. CASE Dispatch(k)
    <3>1. CASE dest[k] \in sessions
      <4>1. ~answered[k]
        BY <2>3 DEF Dispatch, AnswerInv
      <4> QED BY <2>3, <3>1, <4>1 DEF Dispatch, To
    <3>2. CASE dest[k] \notin sessions
      <4>1. /\ pc[k] = "get" /\ UNCHANGED <<pending, cleanup, answered>>
            /\ \E stage \in {"local", "done"} : To(k, stage)
        BY <2>3, <3>2, NoRemoteStage DEF Dispatch
      <4> QED BY <4>1 DEF To
    <3> QED BY <3>1, <3>2
  <2>4. CASE Return(k)
    <3>1. \E stage \in {"drain", "done"} : To(k, stage)
      BY <2>4 DEF Return
    <3>2. pending[k] # "waiting"
      BY <2>4 DEF Return, PendingInv
    <3> QED BY <2>4, <3>1, <3>2 DEF Return, To
  <2>5. CASE Expire(k) BY <2>5 DEF Expire, To
  <2>6. CASE Expired(k)
    <3>1. \E stage \in {"local", "done"} : To(k, stage)
      BY <2>6, NoRemoteStage DEF Expired
    <3> QED BY <2>6, <3>1 DEF Expired, To
  <2>7. CASE Sweep(k) BY <2>7 DEF Sweep
  <2>8. CASE ShowOutput(k) BY <2>8 DEF ShowOutput, callVars
  <2>9. CASE Drained(k) BY <2>9 DEF Drained, To
  <2>10. CASE RunLocally(k) BY <2>10 DEF RunLocally, To
  <2>11. CASE DeliverResponse(k)
    <3>1. /\ UNCHANGED <<pc, cleanup>>
          /\ \/ UNCHANGED <<pending, answered>>
             \/ /\ pending[k] = "waiting" /\ pending' = [pending EXCEPT ![k] = "taken"]
                /\ answered' = [answered EXCEPT ![k] = pc[k] = "wait"]
      BY <2>11 DEF DeliverResponse
    <3>2. \A q \in Calls : q # k => answered'[q] = answered[q]
      BY <3>1
    <3> QED BY <3>1, <3>2
  <2>12. CASE DeliverOutput(k) BY <2>12 DEF DeliverOutput, callVars
  <2>13. CASE Call(k)
    <3>1. \E stage \in {"check", "find"} : To(k, stage)
      BY <2>13 DEF Call
    <3> QED BY <2>13, <3>1 DEF Call, To
  <2> QED BY <1>4, <2>1, <2>2, <2>3, <2>4, <2>5, <2>6, <2>7, <2>8, <2>9, <2>10, <2>11, <2>12, <2>13
             DEF CallStep
<1>5. CASE UNCHANGED vars
  BY <1>5 DEF PendingInv, vars, callVars
<1> QED BY <1>1, <1>2, <1>3, <1>4, <1>5 DEF Next

\* Once a streaming call is done with its response, nothing more is queued.
LEMMA OutputStep == TypeOK /\ OutputInv /\ [Next]_vars => OutputInv'
<1> SUFFICES ASSUME TypeOK, OutputInv, [Next]_vars PROVE OutputInv'
  OBVIOUS
<1>0. /\ pc \in [Calls -> Stage] /\ pending \in [Calls -> {"none", "waiting", "taken"}]
      /\ queued \in [Calls -> Nat] /\ result \in [Calls -> Outcome]
  BY DEF TypeOK, Stage, Outcome
<1> USE <1>0
<1>1. ASSUME NEW c \in Conns, ConnStep(c) PROVE OutputInv'
  BY <1>1, ConnFrame DEF OutputInv, callVars, outVars
<1>2. ASSUME NEW c \in Conns, Forward(c) \/ StopForwarder(c) PROVE OutputInv'
  BY <1>2 DEF Forward, StopForwarder, OutputInv, callVars, outVars
<1>3. ASSUME NEW k \in Calls, EmitOutput(k) \/ Respond(k) PROVE OutputInv'
  BY <1>3 DEF EmitOutput, Respond, OutputInv, callVars, outVars
<1>4. ASSUME NEW k \in Calls, CallStep(k) \/ Call(k) PROVE OutputInv'
  <2> USE DEF OutputInv, outVars
  <2>1. CASE Check(k)
    <3>1. \E stage \in {"find", "local"} : To(k, stage)
      BY <2>1 DEF Check
    <3> QED BY <2>1, <3>1 DEF Check, To
  <2>2. CASE Find(k)
    <3>1. /\ UNCHANGED <<pending, queued>>
          /\ \/ To(k, "done") /\ result' = [result EXCEPT ![k] = "unavailable"]
             \/ To(k, "local") /\ UNCHANGED result
             \/ To(k, "get") /\ UNCHANGED result
      BY <2>2, NoRemoteStage DEF Find
    <3> QED BY <3>1 DEF To
  <2>3. CASE Dispatch(k)
    <3>1. CASE dest[k] \in sessions
      BY <2>3, <3>1 DEF Dispatch, To
    <3>2. CASE dest[k] \notin sessions
      <4>1. /\ UNCHANGED <<pending, queued>>
            /\ \/ To(k, "done") /\ result' = [result EXCEPT ![k] = "unavailable"]
               \/ To(k, "local") /\ UNCHANGED result
        BY <2>3, <3>2, NoRemoteStage DEF Dispatch
      <4> QED BY <4>1 DEF To
    <3> QED BY <3>1, <3>2
  <2>4. CASE Return(k)
    <3>1. CASE k \in Streaming
      BY <2>4, <3>1 DEF Return, To
    <3>2. CASE k \notin Streaming
      BY <2>4, <3>2 DEF Return, To
    <3> QED BY <3>1, <3>2
  <2>5. CASE Expire(k) BY <2>5 DEF Expire, To
  <2>6. CASE Expired(k)
    <3>1. /\ pending' = [pending EXCEPT ![k] = "none"] /\ UNCHANGED queued
          /\ \/ To(k, "done") /\ result' = [result EXCEPT ![k] = "unavailable"]
             \/ To(k, "local") /\ UNCHANGED result
      BY <2>6, NoRemoteStage DEF Expired
    <3> QED BY <3>1 DEF To
  <2>7. CASE Sweep(k) BY <2>7 DEF Sweep
  <2>8. CASE ShowOutput(k) BY <2>8 DEF ShowOutput, callVars
  <2>9. CASE Drained(k) BY <2>9 DEF Drained, To
  <2>10. CASE RunLocally(k) BY <2>10 DEF RunLocally, To
  <2>11. CASE DeliverResponse(k)
    <3>1. /\ UNCHANGED <<pc, result, queued>>
          /\ \/ UNCHANGED pending
             \/ pending[k] = "waiting" /\ pending' = [pending EXCEPT ![k] = "taken"]
      BY <2>11 DEF DeliverResponse
    <3> QED BY <3>1
  <2>12. CASE DeliverOutput(k)
    <3>1. /\ UNCHANGED <<pc, result, pending>>
          /\ \/ UNCHANGED queued
             \/ /\ pending[k] # "none" /\ k \in Streaming
                /\ queued' = [queued EXCEPT ![k] = @ + 1]
      <4>1. CASE pending[k] # "none" /\ k \in Streaming
        BY <2>12, <4>1 DEF DeliverOutput, callVars
      <4>2. CASE ~(pending[k] # "none" /\ k \in Streaming)
        BY <2>12, <4>2 DEF DeliverOutput, callVars
      <4> QED BY <4>1, <4>2
    <3> QED BY <3>1
  <2>13. CASE Call(k)
    <3>1. \E stage \in {"check", "find"} : To(k, stage)
      BY <2>13 DEF Call
    <3> QED BY <2>13, <3>1 DEF Call, To
  <2> QED BY <1>4, <2>1, <2>2, <2>3, <2>4, <2>5, <2>6, <2>7, <2>8, <2>9, <2>10, <2>11, <2>12, <2>13
             DEF CallStep
<1>5. CASE UNCHANGED vars
  BY <1>5 DEF OutputInv, vars, callVars, outVars
<1> QED BY <1>1, <1>2, <1>3, <1>4, <1>5 DEF Next

-----------------------------------------------------------------------------
\* The tool of an answered call ran on its executor and nowhere else.
THEOREM AnsweredRanOnceTheorem == Spec => []AnsweredRanOnce
<1>1. Init => AnswerInv /\ PendingInv
  BY DEF Init, AnswerInv, PendingInv
<1>2. TypeOK /\ AnswerInv => AnsweredRanOnce
  BY DEF TypeOK, AnswerInv, AnsweredRanOnce
<1> QED BY <1>1, <1>2, AnswerStep, PendingStep, TypeCorrect, PTL DEF Spec

\* The pending map does not leak.
THEOREM PendingOwnedTheorem == Spec => []PendingOwned
<1>1. Init => AnswerInv /\ PendingInv
  BY DEF Init, AnswerInv, PendingInv
<1>2. PendingInv => PendingOwned
  BY DEF PendingInv, PendingOwned, Waiting
<1> QED BY <1>1, <1>2, AnswerStep, PendingStep, TypeCorrect, PTL DEF Spec

\* A streaming call ends with its response only when all accepted output is shown.
THEOREM AcceptedOutputShownTheorem == Spec => []AcceptedOutputShown
<1>1. Init => OutputInv
  BY DEF Init, OutputInv
<1>2. OutputInv => AcceptedOutputShown
  BY DEF OutputInv, AcceptedOutputShown
<1> QED BY <1>1, <1>2, OutputStep, TypeCorrect, PTL DEF Spec

-----------------------------------------------------------------------------
(* The queue for the lock of `sessions`.                                   *)

Reading == {"check", "find", "get"}

\* Who waits for a guard: the dispatches about to read the sessions, and the
\* handlers about to register or to remove one.
Asking ==
    {w \in Waiter :
        \/ \E k \in Calls : w = Read(k) /\ pc[k] \in Reading
        \/ \E c \in Conns : w = Register(c) /\ caps[c] = "queued"
        \/ \E c \in Conns : w = Remove(c) /\ conn[c] = "removing"}

\* q lists each member of Q once, and nobody else.
QueueOf(q, Q) ==
    /\ \A i \in 1..Len(q) : q[i] \in Q
    /\ \A w \in Q : \E i \in 1..Len(q) : q[i] = w
    /\ \A i, j \in 1..Len(q) : q[i] = q[j] => i = j

QueueInv == QueueOf(lockq, Asking)

\* Nobody who waits for the lock is forgotten or asks twice, and whoever is
\* first in the queue is let in, or waits for a dispatch whose timer runs.
LockServed ==
    /\ \A w \in Waiter :
          w \in Asking <=> \E i \in 1..Len(lockq) : lockq[i] = w
    /\ \A i, j \in 1..Len(lockq) : lockq[i] = lockq[j] => i = j
    /\ lockq # <<>> =>
          \/ \E k \in Calls : ReadGranted(k) /\ pc[k] \in Reading
          \/ \E c \in Conns : WriteGranted(Register(c)) /\ caps[c] = "queued"
          \/ \E c \in Conns : WriteGranted(Remove(c)) /\ conn[c] = "removing"
          \/ \E k \in readers : pc[k] \in Waiting

\* A waiter that comes is last in the queue ...
LEMMA Joins ==
    ASSUME NEW q \in Seq(Waiter), NEW Q, NEW w \in Waiter \ Q, QueueOf(q, Q)
    PROVE  QueueOf(Append(q, w), Q \union {w})
<1> DEFINE p == Append(q, w)
<1>1. /\ Len(q) \in Nat /\ Len(p) = Len(q) + 1 /\ p[Len(q) + 1] = w
      /\ \A i \in 1..Len(q) : p[i] = q[i]
  OBVIOUS
<1>2. \A i \in 1..Len(p) : i \in 1..Len(q) \/ i = Len(q) + 1
  BY <1>1
<1>3. \A i \in 1..Len(q) : i \in 1..Len(p) /\ q[i] \in Q /\ q[i] # w
  BY <1>1 DEF QueueOf
<1> HIDE DEF p
<1>4. \A i \in 1..Len(p) : p[i] \in Q \union {w}
  BY <1>1, <1>2, <1>3
<1>5. \A v \in Q \union {w} : \E i \in 1..Len(p) : p[i] = v
  <2>1. Len(q) + 1 \in 1..Len(p)
    BY <1>1
  <2> QED BY <1>1, <1>3, <2>1 DEF QueueOf
<1>6. \A i, j \in 1..Len(p) : p[i] = p[j] => i = j
  BY <1>1, <1>2, <1>3 DEF QueueOf
<1>7. QueueOf(p, Q \union {w})
  BY <1>4, <1>5, <1>6 DEF QueueOf
<1> QED BY <1>7 DEF p

\* ... and one that is let in was first in it.
LEMMA Leaves ==
    ASSUME NEW q \in Seq(Waiter), NEW Q, q # <<>>, QueueOf(q, Q)
    PROVE  QueueOf(Tail(q), Q \ {Head(q)}) /\ Head(q) \in Q
<1> DEFINE p == Tail(q)
<1>1. /\ Len(q) \in Nat /\ Len(q) > 0 /\ Len(p) = Len(q) - 1 /\ Head(q) = q[1]
      /\ \A i \in 1..Len(p) : p[i] = q[i + 1]
  OBVIOUS
<1> HIDE DEF p
<1>2. \A i \in 1..Len(p) : i + 1 \in 1..Len(q) /\ i + 1 # 1
  BY <1>1
<1>3. 1 \in 1..Len(q)
  BY <1>1
<1>4. \A i \in 1..Len(p) : p[i] \in Q \ {q[1]}
  BY <1>1, <1>2, <1>3 DEF QueueOf
<1>5. ASSUME NEW v \in Q \ {q[1]} PROVE \E i \in 1..Len(p) : p[i] = v
  <2>1. PICK j \in 1..Len(q) : q[j] = v
    BY DEF QueueOf
  <2>2. j # 1
    BY <2>1
  <2>3. j - 1 \in 1..Len(p) /\ (j - 1) + 1 = j
    BY <1>1, <2>2
  <2>4. p[j - 1] = v
    BY <1>1, <2>1, <2>3
  <2> QED BY <2>3, <2>4
<1>6. ASSUME NEW i \in 1..Len(p), NEW j \in 1..Len(p), p[i] = p[j] PROVE i = j
  <2>1. i + 1 = j + 1
    BY <1>1, <1>2, <1>6 DEF QueueOf
  <2> QED BY <1>1, <2>1
<1>7. QueueOf(p, Q \ {q[1]})
  BY <1>4, <1>5, <1>6 DEF QueueOf
<1> QED BY <1>1, <1>3, <1>7 DEF p, QueueOf

\* One that is let in and asks again goes from the first place to the last.
LEMMA AsksAgain ==
    ASSUME NEW q \in Seq(Waiter), NEW Q \in SUBSET Waiter, q # <<>>, QueueOf(q, Q)
    PROVE  QueueOf(Append(Tail(q), Head(q)), Q)
<1>1. QueueOf(Tail(q), Q \ {Head(q)}) /\ Head(q) \in Q
  BY Leaves
<1>2. Tail(q) \in Seq(Waiter) /\ Head(q) \in Waiter \ (Q \ {Head(q)})
  BY <1>1
<1>3. QueueOf(Append(Tail(q), Head(q)), (Q \ {Head(q)}) \union {Head(q)})
  BY <1>1, <1>2, Joins
<1>4. (Q \ {Head(q)}) \union {Head(q)} = Q
  BY <1>1
<1> QED BY <1>3, <1>4

LEMMA Waiters ==
    /\ \A k \in Calls : Read(k) \in Waiter
    /\ \A c \in Conns : Register(c) \in Waiter /\ Remove(c) \in Waiter
    /\ \A w \in Waiter : \/ \E k \in Calls : w = Read(k)
                         \/ \E c \in Conns : w = Register(c)
                         \/ \E c \in Conns : w = Remove(c)
    /\ \A k, l : Read(k) = Read(l) => k = l
    /\ \A c, d : /\ Register(c) = Register(d) => c = d
                 /\ Remove(c) = Remove(d) => c = d
    /\ \A k, c, d : /\ Read(k) # Register(c) /\ Read(k) # Remove(c)
                    /\ Register(c) # Remove(d)
BY DEF Read, Register, Remove, Waiter

LEMMA AskingOf ==
    /\ \A k \in Calls : Read(k) \in Asking <=> pc[k] \in Reading
    /\ \A c \in Conns : Register(c) \in Asking <=> caps[c] = "queued"
    /\ \A c \in Conns : Remove(c) \in Asking <=> conn[c] = "removing"
BY Waiters DEF Asking

\* How the waiters change with the stage of one call, and of one connection.
LEMMA SameAsk ==
    ASSUME \A k \in Calls : pc'[k] \in Reading <=> pc[k] \in Reading,
           \A c \in Conns : /\ caps'[c] = "queued" <=> caps[c] = "queued"
                            /\ conn'[c] = "removing" <=> conn[c] = "removing"
    PROVE  Asking' = Asking
<1>1. \A w \in Waiter : w \in Asking' <=> w \in Asking
  BY DEF Asking
<1> QED BY <1>1 DEF Asking

LEMMA CallAsks ==
    ASSUME NEW k \in Calls, \A l \in Calls \ {k} : pc'[l] = pc[l],
           UNCHANGED <<caps, conn>>
    PROVE  /\ pc'[k] \in Reading => Asking' = Asking \union {Read(k)}
           /\ pc'[k] \notin Reading => Asking' = Asking \ {Read(k)}
<1>1. \A w \in Waiter \ {Read(k)} : w \in Asking' <=> w \in Asking
  <2> TAKE w \in Waiter \ {Read(k)}
  <2>1. \A l \in Calls : w = Read(l) => pc'[l] = pc[l]
    OBVIOUS
  <2> QED BY <2>1 DEF Asking
<1>2. Read(k) \in Asking' <=> pc'[k] \in Reading
  BY Waiters DEF Asking
<1>3. Asking \subseteq Waiter /\ Asking' \subseteq Waiter /\ Read(k) \in Waiter
  BY Waiters DEF Asking
<1> QED BY <1>1, <1>2, <1>3

LEMMA RegisterAsks ==
    ASSUME NEW c \in Conns, \A d \in Conns \ {c} : caps'[d] = caps[d],
           UNCHANGED <<pc, conn>>
    PROVE  /\ caps'[c] = "queued" => Asking' = Asking \union {Register(c)}
           /\ caps'[c] # "queued" => Asking' = Asking \ {Register(c)}
<1>1. \A w \in Waiter \ {Register(c)} : w \in Asking' <=> w \in Asking
  <2> TAKE w \in Waiter \ {Register(c)}
  <2>1. \A d \in Conns : w = Register(d) => caps'[d] = caps[d]
    OBVIOUS
  <2> QED BY <2>1 DEF Asking
<1>2. Register(c) \in Asking' <=> caps'[c] = "queued"
  BY Waiters DEF Asking
<1>3. Asking \subseteq Waiter /\ Asking' \subseteq Waiter /\ Register(c) \in Waiter
  BY Waiters DEF Asking
<1> QED BY <1>1, <1>2, <1>3

LEMMA RemoveAsks ==
    ASSUME NEW c \in Conns, \A d \in Conns \ {c} : conn'[d] = conn[d],
           UNCHANGED <<pc, caps>>
    PROVE  /\ conn'[c] = "removing" => Asking' = Asking \union {Remove(c)}
           /\ conn'[c] # "removing" => Asking' = Asking \ {Remove(c)}
<1>1. \A w \in Waiter \ {Remove(c)} : w \in Asking' <=> w \in Asking
  <2> TAKE w \in Waiter \ {Remove(c)}
  <2>1. \A d \in Conns : w = Remove(d) => conn'[d] = conn[d]
    OBVIOUS
  <2> QED BY <2>1 DEF Asking
<1>2. Remove(c) \in Asking' <=> conn'[c] = "removing"
  BY Waiters DEF Asking
<1>3. Asking \subseteq Waiter /\ Asking' \subseteq Waiter /\ Remove(c) \in Waiter
  BY Waiters DEF Asking
<1> QED BY <1>1, <1>2, <1>3

\* Each step of a connection joins the queue, leaves it, or keeps out of it.
LEMMA ConnQueue ==
    ASSUME TypeOK, QueueInv, NEW c \in Conns, ConnStep(c)
    PROVE  QueueInv'
<1>0. /\ lockq \in Seq(Waiter) /\ conn \in [Conns -> {"new", "open", "closing", "removing", "clearing", "gone"}]
      /\ caps \in [Conns -> {"none", "sent", "queued", "registered", "refused"}]
  BY DEF TypeOK
<1>1. pc' = pc
  BY ConnFrame DEF callVars
<1>2. ASSUME lockq' = lockq, Asking' = Asking PROVE QueueInv'
  BY <1>2 DEF QueueInv, QueueOf
<1>3. CASE Connect(c) \/ Disconnect(c) \/ Cleared(c)
  <2>1. /\ UNCHANGED <<caps, lockq>> /\ conn[c] # "removing"
        /\ \E s \in {"open", "closing", "gone"} : conn' = [conn EXCEPT ![c] = s]
    BY <1>3 DEF Connect, Disconnect, Cleared, lockVars
  <2>2. \A d \in Conns : conn'[d] = "removing" <=> conn[d] = "removing"
    BY <1>0, <2>1
  <2>3. Asking' = Asking
    BY <1>1, <2>1, <2>2, SameAsk
  <2> QED BY <1>2, <2>1, <2>3
<1>4. CASE SendCaps(c)
  <2>1. UNCHANGED <<conn, lockq>> /\ caps[c] = "none" /\ caps' = [caps EXCEPT ![c] = "sent"]
    BY <1>4 DEF SendCaps, lockVars
  <2>2. \A d \in Conns : caps'[d] = "queued" <=> caps[d] = "queued"
    BY <1>0, <2>1
  <2>3. Asking' = Asking
    BY <1>1, <2>1, <2>2, SameAsk
  <2> QED BY <1>2, <2>1, <2>3
<1>5. CASE SendHandshake(c) \/ HandleHello(c) \/ HandleFinish(c)
  <2>1. UNCHANGED <<conn, caps, lockq>>
    BY <1>5 DEF SendHandshake, HandleHello, HandleFinish, lockVars
  <2> QED BY <1>1, <1>2, <2>1, SameAsk
<1>6. CASE HandleCaps(c)
  <2>1. conn' = conn /\ caps[c] = "sent"
    BY <1>6 DEF HandleCaps
  <2>2. CASE c \in transports
    <3>1. lockq' = Append(lockq, Register(c)) /\ caps' = [caps EXCEPT ![c] = "queued"]
      BY <1>6, <2>2 DEF HandleCaps
    <3>2. caps'[c] = "queued" /\ \A d \in Conns \ {c} : caps'[d] = caps[d]
      BY <1>0, <3>1
    <3>3. Asking' = Asking \union {Register(c)}
      BY <1>1, <2>1, <3>2, RegisterAsks
    <3>4. Register(c) \in Waiter \ Asking
      BY <2>1, AskingOf, Waiters
    <3>5. QueueOf(lockq', Asking')
      BY <1>0, <3>1, <3>3, <3>4, Joins DEF QueueInv
    <3> QED BY <3>5 DEF QueueInv, QueueOf
  <2>3. CASE c \notin transports
    <3>1. lockq' = lockq /\ caps' = [caps EXCEPT ![c] = "refused"]
      BY <1>6, <2>3 DEF HandleCaps
    <3>2. \A d \in Conns : caps'[d] = "queued" <=> caps[d] = "queued"
      BY <1>0, <2>1, <3>1
    <3>3. Asking' = Asking
      BY <1>1, <2>1, <3>2, SameAsk
    <3> QED BY <1>2, <3>1, <3>3
  <2> QED BY <2>2, <2>3
<1>7. CASE Registered(c)
  <2>1. /\ lockq # <<>> /\ Head(lockq) = Register(c) /\ lockq' = Tail(lockq)
        /\ conn' = conn /\ caps' = [caps EXCEPT ![c] = "registered"]
    BY <1>7 DEF Registered, WriteGranted, AtHead
  <2>2. caps'[c] # "queued" /\ \A d \in Conns \ {c} : caps'[d] = caps[d]
    BY <1>0, <2>1
  <2>3. Asking' = Asking \ {Head(lockq)}
    BY <1>1, <2>1, <2>2, RegisterAsks
  <2>4. QueueOf(lockq', Asking')
    BY <1>0, <2>1, <2>3, Leaves DEF QueueInv
  <2> QED BY <2>4 DEF QueueInv, QueueOf
<1>8. CASE BeginRemove(c)
  <2>1. /\ lockq' = Append(lockq, Remove(c)) /\ caps' = caps /\ conn[c] = "closing"
        /\ conn' = [conn EXCEPT ![c] = "removing"]
    BY <1>8 DEF BeginRemove
  <2>2. conn'[c] = "removing" /\ \A d \in Conns \ {c} : conn'[d] = conn[d]
    BY <1>0, <2>1
  <2>3. Asking' = Asking \union {Remove(c)}
    BY <1>1, <2>1, <2>2, RemoveAsks
  <2>4. Remove(c) \in Waiter \ Asking
    BY <2>1, AskingOf, Waiters
  <2>5. QueueOf(lockq', Asking')
    BY <1>0, <2>1, <2>3, <2>4, Joins DEF QueueInv
  <2> QED BY <2>5 DEF QueueInv, QueueOf
<1>9. CASE Removed(c)
  <2>1. /\ lockq # <<>> /\ Head(lockq) = Remove(c) /\ lockq' = Tail(lockq)
        /\ caps' = caps /\ conn' = [conn EXCEPT ![c] = "clearing"]
    BY <1>9 DEF Removed, WriteGranted, AtHead
  <2>2. conn'[c] # "removing" /\ \A d \in Conns \ {c} : conn'[d] = conn[d]
    BY <1>0, <2>1
  <2>3. Asking' = Asking \ {Head(lockq)}
    BY <1>1, <2>1, <2>2, RemoveAsks
  <2>4. QueueOf(lockq', Asking')
    BY <1>0, <2>1, <2>3, Leaves DEF QueueInv
  <2> QED BY <2>4 DEF QueueInv, QueueOf
<1> QED BY <1>3, <1>4, <1>5, <1>6, <1>7, <1>8, <1>9 DEF ConnStep

\* What a call does to the queue: it joins, it is let in and asks again or
\* leaves, or it keeps out.
LEMMA CallJoins ==
    ASSUME TypeOK, QueueInv, NEW k \in Calls, NEW stage \in Reading,
           pc[k] \notin Reading, To(k, stage), AwaitRead(k), UNCHANGED <<conn, caps>>
    PROVE  QueueInv'
<1>1. /\ lockq \in Seq(Waiter) /\ lockq' = Append(lockq, Read(k))
      /\ pc'[k] \in Reading /\ \A l \in Calls \ {k} : pc'[l] = pc[l]
  BY DEF TypeOK, To, AwaitRead
<1>2. Asking' = Asking \union {Read(k)} /\ Read(k) \in Waiter \ Asking
  BY <1>1, CallAsks, AskingOf, Waiters
<1>3. QueueOf(lockq', Asking')
  BY <1>1, <1>2, Joins DEF QueueInv
<1> QED BY <1>3 DEF QueueInv, QueueOf

LEMMA CallAsksAgain ==
    ASSUME TypeOK, QueueInv, NEW k \in Calls, NEW stage \in Reading,
           ReadGranted(k), To(k, stage), AwaitReadAgain(k), UNCHANGED <<conn, caps>>
    PROVE  QueueInv'
<1>1. /\ lockq \in Seq(Waiter) /\ lockq # <<>> /\ Head(lockq) = Read(k)
      /\ lockq' = Append(Tail(lockq), Head(lockq))
      /\ pc'[k] \in Reading /\ \A l \in Calls \ {k} : pc'[l] = pc[l]
  BY DEF TypeOK, To, AwaitReadAgain, ReadGranted, AtHead
<1>2. Asking \in SUBSET Waiter /\ QueueOf(lockq, Asking)
  BY DEF Asking, QueueInv
<1>3. Asking' = Asking \union {Read(k)} /\ Read(k) \in Asking
  BY <1>1, <1>2, CallAsks, Leaves
<1>4. Asking' = Asking
  BY <1>3
<1>5. QueueOf(lockq', Asking')
  BY <1>1, <1>2, <1>4, AsksAgain
<1> QED BY <1>5 DEF QueueInv, QueueOf

LEMMA CallLeaves ==
    ASSUME TypeOK, QueueInv, NEW k \in Calls, NEW stage, stage \notin Reading,
           ReadGranted(k), To(k, stage), lockq' = Tail(lockq), UNCHANGED <<conn, caps>>
    PROVE  QueueInv'
<1>1. /\ lockq \in Seq(Waiter) /\ lockq # <<>> /\ Head(lockq) = Read(k)
      /\ pc'[k] \notin Reading /\ \A l \in Calls \ {k} : pc'[l] = pc[l]
  BY DEF TypeOK, To, ReadGranted, AtHead
<1>2. Asking' = Asking \ {Head(lockq)}
  BY <1>1, CallAsks
<1>3. QueueOf(lockq', Asking')
  BY <1>1, <1>2, Leaves DEF QueueInv
<1> QED BY <1>3 DEF QueueInv, QueueOf

LEMMA CallKeepsOut ==
    ASSUME TypeOK, QueueInv, NEW k \in Calls, NEW stage, stage \notin Reading,
           pc[k] \notin Reading, To(k, stage), UNCHANGED <<lockq, conn, caps>>
    PROVE  QueueInv'
<1>1. \A l \in Calls : pc'[l] \in Reading <=> pc[l] \in Reading
  BY DEF TypeOK, To
<1>2. Asking' = Asking
  BY <1>1, SameAsk
<1> QED BY <1>2 DEF QueueInv, QueueOf

LEMMA QueueStep == TypeOK /\ QueueInv /\ [Next]_vars => QueueInv'
<1> SUFFICES ASSUME TypeOK, QueueInv, [Next]_vars PROVE QueueInv'
  OBVIOUS
<1>0. ASSUME UNCHANGED <<lockq, pc, conn, caps>> PROVE QueueInv'
  BY <1>0, SameAsk DEF QueueInv, QueueOf
<1>1. ASSUME NEW c \in Conns, Forward(c) \/ StopForwarder(c) PROVE QueueInv'
  BY <1>0, <1>1 DEF Forward, StopForwarder, connVars, lockVars, callVars
<1>2. ASSUME NEW k \in Calls, EmitOutput(k) \/ Respond(k) PROVE QueueInv'
  BY <1>0, <1>2 DEF EmitOutput, Respond, connVars, lockVars, callVars
<1>3. ASSUME NEW k \in Calls, CallStep(k) \/ Call(k) PROVE QueueInv'
  <2>1. UNCHANGED <<conn, caps>>
    BY <1>3 DEF CallStep, Check, Find, Dispatch, Return, Expire, Expired, Sweep, ShowOutput,
                Drained, RunLocally, DeliverResponse, DeliverOutput, Call, connVars
  <2>2. "local" \notin Reading /\ "done" \notin Reading /\ "drain" \notin Reading
        /\ "wait" \notin Reading /\ "expired" \notin Reading
    BY DEF Reading
  <2>3. NoRemote(k) => \E stage \in {"done", "local"} : To(k, stage)
    BY DEF NoRemote
  <2>4. CASE Check(k)
    BY <2>1, <2>2, <2>4, CallAsksAgain, CallLeaves DEF Check, Reading
  <2>5. CASE Find(k)
    <3>1. CASE NoRemote(k) /\ lockq' = Tail(lockq)
      BY <2>1, <2>2, <2>3, <2>5, <3>1, CallLeaves DEF Find
    <3>2. CASE To(k, "get") /\ AwaitReadAgain(k)
      BY <2>1, <2>5, <3>2, CallAsksAgain DEF Find, Reading
    <3> QED BY <2>5, <3>1, <3>2 DEF Find
  <2>6. CASE Dispatch(k)
    <3>1. ReadGranted(k) /\ lockq' = Tail(lockq) /\ (To(k, "wait") \/ NoRemote(k))
      BY <2>6 DEF Dispatch
    <3> QED BY <2>1, <2>2, <2>3, <3>1, CallLeaves
  <2>7. CASE Call(k)
    <3>1. /\ pc[k] = "idle" /\ AwaitRead(k)
          /\ \E stage \in {"check", "find"} : To(k, stage)
      BY <2>7 DEF Call
    <3> QED BY <2>1, <3>1, CallJoins DEF Reading
  <2>8. CASE Return(k) \/ Expire(k) \/ Expired(k) \/ Drained(k) \/ RunLocally(k)
    <3>1. /\ pc[k] \notin Reading /\ lockq' = lockq
          /\ \E stage \in {"drain", "done", "expired", "local"} : To(k, stage)
      BY <2>3, <2>8 DEF Return, Expire, Expired, Drained, RunLocally, lockVars, Reading
    <3> QED BY <2>1, <2>2, <3>1, CallKeepsOut
  <2>9. CASE Sweep(k) \/ ShowOutput(k) \/ DeliverResponse(k) \/ DeliverOutput(k)
    BY <1>0, <2>9 DEF Sweep, ShowOutput, DeliverResponse, DeliverOutput, connVars, lockVars, callVars
  <2> QED BY <1>3, <2>4, <2>5, <2>6, <2>7, <2>8, <2>9 DEF CallStep
<1>4. CASE UNCHANGED vars
  BY <1>0, <1>4 DEF vars, connVars, lockVars, callVars
<1> QED BY <1>1, <1>2, <1>3, <1>4, ConnQueue DEF Next

\* The lock of the sessions never sticks, for any number of connections and
\* calls: who waits for a guard is in the queue once, nobody else is, and the
\* first in it is let in at once unless dispatches hold the read guard, each of
\* which has a response or a timer.
THEOREM LockServedTheorem == Spec => []LockServed
<1>1. Init => QueueInv
  BY DEF Init, QueueInv, QueueOf, Asking, Reading
<1>2. ASSUME TypeOK, LockInv, QueueInv PROVE LockServed
  <2>1. /\ \A w \in Waiter : w \in Asking <=> \E i \in 1..Len(lockq) : lockq[i] = w
        /\ \A i, j \in 1..Len(lockq) : lockq[i] = lockq[j] => i = j
    BY <1>2 DEF QueueInv, QueueOf
  <2>2. ASSUME lockq # <<>>, readers = {}
        PROVE  \/ \E k \in Calls : ReadGranted(k) /\ pc[k] \in Reading
               \/ \E c \in Conns : WriteGranted(Register(c)) /\ caps[c] = "queued"
               \/ \E c \in Conns : WriteGranted(Remove(c)) /\ conn[c] = "removing"
    <3>1. Head(lockq) \in Asking
      BY <1>2, <2>2, Leaves DEF TypeOK, QueueInv
    <3> QED BY <2>2, <3>1 DEF Asking, ReadGranted, WriteGranted, AtHead
  <2>3. ASSUME readers # {} PROVE \E k \in readers : pc[k] \in Waiting
    BY <1>2, <2>3 DEF LockInv, TypeOK
  <2> QED BY <2>1, <2>2, <2>3 DEF LockServed
<1>3. Init => LockInv
  BY DEF Init, LockInv, Waiting
<1> QED BY <1>1, <1>2, <1>3, QueueStep, LockStep, TypeCorrect, PTL DEF Spec
=============================================================================
