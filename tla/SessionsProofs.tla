--------------------------- MODULE SessionsProofs ---------------------------
(***************************************************************************)
(* What Sessions promises for any number of turns, clients and sessions.   *)
(* Shape says where a session can be: a request that works on one works on *)
(* a stored one, or is about to store its own under an id nobody has seen. *)
(* On it rest the count of the creations under way (LimitInv), the owner   *)
(* of a key (KeyInv), what a request in possession of an uncontended       *)
(* session knows of it (HandInv), and with it the refinement of            *)
(* SessionTable.  StateInv is about the state lock of an agent.            *)
(***************************************************************************)
EXTENDS Sessions, FiniteSetTheorems, TLAPS

USE SessionsAssumption, NoSessionAssumption

PCs == {"idle", "count", "get", "load", "fill", "put", "cache", "drop", "llm",
        "leave", "done", "failed"}

\* Where request t can be in its work, given what is stored: the stage fits the
\* step, its own session is not stored before it stores it, and any other
\* session it works on is.
Fits(t, o) ==
    /\ o.pc \in {"get", "load"} => o.stage \in Edits \cup {"export", "prompt"}
    /\ o.pc = "fill" => o.stage \in Edits \cup Reads
    /\ o.pc \in {"put", "cache"} => o.stage \in Edits \cup {"new", "model"}
    /\ o.pc = "drop" => o.stage = "archive"
    /\ o.stage \in {"find", "prompt", "context", "budget", "answer", "tokens"}
           => t \in Turns
    /\ (o.pc = "put" /\ o.stage = "new") => o.id = t
    /\ (o.pc \in {"idle", "count"} \/ (o.pc = "put" /\ o.stage = "new"))
           => store[t] = NoSession
    /\ (o.pc \notin {"idle", "count", "failed"} /\ ~(o.pc = "put" /\ o.stage = "new"))
           => o.id \in Tasks /\ store[o.id] # NoSession
    /\ o.pc \in {"fill", "put", "cache"}
           => o.copy \in Session /\ o.copy.key = KeyOf(o.id)

\* A session has the key of its creator, wherever it is, and the cache holds
\* stored sessions only.
KeysMatch ==
    \A s \in Tasks :
        /\ store[s] # NoSession => store[s].key = KeyOf(s)
        /\ cache[s] # NoSession => store[s] # NoSession /\ cache[s].key = KeyOf(s)

Shape == TypeOK /\ KeysMatch /\ \A t \in Tasks : Fits(t, op[t])

\* An edit yields a session with the same key.
LEMMA EditType ==
    ASSUME NEW t \in Tasks, NEW s \in Session, NEW g \in Edits \cup {"model"},
           g = "tokens" => t \in Turns
    PROVE  /\ Edit(t, g, s) \in Session
           /\ Edit(t, g, s).key = s.key
<1>1. g \in {"context", "budget", "answer"} => Edit(t, g, s) = s
  BY DEF Edit
<1>2. g = "tokens" => Edit(t, g, s) = [s EXCEPT !.tokens = @ \cup {t}]
  BY DEF Edit
<1>3. g = "archive" => Edit(t, g, s) = [s EXCEPT !.archived = TRUE]
  BY DEF Edit
<1>4. g = "model" => Edit(t, g, s) = [s EXCEPT !.model = TRUE]
  BY DEF Edit
<1>5. CASE g \in {"context", "budget", "answer"} BY <1>1, <1>5
<1>6. CASE g = "tokens"  BY <1>2, <1>6 DEF Session
<1>7. CASE g = "archive" BY <1>3, <1>7 DEF Session
<1>8. CASE g = "model"   BY <1>4, <1>8 DEF Session
<1> QED BY <1>5, <1>6, <1>7, <1>8 DEF Edits

\* What Shape says of one request.
LEMMA OneOp ==
    ASSUME Shape, NEW t \in Tasks
    PROVE  /\ op[t] \in Op /\ Fits(t, op[t])
           /\ op[t] = [pc |-> op[t].pc, stage |-> op[t].stage, id |-> op[t].id,
                       copy |-> op[t].copy]
           /\ op[t].pc \in PCs /\ op[t].stage \in Stages
           /\ op[t].id \in Tasks \cup {None}
           /\ op[t].copy \in Session \cup {NoSession}
<1>1. op[t] \in Op /\ Fits(t, op[t])
  BY DEF Shape, TypeOK
<1> QED BY <1>1 DEF Op, PCs

\* A request that Set leaves where it fits keeps Shape, if no session is lost
\* and none is stored but its own.
LEMMA SetFits ==
    ASSUME Shape, NEW t \in Tasks, NEW p \in PCs, NEW g \in Stages,
           NEW s \in Tasks \cup {None}, NEW c \in Session \cup {NoSession},
           Set(t, p, g, s, c),
           Fits(t, [pc |-> p, stage |-> g, id |-> s, copy |-> c])',
           \A r \in Tasks : store[r] # NoSession => store'[r] # NoSession,
           \A r \in Tasks \ {t} : store'[r] # NoSession => store[r] # NoSession
    PROVE  /\ op' \in [Tasks -> Op]
           /\ \A u \in Tasks : Fits(u, op[u])'
           /\ \A u \in Tasks : \/ op'[u].pc \in {"idle", "count", "failed"}
                               \/ op'[u].id \in Tasks
           /\ \A u \in Tasks : op'[u].pc \in {"fill", "put", "cache"}
                                   => op'[u].copy \in Session
<1> DEFINE o == [pc |-> p, stage |-> g, id |-> s, copy |-> c]
<1>1. op \in [Tasks -> Op] /\ o \in Op
  BY DEF Shape, TypeOK, Op, PCs
<1>2. op' \in [Tasks -> Op] /\ op'[t] = o /\ \A u \in Tasks \ {t} : op'[u] = op[u]
  BY <1>1 DEF Set
<1>3. Fits(t, op[t])'
  BY <1>2
<1>4. ASSUME NEW u \in Tasks \ {t} PROVE Fits(u, op[u])'
  <2>1. Fits(u, op[u]) /\ op'[u] = op[u]
    BY <1>2 DEF Shape
  <2>2. store[u] = NoSession => store'[u] = NoSession
    OBVIOUS
  <2> QED BY <2>1, <2>2 DEF Fits
<1>5. \A u \in Tasks : Fits(u, op[u])'
  BY <1>3, <1>4
<1> QED BY <1>2, <1>5 DEF Fits

HistOK == /\ faults \in 0..MaxFaults
          /\ crowded \in Nat /\ raced \subseteq Keys /\ contended \subseteq Tasks

\* The same for a step that leaves the sessions alone ...
LEMMA Goes ==
    ASSUME Shape, NEW t \in Tasks, NEW p \in PCs, NEW g \in Stages,
           NEW s \in Tasks \cup {None}, NEW c \in Session \cup {NoSession},
           Set(t, p, g, s, c), UNCHANGED data, HistOK',
           Fits(t, [pc |-> p, stage |-> g, id |-> s, copy |-> c])
    PROVE  Shape'
<1>1. store' = store /\ cache' = cache
  BY DEF data
<1>2. Fits(t, [pc |-> p, stage |-> g, id |-> s, copy |-> c])'
  BY <1>1 DEF Fits
<1>3. /\ op' \in [Tasks -> Op]
      /\ \A u \in Tasks : Fits(u, op[u])'
      /\ \A u \in Tasks : \/ op'[u].pc \in {"idle", "count", "failed"}
                          \/ op'[u].id \in Tasks
      /\ \A u \in Tasks : op'[u].pc \in {"fill", "put", "cache"}
                              => op'[u].copy \in Session
  BY <1>1, <1>2, SetFits, Zenon
<1>4. KeysMatch'
  BY <1>1 DEF Shape, KeysMatch
<1> QED BY <1>1, <1>3, <1>4 DEF Shape, TypeOK, HistOK

\* ... for one that puts a fitting copy into the cache ...
LEMMA GoesCaching ==
    ASSUME Shape, NEW t \in Tasks, NEW p \in PCs, NEW g \in Stages,
           NEW s \in Tasks \cup {None}, NEW c \in Session \cup {NoSession},
           NEW r \in Tasks, NEW d \in Session \cup {NoSession},
           cache' = [cache EXCEPT ![r] = d],
           d # NoSession => store[r] # NoSession /\ d.key = KeyOf(r),
           Set(t, p, g, s, c), UNCHANGED <<store, faults, hist>>,
           Fits(t, [pc |-> p, stage |-> g, id |-> s, copy |-> c])
    PROVE  Shape'
<1>1. store' = store /\ HistOK'
  BY DEF Shape, TypeOK, HistOK, hist
<1>2. Fits(t, [pc |-> p, stage |-> g, id |-> s, copy |-> c])'
  BY <1>1 DEF Fits
<1>3. /\ op' \in [Tasks -> Op]
      /\ \A u \in Tasks : Fits(u, op[u])'
      /\ \A u \in Tasks : \/ op'[u].pc \in {"idle", "count", "failed"}
                          \/ op'[u].id \in Tasks
      /\ \A u \in Tasks : op'[u].pc \in {"fill", "put", "cache"}
                              => op'[u].copy \in Session
  BY <1>1, <1>2, SetFits, Zenon
<1>4. cache \in [Tasks -> Session \cup {NoSession}]
  BY DEF Shape, TypeOK
<1>5. KeysMatch'
  BY <1>1, <1>4 DEF Shape, KeysMatch
<1>6. cache' \in [Tasks -> Session \cup {NoSession}]
  BY <1>4
<1> QED BY <1>1, <1>3, <1>5, <1>6 DEF Shape, TypeOK, HistOK

\* What a request takes in hand is a session, whoever else has a copy of it.
LEMMA TakeOK ==
    ASSUME Shape, NEW t \in Tasks, NEW p, NEW g, NEW s \in Tasks, NEW c,
           Take(t, p, g, s, c), UNCHANGED <<faults, crowded, raced>>
    PROVE  Set(t, p, g, s, c) /\ HistOK'
BY DEF Take, Shape, TypeOK, HistOK

\* The stages that may follow a read of a session, or a write to it.
LEMMA ShapeAfter ==
    ASSUME Shape, NEW t \in Tasks, NEW r \in Tasks,
           NEW d \in Session \cup {NoSession},
           cache' = [cache EXCEPT ![r] = d],
           d # NoSession => store[r] # NoSession /\ d.key = KeyOf(r),
           UNCHANGED <<store, faults, hist>>,
           \/ op[t].pc \in {"get", "fill"} /\ AfterRead(t)
           \/ op[t].pc = "cache" /\ AfterWrite(t)
    PROVE  Shape'
<1> DEFINE o == op[t]
<1>1. /\ o \in Op /\ Fits(t, o) /\ o.id \in Tasks /\ store[o.id] # NoSession
      /\ o.stage \in Stages
  BY OneOp DEF Fits
<1>2. ASSUME NEW g \in Edits \cup {"export", "prompt"}, Begin(t, g, o.id),
             g = "archive" \/ t \in Turns
      PROVE  Shape'
  <2>1. Fits(t, [pc |-> "get", stage |-> g, id |-> o.id, copy |-> NoSession])
    BY <1>1, <1>2 DEF Fits, Edits
  <2>2. Set(t, "get", g, o.id, NoSession) /\ g \in Stages
    BY <1>2 DEF Begin, Stages, Reads
  <2> QED BY <1>1, <2>1, <2>2, GoesCaching DEF PCs
<1>3. ASSUME NEW p \in {"done", "llm", "leave", "drop"}, MoveTo(t, p),
             p = "drop" => o.stage = "archive"
      PROVE  Shape'
  <2>1. Fits(t, [pc |-> p, stage |-> o.stage, id |-> o.id, copy |-> NoSession])
    BY <1>1, <1>3 DEF Fits
  <2>2. Set(t, p, o.stage, o.id, NoSession)
    BY <1>3 DEF MoveTo
  <2>3. p \in PCs /\ o.stage \in Stages /\ o.id \in Tasks \cup {None}
    BY <1>1, <1>3 DEF PCs
  <2> HIDE DEF o
  <2> QED BY <2>1, <2>2, <2>3, GoesCaching
<1>4. CASE AfterRead(t)
  <2>1. o.stage \in {"find", "prompt"} => t \in Turns
    BY <1>1 DEF Fits
  <2> QED BY <1>2, <1>3, <1>4, <2>1 DEF AfterRead, Edits
<1>5. CASE o.pc = "cache" /\ AfterWrite(t)
  <2>1. o.stage \in {"context", "budget", "answer", "tokens"} => t \in Turns
    BY <1>1 DEF Fits
  <2>2. ASSUME Set(t, "put", "model", o.id, Edit(t, "model", o.copy))
        PROVE  Shape'
    <3>1. o.copy \in Session /\ o.copy.key = KeyOf(o.id)
      BY <1>1, <1>5 DEF Fits
    <3>2. /\ Edit(t, "model", o.copy) \in Session
          /\ Edit(t, "model", o.copy).key = KeyOf(o.id)
      BY <3>1, EditType
    <3>3. Fits(t, [pc |-> "put", stage |-> "model", id |-> o.id,
                   copy |-> Edit(t, "model", o.copy)])
      BY <1>1, <3>2 DEF Fits
    <3>4. "model" \in Stages /\ "put" \in PCs
      BY DEF Stages, PCs
    <3> HIDE DEF o
    <3> QED BY <1>1, <2>2, <3>2, <3>3, <3>4, GoesCaching
  <2>3. CASE \/ o.stage = "new" /\ t \in Turns /\ Begin(t, "context", o.id)
             \/ o.stage = "context" /\ Begin(t, "prompt", o.id)
             \/ o.stage = "answer" /\ Begin(t, "tokens", o.id)
    BY <1>2, <2>1, <2>3 DEF Edits
  <2>4. CASE \/ MoveTo(t, "llm") \/ MoveTo(t, "leave") \/ MoveTo(t, "done")
             \/ o.stage = "archive" /\ MoveTo(t, "drop")
    BY <1>3, <2>4
  <2> QED BY <1>5, <2>2, <2>3, <2>4 DEF AfterWrite
<1> QED BY <1>4, <1>5

\* A read-modify-write of a session that fits leaves it in hand, edited.
LEMMA EditFits ==
    ASSUME Shape, NEW t \in Tasks, NEW c \in Session,
           op[t].pc \in {"get", "fill"}, op[t].stage \in Edits,
           c.key = KeyOf(op[t].id)
    PROVE  /\ Edit(t, op[t].stage, c) \in Session
           /\ Fits(t, [pc |-> "put", stage |-> op[t].stage, id |-> op[t].id,
                       copy |-> Edit(t, op[t].stage, c)])
<1>1. Fits(t, op[t])
  BY OneOp
<1>2. op[t].stage = "tokens" => t \in Turns
  BY <1>1 DEF Fits
<1>3. /\ Edit(t, op[t].stage, c) \in Session
      /\ Edit(t, op[t].stage, c).key = KeyOf(op[t].id)
  BY <1>2, EditType
<1>4. op[t].id \in Tasks /\ store[op[t].id] # NoSession
  BY <1>1 DEF Fits
<1>5. op[t].stage \in {"context", "budget", "answer", "tokens"} => t \in Turns
  BY <1>1 DEF Fits
<1> QED BY <1>3, <1>4, <1>5 DEF Fits, Edits

LEMMA ShapeFind ==
    ASSUME Shape, NEW t \in Turns, Find(t)
    PROVE  Shape'
<1>1. t \in Tasks /\ op[t].pc = "idle" /\ Fits(t, op[t])
  BY OneOp DEF Find, Tasks
<1>2. store[t] = NoSession
  BY <1>1 DEF Fits
<1>3. ASSUME NEW s \in Stored, store[s].key = Key[t],
             Take(t, "fill", "find", s, store[s]), raced' = raced,
             UNCHANGED <<data, faults, crowded>>
      PROVE  Shape'
  <2>1. s \in Tasks /\ store[s] \in Session /\ store[s].key = KeyOf(s)
    BY <1>3 DEF Stored, Shape, KeysMatch, TypeOK
  <2>2. Fits(t, [pc |-> "fill", stage |-> "find", id |-> s, copy |-> store[s]])
    BY <1>1, <2>1 DEF Fits, Reads
  <2>3. Set(t, "fill", "find", s, store[s]) /\ HistOK'
    BY <1>1, <1>3, <2>1, TakeOK
  <2>4. "fill" \in PCs /\ "find" \in Stages
    BY DEF PCs, Stages, Reads
  <2> QED BY <1>1, <1>3, <2>1, <2>2, <2>3, <2>4, Goes
<1>4. ASSUME Set(t, "count", "new", None, NoSession),
             raced' = raced \/ raced' = raced \cup {Key[t]},
             UNCHANGED <<contended, data, faults, crowded>>
      PROVE  Shape'
  <2>1. Fits(t, [pc |-> "count", stage |-> "new", id |-> None, copy |-> NoSession])
    BY <1>2 DEF Fits
  <2>2. HistOK'
    BY <1>1, <1>4 DEF HistOK, Shape, TypeOK, Keys, KeyOf
  <2>3. "count" \in PCs /\ "new" \in Stages
    BY DEF PCs, Stages
  <2> QED BY <1>1, <1>4, <2>1, <2>2, <2>3, Goes
<1> QED BY <1>3, <1>4 DEF Find

LEMMA ShapeRequest ==
    ASSUME Shape, NEW t \in Clients, Request(t)
    PROVE  Shape'
<1>1. t \in Tasks /\ op[t].pc = "idle" /\ Fits(t, op[t]) /\ HistOK'
  BY OneOp DEF Request, Tasks, Shape, TypeOK, HistOK, hist
<1>2. store[t] = NoSession /\ UNCHANGED data
  BY <1>1 DEF Fits, Request
<1>3. CASE Set(t, "count", "new", None, NoSession)
  <2>1. Fits(t, [pc |-> "count", stage |-> "new", id |-> None, copy |-> NoSession])
    BY <1>2 DEF Fits
  <2>2. "count" \in PCs /\ "new" \in Stages
    BY DEF PCs, Stages
  <2> QED BY <1>1, <1>2, <1>3, <2>1, <2>2, Goes
<1>4. ASSUME NEW s \in Stored, NEW g \in {"archive", "export"}, Begin(t, g, s)
      PROVE  Shape'
  <2>1. s \in Tasks /\ store[s] # NoSession
    BY DEF Stored
  <2>2. Fits(t, [pc |-> "get", stage |-> g, id |-> s, copy |-> NoSession])
    BY <2>1 DEF Fits, Edits
  <2>3. "get" \in PCs /\ g \in Stages /\ Set(t, "get", g, s, NoSession)
    BY <1>4 DEF PCs, Stages, Reads, Edits, Begin
  <2> QED BY <1>1, <1>2, <2>1, <2>2, <2>3, Goes
<1> QED BY <1>3, <1>4 DEF Request

LEMMA ShapeCount ==
    ASSUME Shape, NEW t \in Tasks, Count(t)
    PROVE  Shape'
<1>1. /\ op[t].pc = "count" /\ Fits(t, op[t]) /\ op[t].stage \in Stages
      /\ op[t].id \in Tasks \cup {None}
  BY OneOp DEF Count
<1>2. store[t] = NoSession /\ UNCHANGED data
  BY <1>1 DEF Fits, Count
<1>3. CASE MoveTo(t, "failed") /\ UNCHANGED <<crowded, contended>>
  <2>1. Fits(t, [pc |-> "failed", stage |-> op[t].stage, id |-> op[t].id,
                 copy |-> NoSession])
    BY <1>1 DEF Fits
  <2>2. "failed" \in PCs /\ Set(t, "failed", op[t].stage, op[t].id, NoSession)
    BY <1>3 DEF PCs, MoveTo
  <2>3. HistOK'
    BY <1>3 DEF Count, Shape, TypeOK, HistOK
  <2> QED BY <1>1, <1>2, <2>1, <2>2, <2>3, Goes
<1>4. CASE Take(t, "put", "new", t, NewSession(t))
           /\ crowded' \in {crowded, crowded + 1}
  <2>1. NewSession(t) \in Session /\ NewSession(t).key = KeyOf(t)
    BY DEF NewSession, Session, Keys
  <2>2. Fits(t, [pc |-> "put", stage |-> "new", id |-> t, copy |-> NewSession(t)])
    BY <1>2, <2>1 DEF Fits
  <2>3. Set(t, "put", "new", t, NewSession(t)) /\ HistOK'
    BY <1>4 DEF Take, Count, Shape, TypeOK, HistOK
  <2>4. "put" \in PCs /\ "new" \in Stages
    BY DEF PCs, Stages
  <2> QED BY <1>2, <2>1, <2>2, <2>3, <2>4, Goes
<1> QED BY <1>3, <1>4 DEF Count

LEMMA ShapeHit ==
    ASSUME Shape, NEW t \in Tasks, Hit(t)
    PROVE  Shape'
<1> DEFINE o == op[t]
           r == o.id
<1>1. /\ o.pc = "get" /\ Fits(t, o) /\ r \in Tasks /\ store[r] # NoSession
      /\ o.stage \in Stages
  BY OneOp DEF Hit, Fits
<1>2. cache[r] \in Session /\ cache[r].key = KeyOf(r)
  BY <1>1 DEF Hit, Shape, TypeOK, KeysMatch
<1>3. CASE AfterRead(t) /\ UNCHANGED contended
  <2>1. cache' = [cache EXCEPT ![r] = cache[r]]
    BY DEF Hit, data, Shape, TypeOK
  <2>2. UNCHANGED <<store, faults, hist>>
    BY <1>3 DEF Hit, data, hist
  <2> QED BY <1>1, <1>2, <1>3, <2>1, <2>2, ShapeAfter
<1>4. CASE /\ o.stage \in Edits
           /\ Take(t, "put", o.stage, r, Edit(t, o.stage, cache[r]))
  <2>1. /\ Edit(t, o.stage, cache[r]) \in Session
        /\ Fits(t, [pc |-> "put", stage |-> o.stage, id |-> r,
                    copy |-> Edit(t, o.stage, cache[r])])
    BY <1>1, <1>2, <1>4, EditFits
  <2>2. /\ Set(t, "put", o.stage, r, Edit(t, o.stage, cache[r])) /\ HistOK'
        /\ UNCHANGED data
    BY <1>1, <1>4, TakeOK DEF Hit
  <2>3. "put" \in PCs
    BY DEF PCs
  <2> HIDE DEF o, r
  <2> QED BY <1>1, <2>1, <2>2, <2>3, Goes
<1> QED BY <1>3, <1>4 DEF Hit

LEMMA ShapeMiss ==
    ASSUME Shape, NEW t \in Tasks, Miss(t)
    PROVE  Shape'
<1>1. /\ op[t].pc = "get" /\ Fits(t, op[t]) /\ op[t].stage \in Stages
      /\ op[t].id \in Tasks \cup {None}
  BY OneOp DEF Miss
<1>2. Fits(t, [pc |-> "load", stage |-> op[t].stage, id |-> op[t].id,
               copy |-> NoSession])
  BY <1>1 DEF Fits
<1>3. Set(t, "load", op[t].stage, op[t].id, NoSession) /\ UNCHANGED data
  BY DEF Miss, MoveTo
<1>4. "load" \in PCs /\ HistOK'
  BY DEF PCs, Miss, Shape, TypeOK, HistOK, hist
<1> QED BY <1>1, <1>2, <1>3, <1>4, Goes

LEMMA ShapeLoad ==
    ASSUME Shape, NEW t \in Tasks, Load(t)
    PROVE  Shape'
<1>1. /\ op[t].pc = "load" /\ Fits(t, op[t]) /\ op[t].stage \in Stages
      /\ op[t].id \in Tasks /\ store[op[t].id] # NoSession
  BY OneOp DEF Load, Fits
<1>2. store[op[t].id] \in Session /\ store[op[t].id].key = KeyOf(op[t].id)
  BY <1>1 DEF Shape, TypeOK, KeysMatch
<1>3. Fits(t, [pc |-> "fill", stage |-> op[t].stage, id |-> op[t].id,
               copy |-> store[op[t].id]])
  BY <1>1, <1>2 DEF Fits, Reads
<1>4. /\ Set(t, "fill", op[t].stage, op[t].id, store[op[t].id]) /\ UNCHANGED data
      /\ HistOK'
  BY <1>1, TakeOK DEF Load
<1>5. "fill" \in PCs
  BY DEF PCs
<1> QED BY <1>1, <1>2, <1>3, <1>4, <1>5, Goes

LEMMA ShapeFill ==
    ASSUME Shape, NEW t \in Tasks, Fill(t)
    PROVE  Shape'
<1> DEFINE o == op[t]
           r == o.id
<1>1. /\ o.pc = "fill" /\ Fits(t, o) /\ r \in Tasks /\ store[r] # NoSession
      /\ o.stage \in Stages /\ o.copy \in Session /\ o.copy.key = KeyOf(r)
      /\ o.stage \in Edits \cup Reads
  BY OneOp DEF Fill, Fits
<1>2. cache' = [cache EXCEPT ![r] = o.copy] /\ UNCHANGED <<store, faults, hist>>
  BY DEF Fill
<1>3. CASE o.stage \in Reads
  <2>1. AfterRead(t)
    BY <1>3 DEF Fill
  <2> QED BY <1>1, <1>2, <2>1, ShapeAfter
<1>4. CASE o.stage \notin Reads
  <2>1. Set(t, "put", o.stage, r, Edit(t, o.stage, o.copy))
    BY <1>4 DEF Fill
  <2>2. /\ Edit(t, o.stage, o.copy) \in Session
        /\ Fits(t, [pc |-> "put", stage |-> o.stage, id |-> r,
                    copy |-> Edit(t, o.stage, o.copy)])
    BY <1>1, <1>4, EditFits
  <2>3. "put" \in PCs
    BY DEF PCs
  <2> HIDE DEF o, r
  <2> QED BY <1>1, <1>2, <2>1, <2>2, <2>3, GoesCaching
<1> QED BY <1>3, <1>4

\* A write of copy c of session r to the store, by a request in stage g.
LEMMA PutFits ==
    ASSUME Shape, NEW t \in Tasks, NEW g \in Stages, NEW r \in Tasks,
           NEW c \in Session,
           Put(t), op[t].stage = g, op[t].id = r, op[t].copy = c
    PROVE  Shape'
<1>1. op[t].pc = "put" /\ Fits(t, op[t]) /\ c.key = KeyOf(r)
  BY OneOp DEF Put, Fits
<1>2. store[r] # NoSession \/ r = t
  BY <1>1 DEF Fits
<1>3. /\ store' = [store EXCEPT ![r] = c] /\ HistOK' /\ cache' = cache
      /\ Set(t, "cache", g, r, c)
  BY DEF Put, Shape, TypeOK, HistOK, hist
<1>4. store \in [Tasks -> Session \cup {NoSession}]
  BY DEF Shape, TypeOK
<1>5. store'[r] = c /\ \A s \in Tasks \ {r} : store'[s] = store[s]
  BY <1>3, <1>4
<1>6. Fits(t, [pc |-> "cache", stage |-> g, id |-> r, copy |-> c])'
  <2>1. g \in Edits \cup {"new", "model"}
        /\ (g \in {"find", "prompt", "context", "budget", "answer", "tokens"}
               => t \in Turns)
    BY <1>1 DEF Fits
  <2> QED BY <1>1, <1>5, <2>1 DEF Fits
<1>7. /\ op' \in [Tasks -> Op]
      /\ \A u \in Tasks : Fits(u, op[u])'
      /\ \A u \in Tasks : \/ op'[u].pc \in {"idle", "count", "failed"}
                          \/ op'[u].id \in Tasks
      /\ \A u \in Tasks : op'[u].pc \in {"fill", "put", "cache"}
                              => op'[u].copy \in Session
  <2>1. \A s \in Tasks : store[s] # NoSession => store'[s] # NoSession
    BY <1>5
  <2>2. \A s \in Tasks \ {t} : store'[s] # NoSession => store[s] # NoSession
    BY <1>2, <1>5
  <2>3. "cache" \in PCs
    BY DEF PCs
  <2> QED BY <1>3, <1>6, <2>1, <2>2, <2>3, SetFits
<1>8. KeysMatch'
  <2>1. ASSUME NEW s \in Tasks
        PROVE  /\ store'[s] # NoSession => store'[s].key = KeyOf(s)
               /\ cache'[s] # NoSession
                     => store'[s] # NoSession /\ cache'[s].key = KeyOf(s)
    BY <1>1, <1>3, <1>5 DEF Shape, KeysMatch
  <2> QED BY <2>1 DEF KeysMatch
<1>9. store' \in [Tasks -> Session \cup {NoSession}]
  BY <1>3, <1>4
<1> QED BY <1>3, <1>7, <1>8, <1>9 DEF Shape, TypeOK, HistOK

LEMMA ShapePut ==
    ASSUME Shape, NEW t \in Tasks, Put(t)
    PROVE  Shape'
<1>1. /\ op[t].stage \in Stages /\ op[t].id \in Tasks /\ op[t].copy \in Session
  BY OneOp DEF Put, Fits
<1> QED BY <1>1, PutFits

LEMMA ShapeInsert ==
    ASSUME Shape, NEW t \in Tasks, Insert(t)
    PROVE  Shape'
<1>1. /\ op[t].pc = "cache" /\ op[t].id \in Tasks /\ store[op[t].id] # NoSession
      /\ op[t].copy \in Session /\ op[t].copy.key = KeyOf(op[t].id)
  BY OneOp DEF Insert, Fits
<1>2. /\ cache' = [cache EXCEPT ![op[t].id] = op[t].copy]
      /\ UNCHANGED <<store, faults, hist>> /\ AfterWrite(t)
  BY DEF Insert
<1> QED BY <1>1, <1>2, ShapeAfter

LEMMA ShapeDrop ==
    ASSUME Shape, NEW t \in Tasks, Drop(t)
    PROVE  Shape'
<1>1. /\ op[t].pc = "drop" /\ Fits(t, op[t]) /\ op[t].stage \in Stages
      /\ op[t].id \in Tasks
  BY OneOp DEF Drop, Fits
<1>2. Fits(t, [pc |-> "done", stage |-> op[t].stage, id |-> op[t].id,
               copy |-> NoSession])
  BY <1>1 DEF Fits
<1>3. /\ Set(t, "done", op[t].stage, op[t].id, NoSession)
      /\ cache' = [cache EXCEPT ![op[t].id] = NoSession]
      /\ UNCHANGED <<store, faults, hist>>
  BY DEF Drop, MoveTo
<1>4. "done" \in PCs
  BY DEF PCs
<1> QED BY <1>1, <1>2, <1>3, <1>4, GoesCaching

LEMMA ShapeLlm ==
    ASSUME Shape, NEW t \in Turns, Llm(t)
    PROVE  Shape'
<1>1. /\ t \in Tasks /\ op[t].pc = "llm" /\ Fits(t, op[t]) /\ op[t].id \in Tasks
      /\ HistOK' /\ UNCHANGED data
  BY OneOp DEF Tasks, Llm, Fits, Shape, TypeOK, HistOK, hist
<1>2. Fits(t, [pc |-> "get", stage |-> "answer", id |-> op[t].id,
               copy |-> NoSession])
  BY <1>1 DEF Fits, Edits
<1>3. Fits(t, [pc |-> "leave", stage |-> "none", id |-> op[t].id,
               copy |-> NoSession])
  BY <1>1 DEF Fits
<1>4. "get" \in PCs /\ "leave" \in PCs /\ "answer" \in Stages /\ "none" \in Stages
  BY DEF PCs, Stages, Edits
<1>5. CASE Set(t, "get", "answer", op[t].id, NoSession)
  BY <1>1, <1>2, <1>4, <1>5, Goes
<1>6. CASE Set(t, "leave", "none", op[t].id, NoSession)
  BY <1>1, <1>3, <1>4, <1>6, Goes
<1> QED BY <1>5, <1>6 DEF Llm, Begin

LEMMA ShapeLeave ==
    ASSUME Shape, NEW t \in Turns, Leave(t)
    PROVE  Shape'
<1>1. /\ t \in Tasks /\ op[t].pc = "leave" /\ Fits(t, op[t]) /\ op[t].id \in Tasks
      /\ HistOK' /\ UNCHANGED data /\ op[t].stage \in Stages
  BY OneOp DEF Tasks, Leave, Fits, Shape, TypeOK, HistOK, hist
<1>2. PICK p \in {"done", "failed"} :
          Set(t, p, op[t].stage, op[t].id, NoSession)
  BY DEF Leave, MoveTo
<1>3. Fits(t, [pc |-> p, stage |-> op[t].stage, id |-> op[t].id,
               copy |-> NoSession])
  BY <1>1, <1>2 DEF Fits
<1>4. p \in PCs
  BY <1>2 DEF PCs
<1> QED BY <1>1, <1>2, <1>3, <1>4, Goes

LEMMA ShapeCut ==
    ASSUME Shape, NEW t \in Turns, Cut(t)
    PROVE  Shape'
<1>1. /\ t \in Tasks /\ Fits(t, op[t]) /\ op[t].id \in Tasks /\ UNCHANGED data
      /\ op[t].stage \in Stages
  BY OneOp DEF Tasks, Cut, Fits
<1>2. HistOK'
  BY <1>1 DEF Cut, Shape, TypeOK, HistOK
<1>3. Set(t, "failed", op[t].stage, op[t].id, NoSession)
  BY DEF Cut, MoveTo
<1>4. Fits(t, [pc |-> "failed", stage |-> op[t].stage, id |-> op[t].id,
               copy |-> NoSession])
  BY <1>1 DEF Fits
<1>5. "failed" \in PCs
  BY DEF PCs
<1> QED BY <1>1, <1>2, <1>3, <1>4, <1>5, Goes

LEMMA ShapeRestart ==
    ASSUME Shape, Restart
    PROVE  Shape'
<1>1. /\ store' = store /\ HistOK'
      /\ cache' \in [Tasks -> Session \cup {NoSession}]
  <2>1. /\ store' = store /\ cache' = [s \in Tasks |-> NoSession]
        /\ crowded' = crowded /\ raced' = raced /\ contended' = contended
        /\ faults' = faults + 1 /\ faults < MaxFaults
    BY DEF Restart, hist
  <2>2. faults \in 0..MaxFaults /\ crowded \in Nat /\ raced \subseteq Keys
        /\ contended \subseteq Tasks
    BY DEF Shape, TypeOK
  <2>3. faults' \in 0..MaxFaults
    BY <2>1, <2>2
  <2> QED BY <2>1, <2>2, <2>3 DEF HistOK
<1>2. KeysMatch'
  BY <1>1 DEF Restart, KeysMatch, Shape
<1>3. ASSUME NEW t \in Tasks
      PROVE  /\ op'[t] \in Op /\ Fits(t, op[t])'
             /\ op'[t].pc \in {"idle", "count", "failed"} \/ op'[t].id \in Tasks
             /\ op'[t].pc \in {"fill", "put", "cache"} => op'[t].copy \in Session
  <2>1. op[t] \in Op /\ Fits(t, op[t])
    BY OneOp
  <2>2. CASE op'[t] = op[t]
    BY <1>1, <2>1, <2>2 DEF Fits
  <2>3. CASE op'[t] = [op[t] EXCEPT !.pc = "failed", !.copy = NoSession]
    BY <1>1, <2>1, <2>3 DEF Fits, Op
  <2> QED BY <2>2, <2>3 DEF Restart
<1>4. op' \in [Tasks -> Op]
  BY <1>3 DEF Restart
<1> QED BY <1>1, <1>2, <1>3, <1>4 DEF Shape, TypeOK, HistOK

\* Every step keeps Shape.
LEMMA ShapeStep == Shape /\ [Next]_vars => Shape'
<1> SUFFICES ASSUME Shape, [Next]_vars PROVE Shape'
  OBVIOUS
<1>1. ASSUME NEW t \in Tasks, Step(t) PROVE Shape'
  BY <1>1, ShapeCount, ShapeHit, ShapeMiss, ShapeLoad, ShapeFill, ShapePut,
     ShapeInsert, ShapeDrop, ShapeLlm, ShapeLeave DEF Step
<1>2. CASE UNCHANGED vars
  <2>1. /\ store' = store /\ cache' = cache /\ op' = op /\ faults' = faults
        /\ crowded' = crowded /\ raced' = raced /\ contended' = contended
    BY <1>2 DEF vars, hist
  <2> QED BY <2>1 DEF Shape, TypeOK, KeysMatch, Fits
<1> QED BY <1>1, <1>2, ShapeFind, ShapeRequest, ShapeCut, ShapeRestart DEF Next

LEMMA ShapeInit == Init => Shape
BY DEF Init, Shape, TypeOK, KeysMatch, Fits, Op, Idle, Stages

\* Every variable keeps its type: in particular, whatever a request puts into
\* the store or the cache is a session, so no read of the store that filled the
\* cache found nothing.
THEOREM TypeCorrect == Spec => []TypeOK
<1>1. Shape => TypeOK
  BY DEF Shape
<1> QED BY <1>1, ShapeInit, ShapeStep, PTL DEF Spec

-----------------------------------------------------------------------------
(* The limit *)

LEMMA SetOne ==
    ASSUME Shape, NEW t \in Tasks, NEW p, NEW g, NEW s, NEW c, Set(t, p, g, s, c)
    PROVE  /\ op'[t].pc = p /\ op'[t].stage = g /\ op'[t].id = s /\ op'[t].copy = c
           /\ \A u \in Tasks \ {t} : op'[u] = op[u]
BY DEF Set, Shape, TypeOK

Moves(t) == \/ Step(t)
            \/ t \in Turns /\ (Find(t) \/ Cut(t))
            \/ t \in Clients /\ Request(t)

\* A request is on its way to a new session only from the count, and counts
\* only from the start.
LEMMA Onward ==
    ASSUME Shape, NEW t \in Tasks,
           Moves(t)
    PROVE  /\ \A u \in Tasks \ {t} : op'[u] = op[u]
           /\ Creating(t)' => Count(t) /\ op'[t].pc = "put"
           /\ op'[t].pc # "idle"
           /\ op'[t].pc = "count" => op[t].pc = "idle"
<1> DEFINE Quiet == /\ \A u \in Tasks \ {t} : op'[u] = op[u]
                    /\ op'[t].pc \notin {"idle", "count"}
                    /\ ~(op'[t].pc = "put" /\ op'[t].stage = "new")
<1>0. Quiet => /\ \A u \in Tasks \ {t} : op'[u] = op[u]
               /\ Creating(t)' => Count(t) /\ op'[t].pc = "put"
               /\ op'[t].pc # "idle"
               /\ op'[t].pc = "count" => op[t].pc = "idle"
  BY DEF Creating
<1>1. Fits(t, op[t])
  BY OneOp
<1>2. ASSUME Count(t) PROVE /\ \A u \in Tasks \ {t} : op'[u] = op[u]
                            /\ op'[t].pc \in {"put", "failed"}
  BY <1>2, SetOne DEF Count, MoveTo, Take
<1>3. ASSUME AfterRead(t) PROVE Quiet
  BY <1>3, SetOne DEF AfterRead, Begin, MoveTo
<1>4. ASSUME AfterWrite(t) PROVE Quiet
  BY <1>4, SetOne DEF AfterWrite, Begin, MoveTo
<1>5. ASSUME NEW p \in {"load", "done", "failed"}, MoveTo(t, p) PROVE Quiet
  BY <1>5, SetOne DEF MoveTo
<1>6. ASSUME NEW g \in Edits, NEW s, NEW c, Set(t, "put", g, s, c) PROVE Quiet
  BY <1>6, SetOne DEF Edits
<1>7. ASSUME NEW p \in {"fill", "cache"}, NEW g, NEW s, NEW c, Set(t, p, g, s, c)
      PROVE Quiet
  BY <1>7, SetOne
<1>8. ASSUME Hit(t) PROVE Quiet
  BY <1>3, <1>6, <1>8 DEF Hit, Take
<1>9. ASSUME Fill(t) PROVE Quiet
  <2>1. op[t].stage \in Edits \cup Reads
    BY <1>1, <1>9 DEF Fits, Fill
  <2> QED BY <1>3, <1>6, <1>9, <2>1 DEF Fill
<1>10. ASSUME Miss(t) \/ Load(t) \/ Put(t) \/ Insert(t) \/ Drop(t) PROVE Quiet
  BY <1>4, <1>5, <1>7, <1>10 DEF Miss, Load, Put, Insert, Drop, Take
<1>11. ASSUME Llm(t) \/ Leave(t) PROVE Quiet
  <2>1. CASE Llm(t)
    BY <2>1, SetOne DEF Llm, Begin
  <2>2. CASE Leave(t)
    BY <1>5, <2>2 DEF Leave
  <2> QED BY <1>11, <2>1, <2>2
<1>12. ASSUME Find(t) \/ Request(t)
       PROVE  /\ \A u \in Tasks \ {t} : op'[u] = op[u]
              /\ op'[t].pc \in {"fill", "count", "get"} /\ op[t].pc = "idle"
  BY <1>12, SetOne DEF Find, Request, Begin, Take
<1>13. Find(t) \/ Request(t) => ~Creating(t)'
  BY <1>12 DEF Creating
<1>14. ASSUME Cut(t) PROVE Quiet
  BY <1>5, <1>14 DEF Cut
<1>15. CASE Step(t)
  <2> HIDE DEF Quiet
  <2> QED BY <1>0, <1>2, <1>8, <1>9, <1>10, <1>11, <1>15 DEF Step, Creating
<1>16. CASE Cut(t)
  <2> HIDE DEF Quiet
  <2> QED BY <1>0, <1>14, <1>16
<1> QED BY <1>12, <1>13, <1>15, <1>16 DEF Moves

LEMMA NextCases ==
    ASSUME Next
    PROVE  (\E t \in Tasks : Moves(t)) \/ Restart
<1>1. Turns \subseteq Tasks /\ Clients \subseteq Tasks
  BY DEF Tasks
<1>2. CASE \E t \in Turns : Find(t)
  <2>1. PICK t \in Turns : Find(t)
    BY <1>2
  <2> QED BY <1>1, <2>1 DEF Moves
<1>3. CASE \E t \in Clients : Request(t)
  <2>1. PICK t \in Clients : Request(t)
    BY <1>3
  <2> QED BY <1>1, <2>1 DEF Moves
<1>4. CASE \E t \in Tasks : Step(t)
  BY <1>4 DEF Moves
<1>5. CASE \E t \in Turns : Cut(t)
  <2>1. PICK t \in Turns : Cut(t)
    BY <1>5
  <2> QED BY <1>1, <2>1 DEF Moves
<1> QED BY <1>2, <1>3, <1>4, <1>5 DEF Next

\* Nothing but Put and Restart changes the store or empties the hands of more
\* than one request.
LEMMA StoreStays ==
    ASSUME NEW t \in Tasks,
           Moves(t),
           ~Put(t)
    PROVE  store' = store
<1>1. CASE Step(t)
  BY <1>1 DEF Step, Count, Hit, Miss, Load, Fill, Insert, Drop, Llm, Leave, data
<1> QED BY <1>1 DEF Moves, Find, Request, Cut, data

Cre == {t \in Tasks : Creating(t)}

LimitInv == Cardinality(Stored) + Cardinality(Cre) <= MaxSessions + crowded

LEMMA Finite ==
    /\ IsFiniteSet(Stored) /\ Cardinality(Stored) \in Nat
    /\ IsFiniteSet(Cre) /\ Cardinality(Cre) \in Nat
<1>1. Stored \subseteq Tasks /\ Cre \subseteq Tasks
  BY DEF Stored, Cre
<1> QED BY <1>1, FS_Subset, FS_CardinalityType

\* Fewer creations under way, and as many sessions: the limit is kept.
LEMMA LimitFewer ==
    ASSUME Shape, Shape', LimitInv, Stored' = Stored, Cre' \subseteq Cre,
           crowded' = crowded
    PROVE  LimitInv'
<1>1. Cardinality(Cre') <= Cardinality(Cre) /\ Cardinality(Cre') \in Nat
  BY Finite, FS_Subset, FS_CardinalityType
<1>2. crowded \in Nat
  BY DEF Shape, TypeOK
<1> QED BY <1>1, <1>2, Finite DEF LimitInv

LEMMA LimitCount ==
    ASSUME Shape, Shape', LimitInv, NEW t \in Tasks, Count(t), Creating(t)',
           \A u \in Tasks \ {t} : op'[u] = op[u]
    PROVE  LimitInv'
<1>1. Cre' = Cre \cup {t} /\ t \notin Cre /\ Stored' = Stored
  BY DEF Cre, Creating, Count, Stored, data
<1>2. Cardinality(Cre') = Cardinality(Cre) + 1
  BY <1>1, Finite, FS_AddElement
<1>3. op'[t].pc = "put"
  BY DEF Creating
<1>4. /\ Cardinality(Stored) < MaxSessions
      /\ crowded' = IF Cre # {} THEN crowded + 1 ELSE crowded
  <2>1. ~MoveTo(t, "failed")
    BY <1>3, SetOne DEF MoveTo
  <2> QED BY <2>1 DEF Count, Cre
<1>5. crowded \in Nat
  BY DEF Shape, TypeOK
<1>6. CASE Cre = {}
  <2>1. Cardinality(Cre) = 0
    BY <1>6, FS_EmptySet
  <2> QED BY <1>1, <1>2, <1>4, <1>5, <1>6, <2>1, Finite DEF LimitInv
<1>7. CASE Cre # {}
  BY <1>1, <1>2, <1>4, <1>5, <1>7, Finite DEF LimitInv
<1> QED BY <1>6, <1>7

LEMMA LimitPut ==
    ASSUME Shape, Shape', LimitInv, NEW t \in Tasks, Put(t),
           \A u \in Tasks \ {t} : op'[u] = op[u]
    PROVE  LimitInv'
<1>1. /\ op[t].pc = "put" /\ Fits(t, op[t]) /\ op[t].copy \in Session
      /\ op[t].id \in Tasks
  BY OneOp DEF Put, Fits
<1>2. /\ store' = [store EXCEPT ![op[t].id] = op[t].copy] /\ crowded' = crowded
      /\ op'[t].pc = "cache"
  BY SetOne DEF Put, hist
<1>3. store \in [Tasks -> Session \cup {NoSession}]
  BY DEF Shape, TypeOK
<1>4. Cre' = Cre \ {t}
  BY <1>2 DEF Cre, Creating
<1>5. Stored' = Stored \cup {op[t].id}
  BY <1>1, <1>2, <1>3 DEF Stored
<1>6. CASE Creating(t)
  <2>1. t \in Cre /\ op[t].id = t /\ t \notin Stored
    BY <1>1, <1>6 DEF Cre, Creating, Fits, Stored
  <2>2. Cardinality(Cre') = Cardinality(Cre) - 1
    BY <1>4, <2>1, Finite, FS_RemoveElement
  <2>3. Cardinality(Stored') = Cardinality(Stored) + 1
    BY <1>5, <2>1, Finite, FS_AddElement
  <2>4. crowded \in Nat
    BY DEF Shape, TypeOK
  <2> QED BY <1>2, <2>2, <2>3, <2>4, Finite DEF LimitInv
<1>7. CASE ~Creating(t)
  <2>1. op[t].id \in Stored
    BY <1>1, <1>7 DEF Creating, Fits, Stored
  <2> QED BY <1>2, <1>4, <1>5, <2>1, LimitFewer
<1> QED BY <1>6, <1>7

\* Every step keeps the count of sessions and creations within the limit.
LEMMA LimitStep == Shape /\ Shape' /\ LimitInv /\ [Next]_vars => LimitInv'
<1> SUFFICES ASSUME Shape, Shape', LimitInv, [Next]_vars PROVE LimitInv'
  OBVIOUS
<1>1. ASSUME NEW t \in Tasks,
             Moves(t)
      PROVE  LimitInv'
  <2>1. /\ \A u \in Tasks \ {t} : op'[u] = op[u]
        /\ Creating(t)' => Count(t)
    BY <1>1, Onward
  <2>2. CASE Put(t)
    BY <2>1, <2>2, LimitPut
  <2>3. CASE Creating(t)'
    BY <2>1, <2>3, LimitCount
  <2>4. CASE ~Put(t) /\ ~Creating(t)'
    <3>1. Stored' = Stored
      BY <1>1, <2>4, StoreStays DEF Stored
    <3>2. Cre' \subseteq Cre
      BY <2>1, <2>4 DEF Cre, Creating
    <3>3. CASE crowded' = crowded
      BY <3>1, <3>2, <3>3, LimitFewer
    <3>4. CASE crowded' # crowded
      <4>1. Count(t)
        <5>1. CASE Step(t)
          BY <3>4, <2>4, <5>1 DEF Step, Hit, Miss, Load, Fill, Insert, Drop, Llm,
                                  Leave, hist
        <5> QED BY <1>1, <3>4, <5>1 DEF Moves, Find, Request, Cut, hist
      <4>2. CASE MoveTo(t, "failed") /\ UNCHANGED crowded
        BY <3>4, <4>2
      <4>3. CASE Take(t, "put", "new", t, NewSession(t))
        BY <2>4, <4>3, SetOne DEF Take, Creating
      <4> QED BY <4>1, <4>2, <4>3 DEF Count
    <3> QED BY <3>3, <3>4
  <2> QED BY <2>2, <2>3, <2>4
<1>2. CASE Restart
  <2>1. Stored' = Stored /\ crowded' = crowded
    BY <1>2 DEF Restart, Stored, hist
  <2>2. Cre' \subseteq Cre
    BY <1>2 DEF Restart, Cre, Creating, Ended, Shape, TypeOK, Op
  <2> QED BY <2>1, <2>2, LimitFewer
<1>3. CASE UNCHANGED vars
  <2>1. Stored' = Stored /\ crowded' = crowded /\ Cre' = Cre
    BY <1>3 DEF vars, hist, Stored, Cre, Creating
  <2> QED BY <2>1, LimitFewer
<1>4. CASE Next
  BY <1>1, <1>2, <1>4, NextCases, Zenon
<1> QED BY <1>3, <1>4

\* create_session keeps the table within max_sessions but for the creations
\* that passed the check while another one was past it: each of them may add
\* one session, and no more.
THEOREM LimitKeptTheorem == Spec => []LimitKept
<1>1. Init => LimitInv
  <2> SUFFICES ASSUME Init PROVE LimitInv
    OBVIOUS
  <2>1. Stored = {} /\ Cre = {}
    BY DEF Init, Stored, Cre, Creating, Idle
  <2> QED BY <2>1, FS_EmptySet DEF Init, LimitInv
<1>2. Shape /\ LimitInv => LimitKept
  <2> SUFFICES ASSUME Shape, LimitInv PROVE LimitKept
    OBVIOUS
  <2>1. crowded \in Nat
    BY DEF Shape, TypeOK
  <2> QED BY <2>1, Finite DEF LimitInv, LimitKept
<1> QED BY <1>1, <1>2, ShapeInit, ShapeStep, LimitStep, PTL DEF Spec

-----------------------------------------------------------------------------
(* One session per key *)

\* u has a session of its own, or is on its way to one.
Owner(u) == u \in Stored \/ op[u].pc = "count" \/ Creating(u)

KeyInv ==
    /\ \A t \in Turns : Owner(t) => Key[t] \notin Clients
    /\ \A r, s \in Tasks :
           (r # s /\ Owner(r) /\ Owner(s) /\ KeyOf(r) = KeyOf(s))
               => KeyOf(r) \in raced

LEMMA KeyFewer ==
    ASSUME KeyInv, \A u \in Tasks : Owner(u)' => Owner(u), raced \subseteq raced'
    PROVE  KeyInv'
<1>1. Turns \subseteq Tasks
  BY DEF Tasks
<1> QED BY <1>1 DEF KeyInv

\* A request in count is new there: no other one had its key, or it is raced.
LEMMA KeyMore ==
    ASSUME Shape, KeyInv, NEW t \in Tasks,
           \A u \in Tasks \ {t} : Owner(u)' => Owner(u),
           raced \subseteq raced',
           t \in Turns => Key[t] \notin Clients,
           \A u \in Tasks \ {t} : (Owner(u) /\ KeyOf(u) = KeyOf(t))
                                    => KeyOf(t) \in raced'
    PROVE  KeyInv'
<1>1. Turns \subseteq Tasks
  BY DEF Tasks
<1>2. \A u \in Turns : Owner(u)' => Key[u] \notin Clients
  BY <1>1 DEF KeyInv
<1>3. ASSUME NEW r \in Tasks, NEW s \in Tasks, r # s, Owner(r)', Owner(s)',
             KeyOf(r) = KeyOf(s)
      PROVE  KeyOf(r) \in raced'
  <2>1. CASE r # t /\ s # t
    BY <1>3, <2>1 DEF KeyInv
  <2>2. CASE r = t
    BY <1>3, <2>2
  <2>3. CASE s = t
    BY <1>3, <2>3
  <2> QED BY <2>1, <2>2, <2>3
<1>4. (\A r, s \in Tasks :
          (r # s /\ Owner(r) /\ Owner(s) /\ KeyOf(r) = KeyOf(s))
              => KeyOf(r) \in raced)'
  BY <1>3
<1> QED BY <1>2, <1>4 DEF KeyInv

LEMMA KeyFind ==
    ASSUME Shape, KeyInv, NEW t \in Turns, Find(t)
    PROVE  KeyInv'
<1> DEFINE found == {s \in Stored : store[s].key = Key[t]}
           others == {u \in Turns \ {t} : /\ Key[u] = Key[t]
                                          /\ op[u].pc = "count" \/ Creating(u)}
<1>1. /\ t \in Tasks /\ op[t].pc = "idle" /\ Stored' = Stored /\ KeyOf(t) = Key[t]
      /\ Key[t] \in Clients => Key[t] \in Stored
  BY DEF Find, Tasks, Stored, data, KeyOf
<1>2. \A u \in Tasks \ {t} : op'[u] = op[u]
  BY <1>1, Onward DEF Moves
<1>3. \A u \in Tasks \ {t} : Owner(u)' => Owner(u)
  BY <1>1, <1>2 DEF Owner, Creating
<1>4. ASSUME NEW s, Set(t, "fill", "find", s, store[s]), raced' = raced
      PROVE  KeyInv'
  <2>1. op'[t].pc = "fill"
    BY <1>1, <1>4, SetOne
  <2>2. \A u \in Tasks : Owner(u)' => Owner(u)
    BY <1>1, <1>3, <2>1 DEF Owner, Creating
  <2> QED BY <1>4, <2>2, KeyFewer
<1>5. CASE /\ found = {}
           /\ raced' = IF others = {} THEN raced ELSE raced \cup {Key[t]}
  <2>1. \A s \in Stored : KeyOf(s) # Key[t]
    BY <1>5 DEF Shape, KeysMatch, Stored
  <2>2. Key[t] \notin Clients
    <3>1. Key[t] \in Clients => KeyOf(Key[t]) = Key[t]
      BY DEF KeyOf
    <3> QED BY <1>1, <2>1, <3>1
  <2>3. ASSUME NEW u \in Tasks \ {t}, Owner(u), KeyOf(u) = KeyOf(t)
        PROVE  KeyOf(t) \in raced'
    <3>1. u \notin Clients
      BY <1>1, <2>2, <2>3 DEF KeyOf
    <3>2. u \in Turns /\ Key[u] = Key[t]
      BY <1>1, <2>3, <3>1 DEF Tasks, KeyOf
    <3>3. u \notin Stored
      BY <1>1, <2>1, <2>3
    <3>4. u \in others
      BY <2>3, <3>2, <3>3 DEF Owner
    <3> QED BY <1>1, <1>5, <3>4
  <2>4. raced \subseteq raced'
    BY <1>5
  <2> HIDE DEF found, others
  <2> QED BY <1>1, <1>3, <2>2, <2>3, <2>4, KeyMore
<1> QED BY <1>4, <1>5 DEF Find, Take

LEMMA KeyRequest ==
    ASSUME Shape, KeyInv, NEW t \in Clients, Request(t)
    PROVE  KeyInv'
<1>1. /\ t \in Tasks /\ t \notin Turns /\ Stored' = Stored /\ raced' = raced
      /\ KeyOf(t) = t
  BY DEF Request, Tasks, Stored, data, hist, KeyOf
<1>2. \A u \in Tasks \ {t} : op'[u] = op[u]
  BY <1>1, Onward DEF Moves
<1>3. \A u \in Tasks \ {t} : Owner(u)' => Owner(u)
  BY <1>1, <1>2 DEF Owner, Creating
<1>4. ASSUME NEW u \in Tasks \ {t}, Owner(u) PROVE KeyOf(u) # KeyOf(t)
  <2>1. u \in Turns => Key[u] # t
    BY <1>4 DEF KeyInv
  <2> QED BY <1>1, <1>4, <2>1 DEF KeyOf
<1> QED BY <1>1, <1>3, <1>4, KeyMore

LEMMA KeyCut ==
    ASSUME Shape, KeyInv, NEW t \in Turns, Cut(t)
    PROVE  KeyInv'
<1>1. /\ t \in Tasks /\ Stored' = Stored /\ raced' = raced
      /\ op'[t].pc = "failed" /\ \A u \in Tasks \ {t} : op'[u] = op[u]
  BY SetOne DEF Cut, MoveTo, Tasks, Stored, data
<1>2. \A u \in Tasks : Owner(u)' => Owner(u)
  BY <1>1 DEF Owner, Creating
<1> QED BY <1>1, <1>2, KeyFewer

\* Every step keeps a key with one owner, or makes it raced.
LEMMA KeyStep == Shape /\ KeyInv /\ [Next]_vars => KeyInv'
<1> SUFFICES ASSUME Shape, KeyInv, [Next]_vars PROVE KeyInv'
  OBVIOUS
<1>1. ASSUME NEW t \in Tasks, Step(t)
      PROVE  KeyInv'
  <2>1. /\ \A u \in Tasks \ {t} : op'[u] = op[u]
        /\ Creating(t)' => Count(t)
        /\ op'[t].pc = "count" => op[t].pc = "idle"
    BY <1>1, Onward DEF Moves
  <2>2. raced' = raced /\ op[t].pc # "idle"
    BY <1>1 DEF Step, Count, Hit, Miss, Load, Fill, Put, Insert, Drop, Llm, Leave,
                hist
  <2>3. Creating(t)' => Owner(t)
    BY <2>1 DEF Count, Owner
  <2>4. ASSUME NEW u \in Tasks, u \in Stored' PROVE Owner(u)
    <3>1. CASE Put(t)
      <4>1. Fits(t, op[t]) /\ store' = [store EXCEPT ![op[t].id] = op[t].copy]
        BY <3>1, OneOp DEF Put
      <4>2. op[t].pc = "put"
        BY <3>1 DEF Put
      <4>3. CASE u # op[t].id
        BY <2>4, <4>1, <4>3 DEF Shape, TypeOK, Stored, Owner
      <4>4. CASE u = op[t].id
        BY <4>1, <4>2, <4>4 DEF Fits, Stored, Owner, Creating
      <4> QED BY <4>3, <4>4
    <3>2. CASE ~Put(t)
      BY <1>1, <2>4, <3>2, StoreStays DEF Moves, Stored, Owner
    <3> QED BY <3>1, <3>2
  <2>5. ASSUME NEW u \in Tasks, Owner(u)' PROVE Owner(u)
    BY <2>1, <2>2, <2>3, <2>4, <2>5 DEF Owner, Creating
  <2> QED BY <2>2, <2>5, KeyFewer
<1>2. CASE Restart
  <2>1. Stored' = Stored /\ raced' = raced
    BY <1>2 DEF Restart, Stored, hist
  <2>2. ASSUME NEW u \in Tasks, Owner(u)' PROVE Owner(u)
    BY <1>2, <2>1, <2>2 DEF Restart, Owner, Creating, Ended, Shape, TypeOK, Op
  <2> QED BY <2>1, <2>2, KeyFewer
<1>3. CASE UNCHANGED vars
  <2>1. Stored' = Stored /\ raced' = raced /\ op' = op
    BY <1>3 DEF vars, hist, Stored
  <2> QED BY <2>1, KeyFewer DEF Owner, Creating
<1> QED BY <1>1, <1>2, <1>3, KeyFind, KeyRequest, KeyCut DEF Next

\* A key gets a second session only if two turns looked it up in vain before
\* either of them had stored one: otherwise all its turns share one session,
\* whatever other keys, exports, archivings and faults go on beside them.
THEOREM OneSessionPerKeyTheorem == Spec => []OneSessionPerKey
<1>1. Init => KeyInv
  <2> SUFFICES ASSUME Init PROVE KeyInv
    OBVIOUS
  <2>1. \A u \in Tasks : ~Owner(u)
    BY DEF Init, Owner, Stored, Creating, Idle
  <2> QED BY <2>1 DEF KeyInv, Tasks
<1>2. Shape /\ KeyInv => OneSessionPerKey
  BY DEF Shape, KeysMatch, KeyInv, Owner, OneSessionPerKey, Stored
<1> QED BY <1>1, <1>2, ShapeInit, ShapeStep, KeyStep, PTL DEF Spec

-----------------------------------------------------------------------------
(* Sessions that only one request at a time has had in hand *)

\* Session b holds all that a holds.
Grows(a, b) == /\ a.tokens \subseteq b.tokens
               /\ a.archived => b.archived
               /\ a.model => b.model

\* What stage g of t is for is in session s.
Wrote(t, g, s) == /\ g = "tokens"  => t \in s.tokens
                  /\ g = "archive" => s.archived
                  /\ g = "model"   => s.model

\* A request with an uncontended session in hand has the stored one, that one
\* with its own edit, or a new one; what it has written stays.
Hand(t) ==
    LET o == op[t]
    IN  /\ (o.pc = "put" /\ o.stage = "new") => o.copy = NewSession(t)
        /\ o.id \notin contended =>
            /\ o.pc \in {"fill", "cache"} => o.copy = store[o.id]
            /\ (o.pc = "put" /\ o.stage # "new")
                   => o.copy = Edit(t, o.stage, store[o.id])
            /\ o.pc \in {"cache", "drop", "leave", "done"}
                   => Wrote(t, o.stage, store[o.id])

Alone == \A s \in Tasks \ contended : \A u, v \in Tasks :
             Holds(u, s) /\ Holds(v, s) => u = v

\* The cache lags behind the store only between the two halves of a write.
Lags(s) == \E u \in Tasks : Holds(u, s) /\ op[u].pc = "cache"

Coherent == \A s \in Tasks \ contended :
                Lags(s) \/ cache[s] \in {NoSession, store[s]}

HandInv == Alone /\ Coherent /\ \A t \in Tasks : Hand(t)

LEMMA EditGrows ==
    ASSUME NEW t \in Tasks, NEW s \in Session, NEW g \in Edits \cup {"model"},
           g = "tokens" => t \in Turns
    PROVE  Grows(s, Edit(t, g, s)) /\ Wrote(t, g, Edit(t, g, s))
<1>1. g \in {"context", "budget", "answer"} => Edit(t, g, s) = s
  BY DEF Edit
<1>2. g = "tokens" => Edit(t, g, s) = [s EXCEPT !.tokens = @ \cup {t}]
  BY DEF Edit
<1>3. g = "archive" => Edit(t, g, s) = [s EXCEPT !.archived = TRUE]
  BY DEF Edit
<1>4. g = "model" => Edit(t, g, s) = [s EXCEPT !.model = TRUE]
  BY DEF Edit
<1>5. CASE g \in {"context", "budget", "answer"}
  BY <1>1, <1>5 DEF Grows, Wrote
<1>6. CASE g = "tokens"  BY <1>2, <1>6 DEF Session, Grows, Wrote
<1>7. CASE g = "archive" BY <1>3, <1>7 DEF Session, Grows, Wrote
<1>8. CASE g = "model"   BY <1>4, <1>8 DEF Session, Grows, Wrote
<1> QED BY <1>5, <1>6, <1>7, <1>8 DEF Edits

LEMMA GrowsKeeps ==
    ASSUME NEW a, NEW b, NEW t, NEW g, Grows(a, b), Wrote(t, g, a)
    PROVE  Wrote(t, g, b)
<1>1. g = "tokens" => t \in b.tokens
  <2>1. a.tokens \subseteq b.tokens /\ (g = "tokens" => t \in a.tokens)
    BY DEF Grows, Wrote
  <2> QED BY <2>1
<1>2. g = "archive" => b.archived
  <2>1. (a.archived => b.archived) /\ (g = "archive" => a.archived)
    BY Zenon DEF Grows, Wrote
  <2> QED BY <2>1, Zenon
<1>3. g = "model" => b.model
  <2>1. (a.model => b.model) /\ (g = "model" => a.model)
    BY Zenon DEF Grows, Wrote
  <2> QED BY <2>1, Zenon
<1> QED BY <1>1, <1>2, <1>3, Zenon DEF Wrote

\* What is about to be written to an uncontended session is its own edit of
\* what is stored, or the new session.
LEMMA PutEdits ==
    ASSUME Shape, HandInv, NEW t \in Tasks, op[t].pc = "put",
           op[t].id \notin contended
    PROVE  /\ op[t].stage = "new" => op[t].copy = NewSession(t)
           /\ op[t].stage # "new" =>
                 /\ op[t].copy = Edit(t, op[t].stage, store[op[t].id])
                 /\ Grows(store[op[t].id], op[t].copy)
                 /\ Wrote(t, op[t].stage, op[t].copy)
<1>1. Hand(t) /\ Fits(t, op[t])
  BY OneOp DEF HandInv
<1>2. CASE op[t].stage = "new"
  BY <1>1, <1>2 DEF Hand
<1>3. CASE op[t].stage # "new"
  <2>1. /\ op[t].stage \in Edits \cup {"model"}
        /\ op[t].stage = "tokens" => t \in Turns
        /\ op[t].id \in Tasks /\ store[op[t].id] # NoSession
    BY <1>1, <1>3 DEF Fits
  <2>2. store[op[t].id] \in Session
    BY <2>1 DEF Shape, TypeOK
  <2>3. op[t].copy = Edit(t, op[t].stage, store[op[t].id])
    BY <1>1, <1>3 DEF Hand
  <2> QED BY <1>3, <2>1, <2>2, <2>3, EditGrows
<1> QED BY <1>2, <1>3

\* The others are as they were, if t is alone with what it takes.
LEMMA AloneStep ==
    ASSUME HandInv, NEW t \in Tasks, contended \subseteq contended',
           \A u \in Tasks \ {t} : op'[u] = op[u],
           op'[t].pc \in {"fill", "put", "cache"} =>
               \/ op'[t].id \in contended'
               \/ Holds(t, op'[t].id)
               \/ \A u \in Tasks \ {t} : ~Holds(u, op'[t].id)
    PROVE  Alone'
<1>1. ASSUME NEW s \in Tasks \ contended', NEW u \in Tasks, NEW v \in Tasks,
             Holds(u, s)', Holds(v, s)', u # v
      PROVE  FALSE
  <2>1. \A w \in Tasks \ {t} : Holds(w, s)' => Holds(w, s)
    BY DEF Holds
  <2>2. CASE u # t /\ v # t
    BY <1>1, <2>1, <2>2 DEF HandInv, Alone
  <2>3. ASSUME NEW w \in Tasks \ {t}, Holds(w, s)', Holds(t, s)'
        PROVE  FALSE
    <3>1. op'[t].pc \in {"fill", "put", "cache"} /\ op'[t].id = s
      BY <2>3 DEF Holds
    <3>2. Holds(w, s)
      BY <2>1, <2>3
    <3>3. ~Holds(t, s)
      BY <1>1, <2>3, <3>2 DEF HandInv, Alone
    <3> QED BY <1>1, <3>1, <3>2, <3>3
  <2> QED BY <1>1, <2>2, <2>3
<1> QED BY <1>1 DEF Alone

\* A step of t that changes neither the store nor the cache.
LEMMA HandQuiet ==
    ASSUME Shape, HandInv, NEW t \in Tasks, contended \subseteq contended',
           UNCHANGED data, \A u \in Tasks \ {t} : op'[u] = op[u],
           op[t].pc # "cache", op'[t].pc # "cache",
           op'[t].pc \in {"fill", "put"} =>
               \/ op'[t].id \in contended'
               \/ \A u \in Tasks \ {t} : ~Holds(u, op'[t].id),
           Hand(t)'
    PROVE  HandInv'
<1>1. store' = store /\ cache' = cache
  BY DEF data
<1>2. Alone'
  BY AloneStep
<1>3. ASSUME NEW u \in Tasks PROVE Hand(u)'
  <2>1. CASE u = t
    BY <2>1
  <2>2. CASE u # t
    BY <1>1, <2>2 DEF HandInv, Hand
  <2> QED BY <2>1, <2>2
<1>4. ASSUME NEW s \in Tasks \ contended'
      PROVE  Lags(s)' \/ cache'[s] \in {NoSession, store'[s]}
  <2>1. CASE Lags(s)
    <3>1. PICK u \in Tasks : Holds(u, s) /\ op[u].pc = "cache"
      BY <2>1 DEF Lags
    <3>2. Holds(u, s)' /\ op'[u].pc = "cache"
      BY <3>1 DEF Holds
    <3> QED BY <3>2 DEF Lags
  <2>2. CASE cache[s] \in {NoSession, store[s]}
    BY <1>1, <2>2
  <2> QED BY <2>1, <2>2 DEF HandInv, Coherent
<1>5. Coherent'
  BY <1>4 DEF Coherent
<1> QED BY <1>2, <1>3, <1>5 DEF HandInv

LEMMA HandTake ==
    ASSUME Shape, HandInv, NEW t \in Tasks, NEW p \in {"fill", "put"}, NEW g,
           NEW s \in Tasks, NEW c, Take(t, p, g, s, c), UNCHANGED data,
           op[t].pc # "cache",
           (p = "fill" /\ s \notin contended') => c = store[s],
           (p = "put" /\ g = "new") => c = NewSession(t),
           (p = "put" /\ g # "new" /\ s \notin contended') => c = Edit(t, g, store[s])
    PROVE  HandInv'
<1>1. /\ op'[t].pc = p /\ op'[t].stage = g /\ op'[t].id = s /\ op'[t].copy = c
      /\ \A u \in Tasks \ {t} : op'[u] = op[u]
  BY SetOne DEF Take
<1>2. store' = store
  BY DEF data
<1>3. /\ contended \subseteq contended'
      /\ s \in contended' \/ \A u \in Tasks \ {t} : ~Holds(u, s)
  BY DEF Take
<1>4. Hand(t)'
  BY <1>1, <1>2 DEF Hand
<1> QED BY <1>1, <1>3, <1>4, HandQuiet

\* A step that leaves t with nothing in hand, and nothing more to answer for.
LEMMA HandFree ==
    ASSUME Shape, HandInv, NEW t \in Tasks, NEW p, NEW g, NEW s,
           Set(t, p, g, s, NoSession), UNCHANGED <<data, contended>>,
           op[t].pc # "cache", p \notin {"fill", "put", "cache"},
           \/ p \notin {"drop", "leave", "done"}
           \/ g \notin {"tokens", "archive", "model"}
           \/ op[t].pc = "leave" /\ g = op[t].stage /\ s = op[t].id
    PROVE  HandInv'
<1>1. /\ op'[t].pc = p /\ op'[t].stage = g /\ op'[t].id = s
      /\ \A u \in Tasks \ {t} : op'[u] = op[u]
  BY SetOne
<1>2. store' = store /\ contended' = contended
  BY DEF data
<1>3. Hand(t)'
  <2>1. CASE p \notin {"drop", "leave", "done"}
    BY <1>1, <2>1 DEF Hand
  <2>2. CASE g \notin {"tokens", "archive", "model"}
    BY <1>1, <2>2 DEF Hand, Wrote
  <2>3. CASE op[t].pc = "leave" /\ g = op[t].stage /\ s = op[t].id
    BY <1>1, <1>2, <2>3 DEF Hand, HandInv
  <2> QED BY <2>1, <2>2, <2>3
<1> QED BY <1>1, <1>2, <1>3, HandQuiet

LEMMA HandFind ==
    ASSUME Shape, HandInv, NEW t \in Turns, Find(t)
    PROVE  HandInv'
<1>1. t \in Tasks /\ op[t].pc = "idle" /\ UNCHANGED data
  BY DEF Tasks, Find
<1>2. ASSUME NEW s \in Tasks, Take(t, "fill", "find", s, store[s]) PROVE HandInv'
  BY <1>1, <1>2, HandTake
<1>3. CASE Set(t, "count", "new", None, NoSession) /\ UNCHANGED contended
  BY <1>1, <1>3, HandFree
<1> QED BY <1>2, <1>3 DEF Find, Stored

LEMMA HandRequest ==
    ASSUME Shape, HandInv, NEW t \in Clients, Request(t)
    PROVE  HandInv'
<1>1. t \in Tasks /\ op[t].pc = "idle" /\ UNCHANGED <<data, contended>>
  BY DEF Tasks, Request, hist
<1>2. CASE Set(t, "count", "new", None, NoSession)
  BY <1>1, <1>2, HandFree
<1>3. ASSUME NEW s, NEW g, Set(t, "get", g, s, NoSession) PROVE HandInv'
  BY <1>1, <1>3, HandFree
<1> QED BY <1>2, <1>3 DEF Request, Begin

LEMMA HandCount ==
    ASSUME Shape, HandInv, NEW t \in Tasks, Count(t)
    PROVE  HandInv'
<1>1. op[t].pc = "count" /\ UNCHANGED data
  BY DEF Count
<1>2. CASE MoveTo(t, "failed") /\ UNCHANGED contended
  BY <1>1, <1>2, HandFree DEF MoveTo
<1>3. CASE Take(t, "put", "new", t, NewSession(t))
  BY <1>1, <1>3, HandTake
<1> QED BY <1>2, <1>3 DEF Count

LEMMA HandHit ==
    ASSUME Shape, HandInv, NEW t \in Tasks, Hit(t)
    PROVE  HandInv'
<1> DEFINE o == op[t]
           r == o.id
<1>1. /\ o.pc = "get" /\ Fits(t, o) /\ r \in Tasks /\ UNCHANGED data
      /\ cache[r] \in Session
  BY OneOp DEF Hit, Fits, Shape, TypeOK
<1>2. CASE AfterRead(t) /\ UNCHANGED contended
  <2>1. ASSUME NEW g, Set(t, "get", g, r, NoSession) PROVE HandInv'
    BY <1>1, <1>2, <2>1, HandFree
  <2>2. CASE o.stage = "export" /\ Set(t, "done", o.stage, r, NoSession)
    BY <1>1, <1>2, <2>2, HandFree
  <2> QED BY <1>2, <2>1, <2>2 DEF AfterRead, Begin, MoveTo
<1>3. CASE /\ o.stage \in Edits
           /\ Take(t, "put", o.stage, r, Edit(t, o.stage, cache[r]))
  <2>3. ASSUME r \notin contended' PROVE cache[r] = store[r]
    <3>1. r \notin contended /\ \A u \in Tasks \ {t} : ~Holds(u, r)
      BY <1>3, <2>3 DEF Take
    <3>2. ~Lags(r)
      BY <1>1, <3>1 DEF Lags
    <3> QED BY <1>1, <3>1, <3>2 DEF HandInv, Coherent
  <2>4. o.stage # "new" /\ (r \notin contended' =>
            Edit(t, o.stage, cache[r]) = Edit(t, o.stage, store[r]))
    BY <1>3, <2>3 DEF Edits
  <2> HIDE DEF o, r
  <2> QED BY <1>1, <1>3, <2>4, HandTake DEF o
<1> QED BY <1>2, <1>3 DEF Hit

LEMMA HandElse ==
    ASSUME Shape, HandInv, NEW t \in Tasks,
           Miss(t) \/ Load(t) \/ Llm(t) \/ Leave(t)
    PROVE  HandInv'
<1>1. CASE Miss(t)
  <2>1. op[t].pc = "get" /\ UNCHANGED <<data, contended>>
    BY <1>1 DEF Miss, hist
  <2> QED BY <1>1, <2>1, HandFree DEF Miss, MoveTo
<1>2. CASE Load(t)
  <2>1. op[t].pc = "load" /\ op[t].id \in Tasks /\ UNCHANGED data
    BY <1>2, OneOp DEF Load, Fits
  <2> QED BY <1>2, <2>1, HandTake DEF Load
<1>3. CASE Llm(t)
  <2>1. op[t].pc = "llm" /\ UNCHANGED <<data, contended>>
    BY <1>3 DEF Llm, hist
  <2>2. CASE Set(t, "get", "answer", op[t].id, NoSession)
    BY <2>1, <2>2, HandFree
  <2>3. CASE Set(t, "leave", "none", op[t].id, NoSession)
    BY <2>1, <2>3, HandFree
  <2> QED BY <1>3, <2>2, <2>3 DEF Llm, Begin
<1>4. CASE Leave(t)
  <2>1. op[t].pc = "leave" /\ UNCHANGED <<data, contended>>
    BY <1>4 DEF Leave, hist
  <2>2. PICK p \in {"done", "failed"} :
            Set(t, p, op[t].stage, op[t].id, NoSession)
    BY <1>4 DEF Leave, MoveTo
  <2> QED BY <2>1, <2>2, HandFree
<1> QED BY <1>1, <1>2, <1>3, <1>4

\* A request puts what it has in hand into the cache, and goes on with the same
\* session, or with none, in hand.
LEMMA HandCaching ==
    ASSUME Shape, HandInv, NEW t \in Tasks, op[t].pc \in {"fill", "cache"},
           cache' = [cache EXCEPT ![op[t].id] = op[t].copy],
           UNCHANGED <<store, contended>>,
           \A u \in Tasks \ {t} : op'[u] = op[u],
           op'[t].pc # "cache", op'[t].pc \in {"fill", "put"} => op'[t].id = op[t].id,
           Hand(t)'
    PROVE  HandInv'
<1> DEFINE r == op[t].id
<1>1. cache \in [Tasks -> Session \cup {NoSession}] /\ r \in Tasks
  BY OneOp DEF Shape, TypeOK, Fits
<1>2. Alone'
  <2>1. op'[t].pc \in {"fill", "put", "cache"} => Holds(t, op'[t].id)
    BY DEF Holds
  <2> QED BY <2>1, AloneStep
<1>3. ASSUME NEW u \in Tasks PROVE Hand(u)'
  <2>1. CASE u = t
    BY <2>1
  <2>2. CASE u # t
    BY <2>2 DEF HandInv, Hand
  <2> QED BY <2>1, <2>2
<1>4. ASSUME NEW s \in Tasks \ contended'
      PROVE  Lags(s)' \/ cache'[s] \in {NoSession, store'[s]}
  <2>1. CASE s = r
    <3>1. Hand(t) /\ r \notin contended
      BY <1>4, <2>1 DEF HandInv
    <3>2. op[t].copy = store[r]
      BY <3>1 DEF Hand
    <3> QED BY <1>1, <2>1, <3>2
  <2>2. CASE s # r
    <3>1. CASE Lags(s)
      <4>1. PICK u \in Tasks : Holds(u, s) /\ op[u].pc = "cache"
        BY <3>1 DEF Lags
      <4>2. Holds(u, s)' /\ op'[u].pc = "cache"
        BY <2>2, <4>1 DEF Holds
      <4> QED BY <4>2 DEF Lags
    <3>2. CASE cache[s] \in {NoSession, store[s]}
      BY <1>1, <2>2, <3>2
    <3> QED BY <1>4, <3>1, <3>2 DEF HandInv, Coherent
  <2> QED BY <2>1, <2>2
<1>5. Coherent'
  BY <1>4 DEF Coherent
<1> QED BY <1>2, <1>3, <1>5 DEF HandInv

LEMMA HandFill ==
    ASSUME Shape, HandInv, NEW t \in Tasks, Fill(t)
    PROVE  HandInv'
<1> DEFINE o == op[t]
           r == o.id
<1>1. /\ o.pc = "fill" /\ Fits(t, o) /\ r \in Tasks /\ o.copy \in Session
      /\ o.stage \in Edits \cup Reads
  BY OneOp DEF Fill, Fits
<1>2. /\ cache' = [cache EXCEPT ![r] = o.copy]
      /\ UNCHANGED <<store, contended>>
  BY DEF Fill, hist
<1>3. CASE o.stage \in Reads
  <2>1. AfterRead(t)
    BY <1>3 DEF Fill
  <2>2. ASSUME NEW g, Set(t, "get", g, r, NoSession) PROVE HandInv'
    <3>1. op'[t].pc = "get" /\ \A u \in Tasks \ {t} : op'[u] = op[u]
      BY <2>2, SetOne
    <3>2. Hand(t)'
      BY <3>1 DEF Hand
    <3> QED BY <1>1, <1>2, <3>1, <3>2, HandCaching
  <2>3. CASE o.stage = "export" /\ Set(t, "done", o.stage, r, NoSession)
    <3>1. /\ op'[t].pc = "done" /\ op'[t].stage = "export"
          /\ \A u \in Tasks \ {t} : op'[u] = op[u]
      BY <2>3, SetOne
    <3>2. Hand(t)'
      BY <3>1 DEF Hand, Wrote
    <3> QED BY <1>1, <1>2, <3>1, <3>2, HandCaching
  <2> QED BY <2>1, <2>2, <2>3 DEF AfterRead, Begin, MoveTo
<1>4. CASE o.stage \notin Reads
  <2>1. Set(t, "put", o.stage, r, Edit(t, o.stage, o.copy))
    BY <1>4 DEF Fill
  <2>2. /\ op'[t].pc = "put" /\ op'[t].stage = o.stage /\ op'[t].id = r
        /\ op'[t].copy = Edit(t, o.stage, o.copy)
        /\ \A u \in Tasks \ {t} : op'[u] = op[u]
    BY <2>1, SetOne
  <2>5. r \notin contended => o.copy = store[r]
    BY <1>1 DEF HandInv, Hand
  <2>6. Hand(t)'
    BY <1>1, <1>2, <1>4, <2>2, <2>5 DEF Hand, Edits
  <2> QED BY <1>1, <1>2, <2>2, <2>6, HandCaching
<1> QED BY <1>3, <1>4

LEMMA HandInsert ==
    ASSUME Shape, HandInv, NEW t \in Tasks, Insert(t)
    PROVE  HandInv'
<1> DEFINE o == op[t]
           r == o.id
<1>1. o.pc = "cache" /\ r \in Tasks /\ o.copy \in Session
  BY OneOp DEF Insert, Fits
<1>2. /\ cache' = [cache EXCEPT ![r] = o.copy]
      /\ UNCHANGED <<store, contended>> /\ AfterWrite(t)
  BY DEF Insert, hist
<1>3. ASSUME NEW g, Set(t, "get", g, r, NoSession) PROVE HandInv'
  <2>1. op'[t].pc = "get" /\ \A u \in Tasks \ {t} : op'[u] = op[u]
    BY <1>3, SetOne
  <2>2. Hand(t)'
    BY <2>1 DEF Hand
  <2> QED BY <1>1, <1>2, <2>1, <2>2, HandCaching
<1>4. ASSUME NEW p \in {"llm", "leave", "drop", "done"},
             Set(t, p, o.stage, r, NoSession)
      PROVE  HandInv'
  <2>1. /\ op'[t].pc = p /\ op'[t].stage = o.stage /\ op'[t].id = r
        /\ \A u \in Tasks \ {t} : op'[u] = op[u]
    BY <1>4, SetOne
  <2>2. r \notin contended => Wrote(t, o.stage, store[r])
    BY <1>1 DEF HandInv, Hand
  <2>3. Hand(t)'
    BY <1>2, <1>4, <2>1, <2>2 DEF Hand
  <2> QED BY <1>1, <1>2, <2>1, <2>3, HandCaching
<1>5. CASE Set(t, "put", "model", r, Edit(t, "model", o.copy))
  <2>1. /\ op'[t].pc = "put" /\ op'[t].stage = "model" /\ op'[t].id = r
        /\ op'[t].copy = Edit(t, "model", o.copy)
        /\ \A u \in Tasks \ {t} : op'[u] = op[u]
    BY <1>5, SetOne
  <2>2. r \notin contended => o.copy = store[r]
    BY <1>1 DEF HandInv, Hand
  <2>4. Hand(t)'
    BY <1>2, <2>1, <2>2 DEF Hand
  <2> QED BY <1>1, <1>2, <2>1, <2>4, HandCaching
<1> QED BY <1>2, <1>3, <1>4, <1>5 DEF AfterWrite, Begin, MoveTo

LEMMA HandPut ==
    ASSUME Shape, HandInv, NEW t \in Tasks, Put(t)
    PROVE  HandInv'
<1> DEFINE o == op[t]
           r == o.id
<1>1. /\ o.pc = "put" /\ Fits(t, o) /\ r \in Tasks /\ o.copy \in Session
      /\ o.stage \in Edits \cup {"new", "model"}
  BY OneOp DEF Put, Fits
<1>2. /\ store' = [store EXCEPT ![r] = o.copy] /\ cache' = cache
      /\ contended' = contended
      /\ op'[t].pc = "cache" /\ op'[t].stage = o.stage /\ op'[t].id = r
      /\ op'[t].copy = o.copy
      /\ \A u \in Tasks \ {t} : op'[u] = op[u]
  BY SetOne DEF Put, hist
<1>3. store \in [Tasks -> Session \cup {NoSession}]
  BY DEF Shape, TypeOK
<1>4. store'[r] = o.copy /\ \A s \in Tasks \ {r} : store'[s] = store[s]
  BY <1>1, <1>2, <1>3
<1>5. Holds(t, r) /\ Holds(t, r)'
  BY <1>1, <1>2 DEF Holds
<1>6. Alone'
  BY <1>2, <1>5, AloneStep
<1>7. Hand(t)'
  <2>1. r \notin contended => Wrote(t, o.stage, o.copy)
    <3>1. CASE o.stage = "new"
      BY <3>1 DEF Wrote
    <3>2. CASE o.stage # "new"
      BY <1>1, <3>2, PutEdits
    <3> QED BY <3>1, <3>2
  <2> QED BY <1>2, <1>4, <2>1 DEF Hand
<1>8. ASSUME NEW u \in Tasks \ {t}, op[u].id = r, r \notin contended
      PROVE  /\ op[u].pc \notin {"fill", "put", "cache"}
             /\ op[u].pc \in {"drop", "leave", "done"}
                    => Wrote(u, op[u].stage, o.copy)
  <2>1. ~Holds(u, r)
    BY <1>1, <1>5, <1>8 DEF HandInv, Alone
  <2>2. op[u].pc \notin {"fill", "put", "cache"}
    BY <1>8, <2>1 DEF Holds
  <2>3. ASSUME op[u].pc \in {"drop", "leave", "done"}
        PROVE  Wrote(u, op[u].stage, o.copy)
    <3>1. Fits(u, op[u])
      BY OneOp
    <3>2. store[r] # NoSession
      BY <1>8, <2>3, <3>1 DEF Fits
    <3>3. Grows(store[r], o.copy)
      <4>1. o.stage # "new"
        BY <1>1, <3>2 DEF Fits
      <4> QED BY <1>1, <1>8, <4>1, PutEdits
    <3>4. Wrote(u, op[u].stage, store[r])
      BY <1>8, <2>3 DEF HandInv, Hand
    <3> HIDE DEF o, r
    <3> QED BY <3>3, <3>4, GrowsKeeps
  <2> QED BY <2>2, <2>3
<1>9. ASSUME NEW u \in Tasks \ {t} PROVE Hand(u)'
  <2>1. op'[u] = op[u]
    BY <1>2
  <2>2. CASE op[u].id = r
    <3>1. r \notin contended =>
              /\ op[u].pc \notin {"fill", "put", "cache"}
              /\ op[u].pc \in {"drop", "leave", "done"}
                    => Wrote(u, op[u].stage, o.copy)
      BY <1>8, <2>2
    <3>2. (op[u].pc = "put" /\ op[u].stage = "new") => op[u].copy = NewSession(u)
      BY DEF HandInv, Hand
    <3> HIDE DEF o, r
    <3> QED BY <1>2, <1>4, <2>1, <2>2, <3>1, <3>2 DEF Hand
  <2>3. CASE op[u].id # r
    <3>1. CASE op[u].id \in Tasks
      <4>1. store'[op[u].id] = store[op[u].id] /\ Hand(u)
        BY <1>4, <2>3, <3>1 DEF HandInv
      <4> QED BY <1>2, <2>1, <4>1 DEF Hand
    <3>2. CASE op[u].id \notin Tasks
      <4>1. op[u].pc \in {"idle", "count", "failed"}
        BY <3>2 DEF Shape, TypeOK
      <4> QED BY <2>1, <4>1 DEF Hand
    <3> QED BY <3>1, <3>2
  <2> QED BY <2>2, <2>3
<1>10. ASSUME NEW s \in Tasks \ contended'
       PROVE  Lags(s)' \/ cache'[s] \in {NoSession, store'[s]}
  <2>1. CASE s = r
    BY <1>2, <1>5, <2>1 DEF Lags
  <2>2. CASE s # r
    <3>1. CASE Lags(s)
      <4>1. PICK u \in Tasks : Holds(u, s) /\ op[u].pc = "cache"
        BY <3>1 DEF Lags
      <4>2. u # t
        BY <1>1, <4>1
      <4>3. Holds(u, s)' /\ op'[u].pc = "cache"
        BY <1>2, <4>1, <4>2 DEF Holds
      <4> QED BY <4>3 DEF Lags
    <3>2. CASE cache[s] \in {NoSession, store[s]}
      BY <1>2, <1>4, <2>2, <3>2
    <3> QED BY <1>2, <1>10, <3>1, <3>2 DEF HandInv, Coherent
  <2> QED BY <2>1, <2>2
<1>11. Coherent'
  BY <1>10 DEF Coherent
<1> QED BY <1>6, <1>7, <1>9, <1>11 DEF HandInv

LEMMA HandDrop ==
    ASSUME Shape, HandInv, NEW t \in Tasks, Drop(t)
    PROVE  HandInv'
<1>1. op[t].pc = "drop" /\ op[t].id \in Tasks
  BY OneOp DEF Drop, Fits
<1>2. /\ cache' = [cache EXCEPT ![op[t].id] = NoSession]
      /\ UNCHANGED <<store, contended>>
      /\ op'[t].pc = "done" /\ op'[t].stage = op[t].stage /\ op'[t].id = op[t].id
      /\ \A u \in Tasks \ {t} : op'[u] = op[u]
  BY SetOne DEF Drop, MoveTo, hist
<1>3. Alone'
  BY <1>2, AloneStep
<1>4. ASSUME NEW u \in Tasks PROVE Hand(u)'
  <2>1. CASE u = t
    BY <1>1, <1>2, <2>1 DEF HandInv, Hand
  <2>2. CASE u # t
    BY <1>2, <2>2 DEF HandInv, Hand
  <2> QED BY <2>1, <2>2
<1>5. ASSUME NEW s \in Tasks \ contended'
      PROVE  Lags(s)' \/ cache'[s] \in {NoSession, store'[s]}
  <2>1. CASE Lags(s)
    <3>1. PICK u \in Tasks : Holds(u, s) /\ op[u].pc = "cache"
      BY <2>1 DEF Lags
    <3>2. Holds(u, s)' /\ op'[u].pc = "cache"
      BY <1>1, <1>2, <3>1 DEF Holds
    <3> QED BY <3>2 DEF Lags
  <2>2. CASE cache[s] \in {NoSession, store[s]}
    <3>1. cache'[s] \in {NoSession, cache[s]}
      BY <1>2 DEF Shape, TypeOK
    <3> QED BY <1>2, <2>2, <3>1
  <2> QED BY <1>2, <1>5, <2>1, <2>2 DEF HandInv, Coherent
<1>6. Coherent'
  BY <1>5 DEF Coherent
<1> QED BY <1>3, <1>4, <1>6 DEF HandInv

LEMMA HandCut ==
    ASSUME Shape, HandInv, NEW t \in Turns, Cut(t)
    PROVE  HandInv'
<1>1. /\ t \in Tasks /\ store' = store /\ cache' = cache
      /\ op'[t].pc = "failed" /\ \A u \in Tasks \ {t} : op'[u] = op[u]
      /\ contended \subseteq contended'
  BY SetOne DEF Cut, MoveTo, Tasks, data
<1>2. Alone'
  BY <1>1, AloneStep
<1>3. ASSUME NEW u \in Tasks PROVE Hand(u)'
  <2>1. CASE u = t
    BY <1>1, <2>1 DEF Hand
  <2>2. CASE u # t
    BY <1>1, <2>2 DEF HandInv, Hand
  <2> QED BY <2>1, <2>2
<1>4. ASSUME NEW s \in Tasks \ contended'
      PROVE  Lags(s)' \/ cache'[s] \in {NoSession, store'[s]}
  <2>1. ASSUME NEW u \in Tasks \ {t}, Holds(u, s), op[u].pc = "cache"
        PROVE  Lags(s)'
    BY <1>1, <2>1 DEF Lags, Holds
  <2>2. ~(Holds(t, s) /\ op[t].pc = "cache")
    BY <1>4 DEF Holds, Cut
  <2>3. CASE cache[s] \in {NoSession, store[s]}
    BY <1>1, <2>3
  <2> QED BY <1>1, <1>4, <2>1, <2>2, <2>3 DEF HandInv, Coherent, Lags
<1>5. Coherent'
  BY <1>4 DEF Coherent
<1> QED BY <1>2, <1>3, <1>5 DEF HandInv

LEMMA HandRestart ==
    ASSUME Shape, HandInv, Restart
    PROVE  HandInv'
<1>1. /\ store' = store /\ contended' = contended
      /\ cache' = [s \in Tasks |-> NoSession]
  BY DEF Restart, hist
<1>2. ASSUME NEW u \in Tasks
      PROVE  /\ op'[u].pc \in {"idle", "done", "failed"}
             /\ op'[u].pc = "done" => op'[u] = op[u]
  BY OneOp DEF Restart, Ended, Op
<1>3. Alone'
  BY <1>2 DEF Alone, Holds
<1>4. Coherent'
  BY <1>1 DEF Coherent
<1>5. ASSUME NEW u \in Tasks PROVE Hand(u)'
  <2>1. CASE op'[u].pc = "done"
    BY <1>1, <1>2, <2>1 DEF HandInv, Hand
  <2>2. CASE op'[u].pc # "done"
    BY <1>2, <2>2 DEF Hand
  <2> QED BY <2>1, <2>2
<1> QED BY <1>3, <1>4, <1>5 DEF HandInv

\* Every step keeps what is known of the uncontended sessions.
LEMMA HandStep == Shape /\ HandInv /\ [Next]_vars => HandInv'
<1> SUFFICES ASSUME Shape, HandInv, [Next]_vars PROVE HandInv'
  OBVIOUS
<1>1. ASSUME NEW t \in Tasks, Step(t) PROVE HandInv'
  BY <1>1, HandCount, HandHit, HandElse, HandFill, HandPut, HandInsert, HandDrop
     DEF Step
<1>2. CASE UNCHANGED vars
  <2>1. /\ store' = store /\ cache' = cache /\ op' = op /\ contended' = contended
    BY <1>2 DEF vars, hist
  <2> QED BY <2>1 DEF HandInv, Alone, Coherent, Lags, Hand, Holds
<1> QED BY <1>1, <1>2, HandFind, HandRequest, HandCut, HandRestart DEF Next

LEMMA HandInit == Init => HandInv
BY DEF Init, HandInv, Alone, Coherent, Hand, Holds, Idle

\* Whatever a finished request wrote to a session that no two requests ever had
\* in hand at once is in the store, and stays there: no older copy comes back
\* from the cache, from a fill or from a restart.
THEOREM UncontendedKeptTheorem == Spec => []UncontendedKept
<1>1. HandInv => UncontendedKept
  BY DEF HandInv, Hand, Wrote, UncontendedKept
<1> QED BY <1>1, ShapeInit, ShapeStep, HandInit, HandStep, PTL DEF Spec

\* Cache and store agree on such a session while nobody has it in hand.
THEOREM UncontendedCoherentTheorem == Spec => []UncontendedCoherent
<1>1. HandInv => UncontendedCoherent
  BY DEF HandInv, Coherent, Lags, UncontendedCoherent
<1> QED BY <1>1, ShapeInit, ShapeStep, HandInit, HandStep, PTL DEF Spec

-----------------------------------------------------------------------------
(* The sessions implement SessionTable.                                    *)

TableStep == [Table!Next]_(Table!tableVars)

\* What an edit adds to what a session shows.
LEMMA EditEffects ==
    ASSUME NEW t \in Tasks, NEW s \in Session, NEW g \in Edits \cup {"model"},
           g = "tokens" => t \in Turns
    PROVE  \/ EffectsIn(Edit(t, g, s)) = EffectsIn(s)
           \/ /\ Effect(t, g) \in Table!Effects(t)
              /\ EffectsIn(Edit(t, g, s)) = EffectsIn(s) \cup {Effect(t, g)}
<1>1. CASE g \in {"context", "budget", "answer"}
  BY <1>1 DEF Edit
<1>2. CASE g = "tokens"
  <2>1. Edit(t, g, s) = [s EXCEPT !.tokens = @ \cup {t}]
    BY <1>2 DEF Edit
  <2>2. /\ Edit(t, g, s).tokens = s.tokens \cup {t}
        /\ Edit(t, g, s).archived = s.archived /\ Edit(t, g, s).model = s.model
    BY <2>1 DEF Session
  <2>3. Effect(t, g) = <<"tokens", t>> /\ \A u : Effect(u, "tokens") = <<"tokens", u>>
    BY <1>2 DEF Effect
  <2>4. EffectsIn(Edit(t, g, s)) = EffectsIn(s) \cup {Effect(t, g)}
    <3> DEFINE F(u) == Effect(u, "tokens")
               rest(x) == {e \in {Effect(None, "archive")} : x.archived}
                          \cup {e \in {Effect(None, "model")} : x.model}
    <3>1. \A x : EffectsIn(x) =
              {Effect(None, "new")} \cup {F(u) : u \in x.tokens} \cup rest(x)
      BY DEF EffectsIn
    <3>2. rest(Edit(t, g, s)) = rest(s)
      BY <2>2
    <3>3. F(t) = Effect(t, g)
      BY <1>2
    <3> HIDE DEF F, rest
    <3>4. {F(u) : u \in s.tokens \cup {t}} = {F(u) : u \in s.tokens} \cup {F(t)}
      OBVIOUS
    <3> QED BY <2>2, <3>1, <3>2, <3>3, <3>4
  <2> QED BY <2>3, <2>4 DEF Table!Effects
<1>3. CASE g = "archive"
  <2>1. Edit(t, g, s) = [s EXCEPT !.archived = TRUE]
    BY <1>3 DEF Edit
  <2>2. /\ Edit(t, g, s).archived = TRUE
        /\ Edit(t, g, s).tokens = s.tokens /\ Edit(t, g, s).model = s.model
    BY <2>1 DEF Session
  <2>3. Effect(t, g) = <<"archive">> /\ Effect(None, "archive") = <<"archive">>
    BY <1>3 DEF Effect
  <2>4. EffectsIn(Edit(t, g, s)) = EffectsIn(s) \cup {Effect(t, g)}
    BY <2>2, <2>3 DEF EffectsIn
  <2> QED BY <2>3, <2>4 DEF Table!Effects
<1>4. CASE g = "model"
  <2>1. Edit(t, g, s) = [s EXCEPT !.model = TRUE]
    BY <1>4 DEF Edit
  <2>2. /\ Edit(t, g, s).model = TRUE
        /\ Edit(t, g, s).tokens = s.tokens /\ Edit(t, g, s).archived = s.archived
    BY <2>1 DEF Session
  <2>3. Effect(t, g) = <<"model">> /\ Effect(None, "model") = <<"model">>
    BY <1>4 DEF Effect
  <2>4. EffectsIn(Edit(t, g, s)) = EffectsIn(s) \cup {Effect(t, g)}
    BY <2>2, <2>3 DEF EffectsIn
  <2> QED BY <2>3, <2>4 DEF Table!Effects
<1> QED BY <1>1, <1>2, <1>3, <1>4 DEF Edits

\* What a session shows in general, and when it is new.
LEMMA EffectsOf ==
    /\ \A s \in Session : /\ Table!Created \in EffectsIn(s)
                          /\ EffectsIn(s) \subseteq Table!AllEffects
    /\ \A t : EffectsIn(NewSession(t)) = {Table!Created}
    /\ \A t, g, s : /\ Wrote(t, g, s) /\ g \in {"tokens", "archive", "model"}
                           => Effect(t, g) \in EffectsIn(s)
    /\ \A t \in Tasks, g \in {"tokens", "archive", "model"} :
           Effect(t, g) \in Table!Effects(t)
<1>1. \A t, g : Effect(t, g) = IF g = "tokens" THEN <<"tokens", t>> ELSE <<g>>
  BY DEF Effect
<1>2. Effect(None, "new") = Table!Created
  BY <1>1 DEF Table!Created
<1>3. ASSUME NEW s \in Session PROVE /\ Table!Created \in EffectsIn(s)
                                     /\ EffectsIn(s) \subseteq Table!AllEffects
  <2>1. s.tokens \subseteq Tasks
    BY DEF Session, Tasks
  <2>2. \A t \in Tasks : Effect(t, "tokens") \in Table!Effects(t)
    BY <1>1 DEF Table!Effects
  <2>3. \A t \in Tasks : /\ Effect(None, "archive") \in Table!Effects(t)
                         /\ Effect(None, "model") \in Table!Effects(t)
    BY <1>1 DEF Table!Effects
  <2>4. PICK u \in Tasks : TRUE
    BY DEF Session, Keys
  <2>5. \A t \in Tasks : Table!Effects(t) \subseteq Table!AllEffects
    BY DEF Table!AllEffects
  <2>6. /\ Effect(None, "archive") \in Table!AllEffects
        /\ Effect(None, "model") \in Table!AllEffects
        /\ Effect(None, "new") \in Table!AllEffects
        /\ \A t \in s.tokens : Effect(t, "tokens") \in Table!AllEffects
    <3>1. Effect(None, "new") \in Table!AllEffects
      BY <1>2 DEF Table!AllEffects
    <3> QED BY <2>1, <2>2, <2>3, <2>4, <2>5, <3>1
  <2>7. EffectsIn(s) \subseteq Table!AllEffects
    BY <2>6 DEF EffectsIn
  <2>8. Table!Created \in EffectsIn(s)
    BY <1>2 DEF EffectsIn
  <2> QED BY <2>7, <2>8
<1>4. ASSUME NEW t PROVE EffectsIn(NewSession(t)) = {Table!Created}
  BY <1>2 DEF EffectsIn, NewSession
<1>5. ASSUME NEW t, NEW g, NEW s, Wrote(t, g, s), g \in {"tokens", "archive", "model"}
      PROVE  Effect(t, g) \in EffectsIn(s)
  BY <1>1, <1>5 DEF Wrote, EffectsIn
<1>6. \A t \in Tasks, g \in {"tokens", "archive", "model"} :
          Effect(t, g) \in Table!Effects(t)
  BY <1>1 DEF Table!Effects
<1> QED BY <1>3, <1>4, <1>5, <1>6

\* How what the requests have in hand, and what they were told, changes with a
\* step of one of them.
LEMMA UsersStep ==
    ASSUME NEW t \in Tasks, \A u \in Tasks \ {t} : op'[u] = op[u]
    PROVE  /\ (\A s \in Tasks : Holds(t, s)' = Holds(t, s)) => Users' = Users
           /\ \A s \in Tasks :
                 (\A r \in Tasks : ~Holds(t, r)) /\ (\A r \in Tasks : Holds(t, r)' = (r = s))
                 => Users' = [Users EXCEPT ![s] = @ \cup {t}]
           /\ \A s \in Tasks :
                 /\ \A r \in Tasks : r # s => ~Holds(t, r)
                 /\ \A r \in Tasks : ~Holds(t, r)'
                 => Users' = [Users EXCEPT ![s] = @ \ {t}]
<1>1. \A u \in Tasks \ {t}, s \in Tasks : Holds(u, s)' = Holds(u, s)
  BY DEF Holds
<1>2. Users = [s \in Tasks |-> {u \in Tasks : Holds(u, s)}]
  BY DEF Users
<1>3. Users' = [s \in Tasks |-> {u \in Tasks : Holds(u, s)'}]
  BY DEF Users
<1>4. ASSUME \A s \in Tasks : Holds(t, s)' = Holds(t, s) PROVE Users' = Users
  BY <1>1, <1>2, <1>3, <1>4
<1>5. ASSUME NEW s \in Tasks, \A r \in Tasks : ~Holds(t, r),
             \A r \in Tasks : Holds(t, r)' = (r = s)
      PROVE  Users' = [Users EXCEPT ![s] = @ \cup {t}]
  <2>1. \A r \in Tasks : {u \in Tasks : Holds(u, r)'} =
            IF r = s THEN {u \in Tasks : Holds(u, r)} \cup {t}
            ELSE {u \in Tasks : Holds(u, r)}
    <3> TAKE r \in Tasks
    <3>1. \A u \in Tasks : Holds(u, r)' <=> (Holds(u, r) \/ (u = t /\ r = s))
      BY <1>1, <1>5
    <3>2. CASE r = s
      BY <3>1, <3>2
    <3>3. CASE r # s
      BY <3>1, <3>3
    <3> QED BY <3>2, <3>3
  <2> DEFINE H(r) == {u \in Tasks : Holds(u, r)}
             K(r) == {u \in Tasks : Holds(u, r)'}
  <2>2. Users = [r \in Tasks |-> H(r)] /\ Users' = [r \in Tasks |-> K(r)]
    BY <1>2, <1>3
  <2>3. \A r \in Tasks : K(r) = IF r = s THEN H(r) \cup {t} ELSE H(r)
    BY <2>1
  <2> HIDE DEF H, K
  <2>4. [Users EXCEPT ![s] = @ \cup {t}]
            = [r \in Tasks |-> IF r = s THEN H(r) \cup {t} ELSE H(r)]
    BY <2>2
  <2> QED BY <2>2, <2>3, <2>4
<1>6. ASSUME NEW s \in Tasks, \A r \in Tasks : r # s => ~Holds(t, r),
             \A r \in Tasks : ~Holds(t, r)'
      PROVE  Users' = [Users EXCEPT ![s] = @ \ {t}]
  <2>1. \A r \in Tasks : {u \in Tasks : Holds(u, r)'} =
            IF r = s THEN {u \in Tasks : Holds(u, r)} \ {t}
            ELSE {u \in Tasks : Holds(u, r)}
    <3> TAKE r \in Tasks
    <3>1. \A u \in Tasks : Holds(u, r)' <=> (Holds(u, r) /\ u # t)
      BY <1>1, <1>6
    <3>2. CASE r = s
      BY <3>1, <3>2
    <3>3. CASE r # s
      BY <1>6, <3>1, <3>3
    <3> QED BY <3>2, <3>3
  <2> DEFINE H(r) == {u \in Tasks : Holds(u, r)}
             K(r) == {u \in Tasks : Holds(u, r)'}
  <2>2. Users = [r \in Tasks |-> H(r)] /\ Users' = [r \in Tasks |-> K(r)]
    BY <1>2, <1>3
  <2>3. \A r \in Tasks : K(r) = IF r = s THEN H(r) \ {t} ELSE H(r)
    BY <2>1
  <2> HIDE DEF H, K
  <2>4. [Users EXCEPT ![s] = @ \ {t}]
            = [r \in Tasks |-> IF r = s THEN H(r) \ {t} ELSE H(r)]
    BY <2>2
  <2> QED BY <2>2, <2>3, <2>4
<1> QED BY <1>4, <1>5, <1>6

LEMMA ToldStep ==
    ASSUME NEW t \in Tasks, \A u \in Tasks \ {t} : op'[u] = op[u], op[t].pc # "done"
    PROVE  /\ op'[t].pc # "done" \/ op'[t].stage = "export" => Told' = Told
           /\ op'[t].pc = "done" /\ op'[t].stage # "export" =>
                 Told' = Told \cup {<<op'[t].id, Effect(t, op'[t].stage)>>}
<1> DEFINE Done(o) == o.pc = "done" /\ o.stage # "export"
           F(u, o) == <<o.id, Effect(u, o.stage)>>
<1>1. Told = {F(u, op[u]) : u \in {u \in Tasks : Done(op[u])}}
  BY DEF Told
<1>2. Told' = {F(u, op'[u]) : u \in {u \in Tasks : Done(op'[u])}}
  BY DEF Told, Effect
<1>3. ~Done(op[t])
  OBVIOUS
<1>4. (op'[t].pc # "done" \/ op'[t].stage = "export") <=> ~Done(op'[t])
  OBVIOUS
<1> HIDE DEF Done, F
<1>5. ASSUME ~Done(op'[t]) PROVE Told' = Told
  <2>1. {u \in Tasks : Done(op'[u])} = {u \in Tasks : Done(op[u])}
    BY <1>3, <1>5
  <2>2. \A u \in {u \in Tasks : Done(op[u])} : F(u, op'[u]) = F(u, op[u])
    BY <1>3
  <2> QED BY <1>1, <1>2, <2>1, <2>2
<1>6. ASSUME Done(op'[t]) PROVE Told' = Told \cup {F(t, op'[t])}
  <2>1. {u \in Tasks : Done(op'[u])} = {u \in Tasks : Done(op[u])} \cup {t}
    BY <1>3, <1>6
  <2>2. \A u \in {u \in Tasks : Done(op[u])} : F(u, op'[u]) = F(u, op[u])
    BY <1>3
  <2> QED BY <1>1, <1>2, <2>1, <2>2
<1> QED BY <1>4, <1>5, <1>6 DEF Done, F

\* A step that only moves t along, and takes nothing up or lays it down.
LEMMA TableQuiet ==
    ASSUME NEW t \in Tasks, \A u \in Tasks \ {t} : op'[u] = op[u],
           op[t].pc # "done", op'[t].pc # "done" \/ op'[t].stage = "export",
           \A s \in Tasks : Holds(t, s)' = Holds(t, s),
           UNCHANGED <<store, contended>>
    PROVE  TableStep
<1>1. Users' = Users /\ Told' = Told
  BY UsersStep, ToldStep
<1>2. Shown' = Shown
  BY DEF Shown
<1> QED BY <1>1, <1>2 DEF TableStep, Table!tableVars

\* t takes session s up.
LEMMA TableTake ==
    ASSUME Shape, NEW t \in Tasks, NEW s \in Tasks, NEW p \in {"fill", "put"}, NEW g, NEW c,
           op[t].pc \notin {"fill", "put", "cache", "done"}, store' = store,
           Take(t, p, g, s, c)
    PROVE  TableStep
<1>1. /\ op'[t].pc = p /\ op'[t].id = s /\ \A u \in Tasks \ {t} : op'[u] = op[u]
      /\ contended' = IF \E u \in Tasks \ {t} : Holds(u, s)
                      THEN contended \cup {s} ELSE contended
  BY SetOne DEF Take
<1>2. (\A r \in Tasks : ~Holds(t, r)) /\ (\A r \in Tasks : Holds(t, r)' = (r = s))
  BY <1>1 DEF Holds
<1>3. Users' = [Users EXCEPT ![s] = @ \cup {t}] /\ Told' = Told
  BY <1>1, <1>2, UsersStep, ToldStep
<1>4. Users[s] = {u \in Tasks : Holds(u, s)} /\ Shown' = Shown
  BY DEF Users, Shown
<1>5. contended' = IF Users[s] \subseteq {t} THEN contended ELSE contended \cup {s}
  BY <1>1, <1>4
<1>6. Table!Take(t, s)
  BY <1>3, <1>4, <1>5 DEF Table!Take
<1> QED BY <1>6 DEF TableStep, Table!Next

\* t lets go of session s, if it held it, and has not ended or tells nothing.
LEMMA TableRelease ==
    ASSUME NEW t \in Tasks, NEW s \in Tasks, \A u \in Tasks \ {t} : op'[u] = op[u],
           op[t].id = s, op[t].pc # "done",
           op'[t].pc \notin {"fill", "put", "cache", "done"}
               \/ (op'[t].pc = "done" /\ op'[t].stage = "export"),
           UNCHANGED <<store, contended>>
    PROVE  TableStep
<1>1. (\A r \in Tasks : r # s => ~Holds(t, r)) /\ (\A r \in Tasks : ~Holds(t, r)')
  BY DEF Holds
<1>2. Users' = [Users EXCEPT ![s] = @ \ {t}] /\ Told' = Told
  BY <1>1, UsersStep, ToldStep
<1>3. Shown' = Shown
  BY DEF Shown
<1>4. Table!Release(t, s)
  BY <1>2, <1>3 DEF Table!Release
<1> QED BY <1>4 DEF TableStep, Table!Next

\* ... and when it ends, what it is told is true.
LEMMA TableTell ==
    ASSUME Shape, HandInv, NEW t \in Tasks, op[t].pc \in {"cache", "drop", "leave"},
           op'[t].pc = "done", op'[t].stage = op[t].stage, op'[t].id = op[t].id,
           op[t].stage \in {"tokens", "archive", "model", "new"},
           \A u \in Tasks \ {t} : op'[u] = op[u], UNCHANGED <<store, contended>>
    PROVE  TableStep
<1> DEFINE s == op[t].id
           e == Effect(t, op[t].stage)
<1>1. s \in Tasks /\ store[s] \in Session /\ Hand(t)
  BY OneOp DEF Fits, Shape, TypeOK, HandInv
<1>2. /\ \A r \in Tasks : r # s => ~Holds(t, r)
      /\ \A r \in Tasks : ~Holds(t, r)'
  BY DEF Holds
<1>3. Users' = [Users EXCEPT ![s] = @ \ {t}] /\ Told' = Told \cup {<<s, e>>}
  BY <1>1, <1>2, UsersStep, ToldStep
<1>4. Shown' = Shown /\ Shown[s] = EffectsIn(store[s])
  BY <1>1, NoSessionAssumption DEF Shown
<1>5. e \in Table!Effects(t) \cup {Table!Created} /\ (e \in Shown[s] \/ s \in contended)
  <2>1. CASE op[t].stage = "new"
    <3>1. e = Table!Created
      BY <2>1 DEF Effect, Table!Created
    <3> QED BY <1>1, <1>4, <3>1, EffectsOf
  <2>2. CASE op[t].stage \in {"tokens", "archive", "model"}
    <3>1. e \in Table!Effects(t)
      BY <2>2, EffectsOf
    <3>2. s \notin contended => Wrote(t, op[t].stage, store[s])
      BY <1>1 DEF Hand
    <3>3. s \notin contended => e \in EffectsIn(store[s])
      BY <2>2, <3>2, EffectsOf
    <3> QED BY <1>4, <3>1, <3>3
  <2> QED BY <2>1, <2>2
<1> HIDE DEF s, e
<1>6. Table!Release(t, s)
  BY <1>3, <1>4, <1>5 DEF Table!Release
<1> QED BY <1>1, <1>6 DEF TableStep, Table!Next

\* A write adds the effect of its request, or creates the session; one that
\* was in several hands stays at least created.
LEMMA TablePut ==
    ASSUME Shape, HandInv, NEW t \in Tasks, Put(t)
    PROVE  TableStep
<1> DEFINE o == op[t]
           s == o.id
<1>1. /\ o.pc = "put" /\ Fits(t, o) /\ s \in Tasks /\ o.copy \in Session
      /\ o.stage \in Edits \cup {"new", "model"}
  BY OneOp DEF Put, Fits
<1>2. /\ store' = [store EXCEPT ![s] = o.copy] /\ contended' = contended
      /\ op'[t].pc = "cache" /\ op'[t].id = s
      /\ \A u \in Tasks \ {t} : op'[u] = op[u]
  BY SetOne DEF Put, hist
<1>3. Users' = Users /\ Told' = Told /\ t \in Users[s]
  <2>1. \A r \in Tasks : Holds(t, r)' = Holds(t, r)
    BY <1>1, <1>2 DEF Holds
  <2>2. Holds(t, s)
    BY <1>1 DEF Holds
  <2>3. t \in Users[s]
    BY <1>1, <2>2 DEF Users
  <2>4. Told' = Told
    BY <1>1, <1>2, ToldStep
  <2> QED BY <1>2, <2>1, <2>3, <2>4, UsersStep
<1>4. Shown' = [Shown EXCEPT ![s] = EffectsIn(o.copy)]
  <2>1. store \in [Tasks -> Session \cup {NoSession}]
    BY DEF Shape, TypeOK
  <2>2. store'[s] = o.copy /\ \A r \in Tasks \ {s} : store'[r] = store[r]
    BY <1>1, <1>2, <2>1
  <2>3. Shown = [r \in Tasks |-> IF store[r] = NoSession THEN {} ELSE EffectsIn(store[r])]
    BY DEF Shown
  <2>4. Shown' = [r \in Tasks |-> IF store'[r] = NoSession THEN {} ELSE EffectsIn(store'[r])]
    BY DEF Shown, EffectsIn, Effect
  <2>5. o.copy # NoSession
    BY <1>1, NoSessionAssumption
  <2> HIDE DEF o, s
  <2> QED BY <1>1, <2>2, <2>3, <2>4, <2>5
<1>5. CASE o.stage = "new"
  <2>1. Shown[s] = {}
    BY <1>1, <1>5 DEF Fits, Shown
  <2>2. EffectsIn(o.copy) = {Table!Created}
    <3>1. Hand(t)
      BY DEF HandInv
    <3>2. o.copy = NewSession(t)
      BY <1>1, <1>5, <3>1 DEF Hand
    <3> QED BY <3>2, EffectsOf
  <2>3. Table!Create(t, s)
    BY <1>2, <1>3, <1>4, <2>1, <2>2 DEF Table!Create
  <2> QED BY <1>1, <2>3 DEF TableStep, Table!Next
<1>6. CASE o.stage # "new"
  <2>1. store[s] \in Session
    BY <1>1, <1>6 DEF Fits, Shape, TypeOK
  <2>2. Shown[s] = EffectsIn(store[s]) /\ Table!Created \in Shown[s]
    BY <1>1, <2>1, EffectsOf, NoSessionAssumption DEF Shown
  <2>3. CASE s \in contended
    <3>1. EffectsIn(o.copy) \in SUBSET Table!AllEffects /\ Table!Created \in EffectsIn(o.copy)
      BY <1>1, EffectsOf
    <3> HIDE DEF o, s
    <3>2. Table!Write(t, s)
      BY <1>2, <1>3, <1>4, <2>2, <2>3, <3>1 DEF Table!Write
    <3> QED BY <1>1, <3>2 DEF TableStep, Table!Next
  <2>4. CASE s \notin contended
    <3>1. o.copy = Edit(t, o.stage, store[s])
      BY <1>1, <1>6, <2>4, PutEdits
    <3>2. o.stage = "tokens" => t \in Turns
      BY <1>1 DEF Fits
    <3>3. \/ EffectsIn(o.copy) = EffectsIn(store[s])
          \/ /\ Effect(t, o.stage) \in Table!Effects(t)
             /\ EffectsIn(o.copy) = EffectsIn(store[s]) \cup {Effect(t, o.stage)}
      BY <1>1, <1>6, <2>1, <3>1, <3>2, EditEffects
    <3> HIDE DEF o, s
    <3>4. CASE EffectsIn(o.copy) = EffectsIn(store[s])
      <4>1. Shown' = Shown
        BY <1>1, <1>4, <2>2, <3>4 DEF Shown
      <4> QED BY <1>2, <1>3, <4>1 DEF TableStep, Table!tableVars
    <3>5. ASSUME NEW e \in Table!Effects(t), EffectsIn(o.copy) = EffectsIn(store[s]) \cup {e}
          PROVE  TableStep
      <4>1. Table!Write(t, s)
        <5>1. Shown' = [Shown EXCEPT ![s] = @ \cup {e}]
          BY <1>4, <2>2, <3>5
        <5> QED BY <1>2, <1>3, <2>2, <5>1 DEF Table!Write
      <4> QED BY <1>1, <4>1 DEF TableStep, Table!Next
    <3> QED BY <3>3, <3>4, <3>5
  <2> QED BY <2>3, <2>4
<1> QED BY <1>5, <1>6

\* Each action of a request is a step of the table, or none.
LEMMA TableRead ==
    ASSUME Shape, NEW t \in Tasks, op[t].pc \in {"get", "fill"}, AfterRead(t),
           UNCHANGED <<store, contended>>
    PROVE  TableStep
<1>1. /\ op'[t].pc \in {"get", "done"} /\ op'[t].id = op[t].id
      /\ op'[t].pc = "done" => op'[t].stage = "export"
      /\ \A u \in Tasks \ {t} : op'[u] = op[u]
  BY SetOne DEF AfterRead, Begin, MoveTo
<1>2. op[t].id \in Tasks
  BY OneOp DEF Fits
<1> QED BY <1>1, <1>2, TableRelease

LEMMA TableFind ==
    ASSUME Shape, NEW t \in Turns, Find(t)
    PROVE  TableStep
<1>1. t \in Tasks /\ op[t].pc = "idle" /\ store' = store
  BY DEF Find, Tasks, data
<1>2. ASSUME NEW s \in Stored, Take(t, "fill", "find", s, store[s])
      PROVE  TableStep
  BY <1>1, <1>2, TableTake DEF Stored
<1>3. ASSUME Set(t, "count", "new", None, NoSession), UNCHANGED contended
      PROVE  TableStep
  <2>1. op'[t].pc = "count" /\ \A u \in Tasks \ {t} : op'[u] = op[u]
    BY <1>1, <1>3, SetOne
  <2>2. \A s \in Tasks : Holds(t, s)' = Holds(t, s)
    BY <1>1, <2>1 DEF Holds
  <2> QED BY <1>1, <1>3, <2>1, <2>2, TableQuiet
<1> QED BY <1>2, <1>3 DEF Find

\* ... those that move a request on with nothing in hand, before and after,
LEMMA TableIdle ==
    ASSUME Shape, NEW t \in Tasks, Request(t) \/ Miss(t) \/ Llm(t)
    PROVE  TableStep
<1>1. /\ op[t].pc \in {"idle", "get", "llm"}
      /\ op'[t].pc \in {"count", "get", "load", "leave"}
      /\ \A u \in Tasks \ {t} : op'[u] = op[u]
  <2>1. CASE Request(t)
    BY <2>1, SetOne DEF Request, Begin
  <2>2. CASE Miss(t)
    BY <2>2, SetOne DEF Miss, MoveTo
  <2>3. CASE Llm(t)
    BY <2>3, SetOne DEF Llm, Begin
  <2> QED BY <2>1, <2>2, <2>3
<1>2. UNCHANGED <<store, contended>>
  BY DEF Request, Miss, Llm, data, hist
<1>3. \A s \in Tasks : Holds(t, s)' = Holds(t, s)
  BY <1>1 DEF Holds
<1> QED BY <1>1, <1>2, <1>3, TableQuiet

LEMMA TableCount ==
    ASSUME Shape, NEW t \in Tasks, Count(t)
    PROVE  TableStep
<1>1. op[t].pc = "count" /\ store' = store
  BY DEF Count, data
<1>2. CASE Take(t, "put", "new", t, NewSession(t))
  BY <1>1, <1>2, TableTake
<1>3. CASE MoveTo(t, "failed") /\ UNCHANGED contended
  <2>1. op'[t].pc = "failed" /\ \A u \in Tasks \ {t} : op'[u] = op[u]
    BY <1>3, SetOne DEF MoveTo
  <2>2. \A s \in Tasks : Holds(t, s)' = Holds(t, s)
    BY <1>1, <2>1 DEF Holds
  <2> QED BY <1>1, <1>3, <2>1, <2>2, TableQuiet
<1> QED BY <1>2, <1>3 DEF Count

LEMMA TableHit ==
    ASSUME Shape, NEW t \in Tasks, Hit(t)
    PROVE  TableStep
<1>1. op[t].pc = "get" /\ store' = store /\ op[t].id \in Tasks
  BY OneOp DEF Hit, data, Fits
<1>2. CASE AfterRead(t) /\ UNCHANGED contended
  BY <1>1, <1>2, TableRead
<1>3. CASE Take(t, "put", op[t].stage, op[t].id,
                Edit(t, op[t].stage, cache[op[t].id]))
  BY <1>1, <1>3, TableTake
<1> QED BY <1>2, <1>3 DEF Hit

LEMMA TableLoad ==
    ASSUME Shape, NEW t \in Tasks, Load(t)
    PROVE  TableStep
<1>1. op[t].pc = "load" /\ store' = store /\ op[t].id \in Tasks
  BY OneOp DEF Load, data, Fits
<1>2. Take(t, "fill", op[t].stage, op[t].id, store[op[t].id])
  BY DEF Load
<1> QED BY <1>1, <1>2, TableTake

LEMMA TableFill ==
    ASSUME Shape, NEW t \in Tasks, Fill(t)
    PROVE  TableStep
<1>1. op[t].pc = "fill" /\ UNCHANGED <<store, contended>>
  BY DEF Fill, hist
<1>2. CASE AfterRead(t)
  BY <1>1, <1>2, TableRead
<1>3. CASE Set(t, "put", op[t].stage, op[t].id, Edit(t, op[t].stage, op[t].copy))
  <2>1. /\ op'[t].pc = "put" /\ op'[t].id = op[t].id
        /\ \A u \in Tasks \ {t} : op'[u] = op[u]
    BY <1>3, SetOne
  <2>2. \A s \in Tasks : Holds(t, s)' = Holds(t, s)
    BY <1>1, <2>1 DEF Holds
  <2> QED BY <1>1, <2>1, <2>2, TableQuiet
<1> QED BY <1>2, <1>3 DEF Fill

LEMMA TableInsert ==
    ASSUME Shape, HandInv, NEW t \in Tasks, Insert(t)
    PROVE  TableStep
<1>1. /\ op[t].pc = "cache" /\ op[t].id \in Tasks /\ AfterWrite(t)
      /\ UNCHANGED <<store, contended>>
  BY OneOp DEF Insert, hist, Fits
<1>2. ASSUME NEW p \in {"get", "llm", "leave", "drop"}, NEW g, NEW c,
             Set(t, p, g, op[t].id, c)
      PROVE  TableStep
  <2>1. op'[t].pc = p /\ \A u \in Tasks \ {t} : op'[u] = op[u]
    BY <1>2, SetOne
  <2> QED BY <1>1, <2>1, TableRelease
<1>3. ASSUME op[t].stage \in {"new", "model"}, MoveTo(t, "done")
      PROVE  TableStep
  <2>1. /\ op'[t].pc = "done" /\ op'[t].stage = op[t].stage /\ op'[t].id = op[t].id
        /\ \A u \in Tasks \ {t} : op'[u] = op[u]
    BY <1>3, SetOne DEF MoveTo
  <2> QED BY <1>1, <1>3, <2>1, TableTell
<1>4. ASSUME NEW c, Set(t, "put", "model", op[t].id, c)
      PROVE  TableStep
  <2>1. /\ op'[t].pc = "put" /\ op'[t].id = op[t].id
        /\ \A u \in Tasks \ {t} : op'[u] = op[u]
    BY <1>4, SetOne
  <2>2. \A s \in Tasks : Holds(t, s)' = Holds(t, s)
    BY <1>1, <2>1 DEF Holds
  <2> QED BY <1>1, <2>1, <2>2, TableQuiet
<1> QED BY <1>1, <1>2, <1>3, <1>4 DEF AfterWrite, Begin, MoveTo

\* ... and those that end a request: it is told what it did, or is cut off.
LEMMA TableEnd ==
    ASSUME Shape, HandInv, NEW t \in Tasks, Drop(t) \/ Leave(t)
    PROVE  TableStep
<1>1. /\ op[t].pc \in {"drop", "leave"} /\ UNCHANGED <<store, contended>>
      /\ op[t].pc = "drop" => op[t].stage = "archive"
  BY OneOp DEF Drop, Leave, data, hist, Fits
<1>2. PICK p \in {"done", "failed"} :
          MoveTo(t, p) /\ (p = "done" => op[t].stage \in {"tokens", "archive"})
  BY <1>1 DEF Drop, Leave
<1>3. /\ op'[t].pc = p /\ op'[t].stage = op[t].stage /\ op'[t].id = op[t].id
      /\ \A u \in Tasks \ {t} : op'[u] = op[u]
  BY <1>2, SetOne DEF MoveTo
<1>4. CASE p = "done"
  BY <1>1, <1>2, <1>3, <1>4, TableTell
<1>5. CASE p = "failed"
  <2>1. \A s \in Tasks : Holds(t, s)' = Holds(t, s)
    BY <1>1, <1>3, <1>5 DEF Holds
  <2> QED BY <1>1, <1>3, <1>5, <2>1, TableQuiet
<1> QED BY <1>4, <1>5

LEMMA TableCut ==
    ASSUME Shape, NEW t \in Turns, Cut(t)
    PROVE  TableStep
<1>1. /\ t \in Tasks /\ op[t].id \in Tasks /\ store' = store
      /\ op[t].pc \in {"get", "fill", "cache", "llm", "leave"}
  BY OneOp DEF Cut, Tasks, Fits, data
<1>2. op'[t].pc = "failed" /\ \A u \in Tasks \ {t} : op'[u] = op[u]
  BY <1>1, SetOne DEF Cut, MoveTo
<1>3. CASE op[t].pc # "cache"
  <2>1. contended' = contended
    BY <1>3 DEF Cut
  <2> QED BY <1>1, <1>2, <2>1, TableRelease
<1>4. CASE op[t].pc = "cache"
  <2>1. contended' = contended \cup {op[t].id}
    BY <1>4 DEF Cut
  <2>2. /\ \A r \in Tasks : r # op[t].id => ~Holds(t, r)
        /\ \A r \in Tasks : ~Holds(t, r)'
    BY <1>2 DEF Holds
  <2>3. Users' = [Users EXCEPT ![op[t].id] = @ \ {t}] /\ Told' = Told
    BY <1>1, <1>2, <2>2, UsersStep, ToldStep
  <2>4. Shown' = Shown /\ t \in Users[op[t].id]
    BY <1>1, <1>4 DEF Shown, Users, Holds
  <2>5. Table!Abandon(t, op[t].id)
    BY <2>1, <2>3, <2>4 DEF Table!Abandon
  <2> QED BY <1>1, <2>5 DEF TableStep, Table!Next
<1> QED BY <1>3, <1>4

LEMMA TableRestart ==
    ASSUME Shape, Restart
    PROVE  TableStep
<1>1. /\ UNCHANGED <<store, contended>>
      /\ op' = [t \in Tasks |-> IF Ended(t) THEN op[t]
                ELSE [op[t] EXCEPT !.pc = "failed", !.copy = NoSession]]
  BY DEF Restart, hist
<1>2. \A t \in Tasks : \/ op'[t] = op[t] /\ op[t].pc \in {"idle", "done", "failed"}
                       \/ op[t].pc # "done" /\ op'[t].pc = "failed"
  <2> TAKE t \in Tasks
  <2>1. CASE Ended(t)
    BY <1>1, <2>1 DEF Ended
  <2>2. CASE ~Ended(t)
    <3>1. op'[t] = [op[t] EXCEPT !.pc = "failed", !.copy = NoSession]
      BY <1>1, <2>2
    <3>2. op'[t].pc = "failed"
      BY <3>1, OneOp DEF Op
    <3> QED BY <2>2, <3>2 DEF Ended
  <2> QED BY <2>1, <2>2
<1>3. \A t \in Tasks, s \in Tasks : ~Holds(t, s)'
  BY <1>2 DEF Holds
<1>4. Users' = [s \in Tasks |-> {}]
  BY <1>3 DEF Users
<1>5. Told' = Told
  <2> DEFINE Done(o) == o.pc = "done" /\ o.stage # "export"
             F(u, o) == <<o.id, Effect(u, o.stage)>>
  <2>1. Told = {F(u, op[u]) : u \in {u \in Tasks : Done(op[u])}}
    BY DEF Told
  <2>2. Told' = {F(u, op'[u]) : u \in {u \in Tasks : Done(op'[u])}}
    BY DEF Told, Effect
  <2>3. \A u \in Tasks : \/ op'[u] = op[u]
                         \/ ~Done(op[u]) /\ ~Done(op'[u])
    BY <1>2
  <2> HIDE DEF Done, F
  <2>4. {u \in Tasks : Done(op'[u])} = {u \in Tasks : Done(op[u])}
    BY <2>3
  <2>5. \A u \in {u \in Tasks : Done(op[u])} : F(u, op'[u]) = F(u, op[u])
    BY <2>3
  <2> QED BY <2>1, <2>2, <2>4, <2>5
<1>6. Shown' = Shown
  BY <1>1 DEF Shown
<1>7. Table!Restart
  BY <1>1, <1>4, <1>5, <1>6 DEF Table!Restart
<1> QED BY <1>7 DEF TableStep, Table!Next

LEMMA TableNext == Shape /\ HandInv /\ [Next]_vars => TableStep
<1> SUFFICES ASSUME Shape, HandInv, [Next]_vars PROVE TableStep
  OBVIOUS
<1>1. CASE Next
  <2>1. ASSUME NEW t \in Tasks, Moves(t) PROVE TableStep
    <3>1. CASE Step(t)
      BY <3>1, TableCount, TableHit, TableIdle, TableLoad, TableFill, TablePut,
         TableInsert, TableEnd DEF Step
    <3> QED BY <2>1, <3>1, TableFind, TableCut, TableIdle DEF Moves
  <2> QED BY <1>1, <2>1, NextCases, TableRestart
<1>2. CASE UNCHANGED vars
  <2>1. op' = op /\ store' = store /\ contended' = contended
    BY <1>2 DEF vars, data, hist
  <2>2. Users' = Users /\ Told' = Told /\ Shown' = Shown
    BY <2>1 DEF Users, Told, Shown, Holds
  <2> QED BY <2>1, <2>2 DEF TableStep, Table!tableVars
<1> QED BY <1>1, <1>2

LEMMA TableInit == Init => Table!Init
<1> SUFFICES ASSUME Init PROVE Table!Init
  OBVIOUS
<1>1. /\ store = [s \in Tasks |-> NoSession] /\ contended = {}
      /\ \A t \in Tasks : op[t].pc = "idle"
  BY DEF Init, Idle
<1>2. Shown = [s \in Tasks |-> {}]
  BY <1>1 DEF Shown
<1>3. Users = [s \in Tasks |-> {}]
  BY <1>1 DEF Users, Holds
<1>4. Told = {}
  BY <1>1 DEF Told
<1> QED BY <1>1, <1>2, <1>3, <1>4 DEF Table!Init

\* The sessions implement SessionTable, for any number of turns, clients and
\* keys: the reads, edits and writes of get_session, update_session,
\* create_session and archive_session, interleaved as they may be, look from
\* outside as if each write added the effect of its request at once, except
\* for the sessions that two requests had in hand together.
THEOREM ImplementsSessionTable == Spec => TableSpec
<1>1. Shape /\ HandInv /\ [Next]_vars => (Shape /\ HandInv)'
  BY ShapeStep, HandStep
<1>2. Init => Shape /\ HandInv
  BY ShapeInit, HandInit
<1>3. Shape /\ HandInv /\ [Next]_vars => TableStep
  BY TableNext
<1>4. Init => Table!Init
  BY TableInit
<1> QED BY <1>1, <1>2, <1>3, <1>4, PTL DEF Spec, TableSpec, Table!Spec, TableStep

-----------------------------------------------------------------------------
(* The state lock of an agent                                              *)

\* t holds the state lock of its agent, in update_processing_context.
Working(t) == op[t].stage = "context" /\ op[t].pc \in {"load", "fill", "put", "cache"}

\* The guards of Step(t): t can go on at once.
CanGo(t) ==
    \/ op[t].pc \in {"count", "load", "put", "drop"}
    \/ op[t].pc = "get" /\ op[t].stage \in Reads \cup Edits
                        /\ (op[t].stage = "context" => ~Busy(t))
    \/ op[t].pc = "fill" /\ op[t].stage \in Reads \cup Edits
    \/ op[t].pc = "cache" /\ op[t].stage \in Edits \cup {"new", "model"}
    \/ op[t].pc = "llm" /\ t \in Turns
    \/ op[t].pc = "leave" /\ t \in Turns /\ ~Busy(t)

\* One turn of an agent at a time is between reading and writing a session's
\* working memory, and a request that cannot go on waits for that turn, which
\* can.
StateLockServed ==
    /\ \A t, u \in Turns : Working(t) /\ Working(u) /\ Agent[t] = Agent[u] => t = u
    /\ \A t \in Tasks :
          \/ Ended(t) \/ CanGo(t)
          \/ /\ t \in Turns
             /\ \E u \in Turns : Agent[u] = Agent[t] /\ Working(u) /\ CanGo(u)

StateInv ==
    /\ \A t, u \in Turns : Working(t) /\ Working(u) /\ Agent[t] = Agent[u] => t = u
    /\ \A t \in Tasks : op[t].pc \in {"llm", "leave"} => t \in Turns

\* A turn comes to hold the lock only when it is free, and only turns call the
\* model.
LEMMA StateMoves ==
    ASSUME Shape, StateInv, NEW t \in Tasks, Moves(t)
    PROVE  /\ Working(t)' => Working(t) \/ ~Busy(t)
           /\ op'[t].pc \in {"llm", "leave"} => t \in Turns
<1> DEFINE Good == /\ Working(t)' => Working(t) \/ ~Busy(t)
                   /\ op'[t].pc \in {"llm", "leave"} => t \in Turns
<1>1. Fits(t, op[t])
  BY OneOp
<1>2. ASSUME NEW p \in {"get", "load", "done", "failed", "drop", "count"}, NEW g, NEW s,
             NEW c, Set(t, p, g, s, c), p = "load" /\ g = "context" => ~Busy(t)
      PROVE  Good
  BY <1>2, SetOne DEF Working
<1>3. ASSUME NEW p \in {"fill", "put", "cache"}, NEW g, NEW s, NEW c, Set(t, p, g, s, c),
             g = "context" => Working(t) \/ ~Busy(t)
      PROVE  Good
  BY <1>3, SetOne DEF Working
<1>4. ASSUME NEW p \in {"llm", "leave"}, NEW g, NEW s, NEW c, Set(t, p, g, s, c),
             t \in Turns
      PROVE  Good
  BY <1>4, SetOne DEF Working
<1> HIDE DEF Good
<1>5. AfterRead(t) => Good
  BY <1>2 DEF AfterRead, Begin, MoveTo
<1>6. ASSUME op[t].pc = "cache", AfterWrite(t) PROVE Good
  <2>1. op[t].stage \in {"budget", "tokens"} => t \in Turns
    BY <1>1 DEF Fits
  <2> QED BY <1>2, <1>3, <1>4, <1>6, <2>1 DEF AfterWrite, Begin, MoveTo
<1>7. Count(t) => Good
  BY <1>2, <1>3 DEF Count, MoveTo, Take
<1>8. Hit(t) => Good
  BY <1>3, <1>5 DEF Hit, Take
<1>9. Miss(t) => Good
  BY <1>2 DEF Miss, MoveTo
<1>10. Load(t) => Good
  BY <1>3 DEF Load, Take, Working
<1>11. Fill(t) => Good
  BY <1>3, <1>5 DEF Fill, Working
<1>12. Put(t) => Good
  BY <1>3 DEF Put, Working
<1>13. Insert(t) => Good
  BY <1>6 DEF Insert
<1>14. Drop(t) => Good
  BY <1>2 DEF Drop, MoveTo
<1>15. t \in Turns /\ Llm(t) => Good
  BY <1>2, <1>4 DEF Llm, Begin
<1>16. Leave(t) => Good
  BY <1>2 DEF Leave, MoveTo
<1>17. Find(t) => Good
  BY <1>2, <1>3 DEF Find, Take
<1>18. Request(t) => Good
  BY <1>2 DEF Request, Begin
<1>19. Cut(t) => Good
  BY <1>2 DEF Cut, MoveTo
<1> QED
  BY <1>7, <1>8, <1>9, <1>10, <1>11, <1>12, <1>13, <1>14, <1>15, <1>16, <1>17, <1>18,
     <1>19 DEF Moves, Step, Good

LEMMA StateStep == Shape /\ StateInv /\ [Next]_vars => StateInv'
<1> SUFFICES ASSUME Shape, StateInv, [Next]_vars PROVE StateInv'
  OBVIOUS
<1>1. ASSUME NEW t \in Tasks, Moves(t) PROVE StateInv'
  <2>1. \A u \in Tasks \ {t} : op'[u] = op[u]
    BY <1>1, Onward
  <2>2. /\ Working(t)' => Working(t) \/ ~Busy(t)
        /\ op'[t].pc \in {"llm", "leave"} => t \in Turns
    BY <1>1, StateMoves
  <2>3. \A u \in Tasks \ {t} : Working(u)' = Working(u)
    BY <2>1 DEF Working
  <2>4. Turns \subseteq Tasks
    BY DEF Tasks
  <2>5. ASSUME NEW u \in Turns \ {t}, t \in Turns, Working(t)', Working(u)',
               Agent[u] = Agent[t]
        PROVE  FALSE
    <3>1. Working(u)
      BY <2>3, <2>4, <2>5
    <3>2. Busy(t)
      BY <2>5, <3>1 DEF Busy, Working
    <3>3. Working(t)
      BY <2>2, <2>5, <3>2
    <3> QED BY <2>5, <3>1, <3>3 DEF StateInv
  <2>6. ASSUME NEW u \in Turns, NEW v \in Turns, Working(u)', Working(v)', Agent[u] = Agent[v]
        PROVE  u = v
    <3>1. CASE u # t /\ v # t
      BY <2>3, <2>4, <2>6, <3>1 DEF StateInv
    <3>2. CASE u = t \/ v = t
      BY <2>5, <2>6, <3>2
    <3> QED BY <3>1, <3>2
  <2>7. \A u \in Tasks : op'[u].pc \in {"llm", "leave"} => u \in Turns
    BY <2>1, <2>2 DEF StateInv
  <2> QED BY <2>6, <2>7 DEF StateInv
<1>2. CASE Restart
  <2>1. \A u \in Tasks : op'[u].pc \in {"idle", "done", "failed"}
    <3> TAKE u \in Tasks
    <3>1. op[u] \in Op
      BY OneOp
    <3> QED BY <1>2, <3>1 DEF Restart, Ended, Op
  <2>2. Turns \subseteq Tasks
    BY DEF Tasks
  <2> QED BY <2>1, <2>2 DEF StateInv, Working
<1>3. CASE UNCHANGED vars
  BY <1>3 DEF vars, StateInv, Working
<1> QED BY <1>1, <1>2, <1>3, NextCases

\* The state lock of an agent, which one turn holds through two writes of its
\* session, excludes the agent's other turns and keeps none of them waiting for
\* somebody who waits, a turn that was cut off, or a restart: for any turns,
\* agents, sessions and HTTP requests.
THEOREM StateLockServedTheorem == Spec => []StateLockServed
<1>1. Init => StateInv
  BY DEF Init, StateInv, Working, Idle, Tasks
<1>2. ASSUME Shape, StateInv PROVE StateLockServed
  <2>1. ASSUME NEW t \in Turns, Busy(t)
        PROVE  \E u \in Turns : Agent[u] = Agent[t] /\ Working(u) /\ CanGo(u)
    BY <2>1 DEF Busy, Working, CanGo, Edits
  <2>2. ASSUME NEW t \in Tasks, ~Ended(t), ~CanGo(t)
        PROVE  t \in Turns /\ Busy(t)
    <3>1. op[t].pc \in PCs /\ Fits(t, op[t])
      BY <1>2, OneOp
    <3>2. CASE op[t].pc = "get"
      BY <2>2, <3>1, <3>2 DEF Fits, CanGo, Reads
    <3>3. CASE op[t].pc \in {"llm", "leave"}
      BY <1>2, <2>2, <3>3 DEF StateInv, CanGo
    <3>4. CASE op[t].pc \in {"fill", "cache"}
      BY <2>2, <3>1, <3>4 DEF Fits, CanGo
    <3>5. op[t].pc \in {"get", "fill", "cache", "llm", "leave"}
      BY <2>2, <3>1 DEF PCs, Ended, CanGo
    <3> QED BY <3>2, <3>3, <3>4, <3>5
  <2> QED BY <1>2, <2>1, <2>2 DEF StateLockServed, StateInv
<1> QED BY <1>1, <1>2, StateStep, ShapeStep, ShapeInit, PTL DEF Spec
=============================================================================
