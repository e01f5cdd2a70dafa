------------------------------ MODULE Sessions ------------------------------
(***************************************************************************)
(* The session manager (crates/rockbot-session/src/lib.rs): the table      *)
(* SESSIONS in redb and a cache of it in memory, and the requests that     *)
(* work on them: a turn of an agent (crates/rockbot-agent/src/agent.rs),   *)
(* and the gateway's POST, DELETE and export of a session.                 *)
(*                                                                         *)
(* Nothing holds a lock from the moment a session is read to the moment it *)
(* is written back: the cache's lock covers one look-up or one insert, and *)
(* each redb call is a transaction of its own.  Each of those is one step  *)
(* here, and the steps of different requests interleave.                   *)
(*                                                                         *)
(* A request creates at most one session, so a session is named by the     *)
(* request that created it (the code draws a UUID).                        *)
(***************************************************************************)
EXTENDS Naturals, FiniteSets

CONSTANTS
    Turns,        \* messages sent to an agent, each handled by one task
    Clients,      \* HTTP clients, each of which makes one request: POST
                  \* /api/sessions, DELETE of a session (which archives it),
                  \* or GET of its export
    Key,          \* the session key each turn is sent to
    Agent,        \* the agent each turn is sent to
    MaxSessions,  \* max_sessions
    MaxFaults,    \* bound on restarts of the gateway and turns cut off
    NoSession,    \* no record under this id
    None          \* no id, no turn

Tasks == Turns \cup Clients

\* The key of the session a request creates; POST draws a fresh one, which is
\* named by the request, too.
KeyOf(t) == IF t \in Turns THEN Key[t] ELSE t

Keys == {KeyOf(t) : t \in Tasks}

ASSUME SessionsAssumption ==
    /\ IsFiniteSet(Tasks) /\ Turns \cap Clients = {}
    /\ MaxSessions \in Nat /\ MaxFaults \in Nat
    /\ None \notin Tasks

\* A session: its key and state; of its token statistics, the turns they
\* count; of its metadata, whether the model is recorded.  Of its working
\* memory and context budget nothing is kept: they are overwritten each time,
\* by steps that read the rest of the session and write it back.
Session == [key : Keys, archived : BOOLEAN, tokens : SUBSET Turns,
            model : BOOLEAN]

ASSUME NoSessionAssumption == NoSession \notin Session

NewSession(t) == [key |-> KeyOf(t), archived |-> FALSE, tokens |-> {},
                  model |-> FALSE]

VARIABLES
    store,      \* table SESSIONS
    cache,      \* SessionManager::sessions
    op,         \* what each request is in the middle of
    faults,     \* number of restarts and of turns cut off so far
    crowded,    \* history: creations that passed the limit check while
                \*          another one was past it and not stored yet
    raced,      \* history: keys looked up in vain while another turn that had
                \*          also looked in vain had not stored its session
    contended   \* history: sessions read by one request while another one
                \*          was between reading them and its last write, or
                \*          whose writer was dropped between store and cache

data == <<store, cache>>
hist == <<crowded, raced, contended>>
vars == <<store, cache, op, faults, hist>>

-----------------------------------------------------------------------------
\* Stages that read the session and write nothing back: a look-up by key, the
\* export, the memory section of the prompt.
Reads == {"find", "export", "prompt"}

\* Stages that read it, change it and write it back.
Edits == {"context", "budget", "answer", "tokens", "archive"}

Stages == Reads \cup Edits \cup {"none", "new", "model"}

Op == [pc : {"idle", "count", "get", "load", "fill", "put", "cache", "drop",
             "llm", "leave", "done", "failed"},
       stage : Stages, id : Tasks \cup {None},
       copy : Session \cup {NoSession}]

Idle == [pc |-> "idle", stage |-> "none", id |-> None, copy |-> NoSession]

Stored == {s \in Tasks : store[s] # NoSession}

\* u has a copy of s in hand, which it will write to the store or the cache.
Holds(u, s) == op[u].id = s /\ op[u].pc \in {"fill", "put", "cache"}

\* u is about to store the session it creates.
Creating(u) == op[u].pc = "put" /\ op[u].stage = "new"

Ended(t) == op[t].pc \in {"idle", "done", "failed"}

TypeOK ==
    /\ store \in [Tasks -> Session \cup {NoSession}]
    /\ cache \in [Tasks -> Session \cup {NoSession}]
    /\ op \in [Tasks -> Op]
    /\ \A t \in Tasks : \/ op[t].pc \in {"idle", "count", "failed"}
                        \/ op[t].id \in Tasks
    /\ \A t \in Tasks : op[t].pc \in {"fill", "put", "cache"}
                            => op[t].copy \in Session
    /\ faults \in 0..MaxFaults
    /\ crowded \in Nat /\ raced \subseteq Keys /\ contended \subseteq Tasks

\* SessionManager::new on an empty store.
Init ==
    /\ store = [s \in Tasks |-> NoSession]
    /\ cache = [s \in Tasks |-> NoSession]
    /\ op = [t \in Tasks |-> Idle]
    /\ faults = 0
    /\ crowded = 0 /\ raced = {} /\ contended = {}

-----------------------------------------------------------------------------
(* Steps of the requests                                                   *)

\* t goes on at pc, in a stage of its work on session s, with copy c in hand.
Set(t, pc, stage, s, c) ==
    op' = [op EXCEPT ![t] = [pc |-> pc, stage |-> stage, id |-> s, copy |-> c]]

\* ... in the same stage, with nothing in hand.
MoveTo(t, pc) == Set(t, pc, op[t].stage, op[t].id, NoSession)

\* t starts a read-modify-write (or, for an export, a read) of session s.
Begin(t, stage, s) == Set(t, "get", stage, s, NoSession)

\* t reads session s: it has copy c in hand and goes on at pc.
Take(t, pc, stage, s, c) ==
    /\ Set(t, pc, stage, s, c)
    /\ contended' = IF \E u \in Tasks \ {t} : Holds(u, s)
                    THEN contended \cup {s} ELSE contended

\* Mutant: the usage of a turn replaces that of the turns before it.
EditOver(t, stage, s) ==
    CASE stage \in {"context", "budget", "answer"} -> s
      [] stage = "tokens"  -> [s EXCEPT !.tokens = {t}]
      [] stage = "archive" -> [s EXCEPT !.archived = TRUE]
      [] stage = "model"   -> [s EXCEPT !.model = TRUE]

\* The change a stage makes to the copy it has read.
Edit(t, stage, s) ==
    CASE stage \in {"context", "budget", "answer"} -> s
      [] stage = "tokens"  -> [s EXCEPT !.tokens = @ \cup {t}]
      [] stage = "archive" -> [s EXCEPT !.archived = TRUE]
      [] stage = "model"   -> [s EXCEPT !.model = TRUE]

\* Another turn of the agent is in update_processing_context, which holds the
\* agent's state lock until the working memory is written.
Busy(t) == \E u \in Turns \ {t} :
    /\ Agent[u] = Agent[t]
    /\ op[u].stage = "context" /\ op[u].pc \in {"load", "fill", "put", "cache"}

\* Mutant: the key is looked up among the sessions in memory.
FindInCache(t) ==
    LET found == {s \in Tasks : cache[s] # NoSession /\ cache[s].key = Key[t]}
        others == {u \in Turns \ {t} : /\ Key[u] = Key[t]
                                       /\ op[u].pc = "count" \/ Creating(u)}
    IN  /\ op[t].pc = "idle"
        /\ \/ \E s \in found : /\ Take(t, "fill", "find", s, cache[s])
                               /\ raced' = raced
           \/ /\ found = {}
              /\ Set(t, "count", "new", None, NoSession)
              /\ raced' = IF others = {} THEN raced ELSE raced \cup {Key[t]}
              /\ UNCHANGED contended
        /\ UNCHANGED <<data, faults, crowded>>

\* get_or_create_session: the exact look-up finds nothing, for no session id
\* has the form "agent:key", and find_by_session_key reads the table.  Of
\* several sessions with this key it takes the one updated last; which one
\* that is is left open.  A key drawn by POST is known once it is stored.
Find(t) ==
    LET found == {s \in Stored : store[s].key = Key[t]}
        others == {u \in Turns \ {t} : /\ Key[u] = Key[t]
                                       /\ op[u].pc = "count" \/ Creating(u)}
    IN  /\ op[t].pc = "idle"
        /\ Key[t] \in Clients => Key[t] \in Stored
        /\ \/ \E s \in found : /\ Take(t, "fill", "find", s, store[s])
                               /\ raced' = raced
           \/ /\ found = {}
              /\ Set(t, "count", "new", None, NoSession)
              /\ raced' = IF others = {} THEN raced ELSE raced \cup {Key[t]}
              /\ UNCHANGED contended
        /\ UNCHANGED <<data, faults, crowded>>

\* POST /api/sessions, DELETE and export of a session that is stored.
Request(t) ==
    /\ op[t].pc = "idle"
    /\ \/ Set(t, "count", "new", None, NoSession)
       \/ \E s \in Stored, stage \in {"archive", "export"} : Begin(t, stage, s)
    /\ UNCHANGED <<data, faults, hist>>

\* Mutant: the limit is checked one too late.
CountPastLimit(t) ==
    /\ op[t].pc = "count"
    /\ \/ /\ Cardinality(Stored) > MaxSessions
          /\ MoveTo(t, "failed")
          /\ UNCHANGED <<crowded, contended>>
       \/ /\ Cardinality(Stored) <= MaxSessions
          /\ Take(t, "put", "new", t, NewSession(t))
          /\ crowded' = IF \E u \in Tasks : Creating(u) THEN crowded + 1
                                                         ELSE crowded
    /\ UNCHANGED <<data, faults, raced>>

\* create_session: the limit check, and the new session in hand.
Count(t) ==
    /\ op[t].pc = "count"
    /\ \/ /\ Cardinality(Stored) >= MaxSessions
          /\ MoveTo(t, "failed")
          /\ UNCHANGED <<crowded, contended>>
       \/ /\ Cardinality(Stored) < MaxSessions
          /\ Take(t, "put", "new", t, NewSession(t))
          /\ crowded' = IF \E u \in Tasks : Creating(u) THEN crowded + 1
                                                         ELSE crowded
    /\ UNCHANGED <<data, faults, raced>>

\* What follows a read: the turn takes the session up, writes its budget, or
\* the export is done.
AfterRead(t) ==
    LET o == op[t]
    IN  \/ o.stage = "find"   /\ Begin(t, "context", o.id)
        \/ o.stage = "prompt" /\ Begin(t, "budget", o.id)
        \/ o.stage = "export" /\ MoveTo(t, "done")

\* get_session finds the session in the cache, and its caller edits the copy.
Hit(t) ==
    LET o == op[t]
    IN  /\ o.pc = "get" /\ cache[o.id] # NoSession
        /\ o.stage = "context" => ~Busy(t)
        /\ \/ /\ o.stage \in Reads
              /\ AfterRead(t)
              /\ UNCHANGED contended
           \/ /\ o.stage \in Edits
              /\ Take(t, "put", o.stage, o.id, Edit(t, o.stage, cache[o.id]))
        /\ UNCHANGED <<data, faults, crowded, raced>>

\* get_session misses the cache ...
Miss(t) ==
    /\ op[t].pc = "get" /\ cache[op[t].id] = NoSession
    /\ op[t].stage = "context" => ~Busy(t)
    /\ MoveTo(t, "load")
    /\ UNCHANGED <<data, faults, hist>>

\* Mutant: the cache is asked again.
LoadFromCache(t) ==
    /\ op[t].pc = "load"
    /\ Take(t, "fill", op[t].stage, op[t].id, cache[op[t].id])
    /\ UNCHANGED <<data, faults, crowded, raced>>

\* ... reads the store (a session is never deleted: delete_session has no
\* caller) ...
Load(t) ==
    /\ op[t].pc = "load"
    /\ Take(t, "fill", op[t].stage, op[t].id, store[op[t].id])
    /\ UNCHANGED <<data, faults, crowded, raced>>

\* ... and puts what it has read into the cache, as find_by_session_key does.
Fill(t) ==
    LET o == op[t]
    IN  /\ o.pc = "fill"
        /\ cache' = [cache EXCEPT ![o.id] = o.copy]
        /\ IF o.stage \in Reads THEN AfterRead(t)
           ELSE Set(t, "put", o.stage, o.id, Edit(t, o.stage, o.copy))
        /\ UNCHANGED <<store, faults, hist>>

\* Mutant: archiving only changes the session in memory.
PutUnlessArchiving(t) ==
    /\ op[t].pc = "put"
    /\ store' = IF op[t].stage = "archive" THEN store
                ELSE [store EXCEPT ![op[t].id] = op[t].copy]
    /\ Set(t, "cache", op[t].stage, op[t].id, op[t].copy)
    /\ UNCHANGED <<cache, faults, hist>>

\* persist_session
Put(t) ==
    /\ op[t].pc = "put"
    /\ store' = [store EXCEPT ![op[t].id] = op[t].copy]
    /\ Set(t, "cache", op[t].stage, op[t].id, op[t].copy)
    /\ UNCHANGED <<cache, faults, hist>>

\* What follows the insert into the cache: the next stage of the turn or of
\* POST (which records a model if it knows one), the end of archive_session,
\* the end of the request.
AfterWrite(t) ==
    LET o == op[t]
    IN  \/ o.stage = "new" /\ t \in Turns /\ Begin(t, "context", o.id)
        \/ o.stage = "context" /\ Begin(t, "prompt", o.id)
        \/ o.stage = "budget"  /\ MoveTo(t, "llm")
        \/ o.stage = "answer"  /\ Begin(t, "tokens", o.id)
        \/ o.stage = "tokens"  /\ MoveTo(t, "leave")
        \/ o.stage = "archive" /\ MoveTo(t, "drop")
        \/ o.stage = "model"   /\ MoveTo(t, "done")
        \/ /\ o.stage = "new" /\ t \in Clients
           /\ \/ MoveTo(t, "done")
              \/ Set(t, "put", "model", o.id, Edit(t, "model", o.copy))

\* Mutant: update_session leaves the cache as it was.
InsertNothing(t) ==
    /\ op[t].pc = "cache"
    /\ AfterWrite(t)
    /\ UNCHANGED <<data, faults, hist>>

\* The second half of create_session and of update_session.
Insert(t) ==
    /\ op[t].pc = "cache"
    /\ cache' = [cache EXCEPT ![op[t].id] = op[t].copy]
    /\ AfterWrite(t)
    /\ UNCHANGED <<store, faults, hist>>

\* The last step of archive_session.
Drop(t) ==
    /\ op[t].pc = "drop"
    /\ cache' = [cache EXCEPT ![op[t].id] = NoSession]
    /\ MoveTo(t, "done")
    /\ UNCHANGED <<store, faults, hist>>

\* The model calls and the tool loop; then the answer is stored and the
\* working memory refreshed from it.  A turn that fails, or that runs a workflow
\* or returns a plan for approval instead, skips what follows.
Llm(t) ==
    /\ op[t].pc = "llm"
    /\ \/ Begin(t, "answer", op[t].id)
       \/ Set(t, "leave", "none", op[t].id, NoSession)
    /\ UNCHANGED <<data, faults, hist>>

\* Mutant: a turn forgets its context once it is the agent's only turn.
LeaveAlone(t) ==
    /\ op[t].pc = "leave"
    /\ \A u \in Turns \ {t} : Agent[u] = Agent[t] => Ended(u)
    /\ MoveTo(t, IF op[t].stage = "tokens" THEN "done" ELSE "failed")
    /\ UNCHANGED <<data, faults, hist>>

\* The turn, answered or failed, takes the state lock to forget its context.
Leave(t) ==
    /\ op[t].pc = "leave" /\ ~Busy(t)
    /\ MoveTo(t, IF op[t].stage = "tokens" THEN "done" ELSE "failed")
    /\ UNCHANGED <<data, faults, hist>>

\* The client of a streaming turn goes away: its task is dropped where it waits,
\* which may be between the two halves of a write.
Cut(t) ==
    /\ op[t].pc \in {"get", "fill", "cache", "llm", "leave"}
    /\ MoveTo(t, "failed")
    /\ contended' = IF op[t].pc = "cache" THEN contended \cup {op[t].id}
                                          ELSE contended
    /\ faults < MaxFaults /\ faults' = faults + 1
    /\ UNCHANGED <<data, crowded, raced>>

\* The gateway restarts: the store stays, all else is gone.
Restart ==
    /\ faults < MaxFaults /\ faults' = faults + 1
    /\ cache' = [s \in Tasks |-> NoSession]
    /\ op' = [t \in Tasks |-> IF Ended(t) THEN op[t]
                              ELSE [op[t] EXCEPT !.pc = "failed",
                                            !.copy = NoSession]]
    /\ UNCHANGED <<store, hist>>

Step(t) ==
    \/ Count(t) \/ Hit(t) \/ Miss(t) \/ Load(t) \/ Fill(t) \/ Put(t) \/ Insert(t)
    \/ Drop(t)
    \/ t \in Turns /\ (Llm(t) \/ Leave(t))

Next ==
    \/ \E t \in Turns : Find(t)
    \/ \E t \in Clients : Request(t)
    \/ \E t \in Tasks : Step(t)
    \/ \E t \in Turns : Cut(t)
    \/ Restart

Spec == Init /\ [][Next]_vars

\* A task that has started is scheduled until it ends; the calls of a turn to
\* its model end, with an answer or an error, by their timeouts.
FairSpec == Spec /\ \A t \in Tasks : WF_vars(Step(t))

-----------------------------------------------------------------------------
(* Properties                                                              *)

\* create_session lets the table grow past max_sessions only by the creations
\* that checked the limit while another one had passed the check and not yet
\* stored its session.
LimitKept == Cardinality(Stored) <= MaxSessions + crowded

\* get_or_create_session gives a key a second session only if two turns looked
\* it up in vain before either had stored one: from then on the conversation
\* is split for good.
OneSessionPerKey ==
    \A r, s \in Stored :
        (r # s /\ store[r].key = store[s].key) => store[r].key \in raced

\* What a finished request wrote is in the store as long as no two requests
\* ever had a copy of the session in hand at once, and none was dropped in the
\* middle of its write: the tokens of every answered
\* turn are counted, an archived session stays archived, whatever turns go on
\* in it, and the model that POST recorded is there.
UncontendedKept ==
    \A t \in Tasks :
        LET o == op[t]
        IN  (o.pc = "done" /\ o.id \notin contended) =>
                /\ o.stage = "tokens"  => t \in store[o.id].tokens
                /\ o.stage = "archive" => store[o.id].archived
                /\ o.stage = "model"   => store[o.id].model

\* The cache and the store never disagree about such a session while no
\* request has it in hand: what get_session answers is what a restart would
\* find, after any number of fills, updates and archivings.
UncontendedCoherent ==
    \A s \in Tasks \ contended :
        (\A t \in Tasks : ~Holds(t, s)) => cache[s] \in {NoSession, store[s]}

\* The sessions implement SessionTable: of a session that one request at a time
\* has in hand, each write adds what its request is for to what is stored, what
\* a request was told is done is stored and stays, and a session, once it is
\* stored, is never gone.
Effect(t, stage) == IF stage = "tokens" THEN <<stage, t>> ELSE <<stage>>
EffectsIn(s) ==
    {Effect(None, "new")} \cup {Effect(t, "tokens") : t \in s.tokens}
    \cup {e \in {Effect(None, "archive")} : s.archived}
    \cup {e \in {Effect(None, "model")} : s.model}
Shown == [s \in Tasks |-> IF store[s] = NoSession THEN {} ELSE EffectsIn(store[s])]
Users == [s \in Tasks |-> {t \in Tasks : Holds(t, s)}]
Told == {<<op[t].id, Effect(t, op[t].stage)>> :
            t \in {u \in Tasks : op[u].pc = "done" /\ op[u].stage # "export"}}
Table == INSTANCE SessionTable WITH
    Sessions <- Tasks, Requests <- Tasks,
    shows <- Shown, users <- Users, lost <- contended, told <- Told
TableSpec == Table!Spec

\* Every request that has started ends: the state lock of an agent, held by
\* one turn through two writes of its session, never keeps another turn out
\* for good.
RequestsEnd == \A t \in Tasks : ~Ended(t) ~> Ended(t)
=============================================================================
