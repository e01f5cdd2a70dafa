---------------------------- MODULE CronScheduler ----------------------------
(***************************************************************************)
(* The cron scheduler of the gateway (crates/rockbot-gateway/src/cron.rs): *)
(* a job map in memory, its image in the redb table CRON_JOBS, and one     *)
(* background task that fires due jobs and serves manual triggers, while   *)
(* HTTP handlers add, replace, remove and trigger jobs on other tasks.     *)
(*                                                                         *)
(* The map's lock is only ever held across straight-line code, so each     *)
(* critical section is one atomic step, each redb transaction is another,  *)
(* and everything else may interleave between them.                        *)
(***************************************************************************)
EXTENDS Naturals, Sequences, FiniteSets

CONSTANTS
    Jobs,        \* job ids
    Callers,     \* concurrent API callers
    Schedules,   \* the schedules a caller may give a job
    MaxTime,     \* bound on the clock
    QueueCap,    \* capacity of the command channel (64 in the code)
    MaxCrashes,  \* bound on process crashes
    NoJob,       \* "no record under this id"
    None         \* Option::None for timestamps, holders and ids

ASSUME CronAssumption ==
    /\ Schedules \subseteq [type : {"at", "every", "cron"}, arg : Nat]
    /\ MaxTime \in Nat /\ MaxCrashes \in Nat
    /\ QueueCap \in Nat \ {0}
    /\ None \notin Nat /\ None \notin Jobs /\ None \notin Callers

Stamp == Nat \cup {None}

\* A job: its schedule, and the CronJobState the scheduler keeps for it.
\* consecutive_errors is non-zero exactly when status is "failed".
Job == [sched : Schedules, enabled : BOOLEAN, next : Stamp, last : Stamp,
        status : {"none", "success", "failed"}]

ASSUME NoJobAssumption == NoJob \notin Job

MaybeJob == Job \cup {NoJob}

VARIABLES
    now,        \* wall clock
    jobs,       \* in-memory map
    store,      \* table CRON_JOBS
    started,    \* cmd_tx is Some
    txLock,     \* caller holding the cmd_tx mutex, or None
    queue,      \* command channel: job ids to trigger, None for Shutdown
    lpc,        \* where run_loop is
    due,        \* ids tick() has collected and not yet triggered
    cur,        \* job being executed or persisted
    runAt,      \* now_ms read by trigger_job
    byTick,     \* the current run comes from tick(), not from trigger_now
    image,      \* clone of the job that trigger_job is about to persist
    op,         \* what each caller is in the middle of
    crashes,    \* number of crashes so far
    starts,     \* history: scheduled one-shot runs since a job was last written
    removed,    \* history: ids whose remove_job returned Ok, not added since
    contended   \* history: ids that two writers were writing at once

loopVars == <<lpc, due, cur, runAt, byTick, image>>
txVars   == <<started, txLock, queue>>
histVars == <<starts, removed, contended>>
vars == <<now, jobs, store, txVars, loopVars, op, crashes, histVars>>

-----------------------------------------------------------------------------
(* compute_next_run and is_due                                             *)

\* The cron expressions are the periodic ones: arg = n fires at the
\* multiples of n, and arg = 0 is an expression with no instant left.
NextMatch(n, t) == IF n = 0 THEN None ELSE ((t \div n) + 1) * n

\* Mutant: a one-shot that has fired is armed again.
AtNextIgnoringLast(job, t) == IF job.sched.arg > t THEN job.sched.arg ELSE t

AtNext(job, t) ==
    CASE job.last # None     -> None
      [] job.last = None     -> IF job.sched.arg > t THEN job.sched.arg ELSE t

EveryNext(job, t) ==
    LET base == IF job.last = None THEN t ELSE job.last
        nxt  == base + job.sched.arg
    IN  IF nxt <= t THEN t ELSE nxt

ComputeNextRun(job, t) ==
    CASE job.sched.type = "at"    -> AtNext(job, t)
      [] job.sched.type = "every" -> EveryNext(job, t)
      [] OTHER                    -> NextMatch(job.sched.arg, t)

\* Mutant: a job is due only after its time has passed.
IsDueStrict(job, t) == job.enabled /\ job.next # None /\ job.next < t

IsDue(job, t) == job.enabled /\ job.next # None /\ job.next <= t

\* The job with its next run recomputed.
Rearm(job, t) == [job EXCEPT !.next = ComputeNextRun(job, t)]

\* CronJob::new
NewJob(s) == [sched |-> s, enabled |-> TRUE, next |-> None, last |-> None,
              status |-> "none"]

\* Mutant: the next run is computed before the run is recorded.
AfterRunTooEarly(job, t, ok) ==
    [Rearm(job, t) EXCEPT !.last = t,
                          !.status = IF ok THEN "success" ELSE "failed"]

\* The state trigger_job leaves in the map after a run started at t.
AfterRun(job, t, ok) ==
    LET ran == Rearm([job EXCEPT !.last = t,
                                 !.status = IF ok THEN "success" ELSE "failed"], t)
    IN  [ran EXCEPT !.enabled = @ /\ ~(ran.sched.type = "at" /\ ran.next = None)]

-----------------------------------------------------------------------------
Idle == [pc |-> "idle", id |-> None, job |-> NoJob]

Op == {Idle}
    \cup [pc : {"held", "put", "insert"}, id : Jobs, job : Job]
    \cup [pc : {"delete"}, id : Jobs, job : {NoJob}]
    \cup [pc : {"lock", "send"}, id : Jobs \cup {None}, job : {NoJob}]

TypeOK ==
    /\ now \in 0..MaxTime
    /\ jobs \in [Jobs -> MaybeJob]
    /\ store \in [Jobs -> MaybeJob]
    /\ started \in BOOLEAN
    /\ txLock \in Callers \cup {None}
    /\ queue \in Seq(Jobs \cup {None}) /\ Len(queue) <= QueueCap
    /\ lpc \in {"off", "idle", "tick", "execute", "persist", "stopped"}
    /\ due \in SUBSET Jobs
    /\ cur \in Jobs \cup {None} /\ runAt \in Nat /\ byTick \in BOOLEAN
    /\ image \in MaybeJob
    /\ lpc # "off" => started
    /\ lpc \in {"execute", "persist"} => cur \in Jobs
    /\ lpc = "persist" => image \in Job
    /\ op \in [Callers -> Op]
    /\ crashes \in 0..MaxCrashes
    /\ starts \in [Jobs -> Nat]
    /\ removed \in SUBSET Jobs
    /\ contended \in SUBSET Jobs

\* new(): an empty store, and the background task not started yet.
Init ==
    /\ now = 0
    /\ jobs = [j \in Jobs |-> NoJob]
    /\ store = [j \in Jobs |-> NoJob]
    /\ started = FALSE /\ txLock = None /\ queue = <<>>
    /\ lpc = "off" /\ due = {} /\ cur = None /\ runAt = 0
    /\ byTick = FALSE /\ image = NoJob
    /\ op = [c \in Callers |-> Idle]
    /\ crashes = 0
    /\ starts = [j \in Jobs |-> 0] /\ removed = {} /\ contended = {}

-----------------------------------------------------------------------------
(* Who is in the middle of writing a job: its store image and its memory   *)
(* image are written in two steps, and a writer is in flight in between.   *)

CallerWriting(c, j) == op[c].id = j /\ op[c].pc \in {"put", "insert", "delete"}
LoopWriting(j) == lpc = "persist" /\ cur = j
Writing(j) == LoopWriting(j) \/ \E c \in Callers : CallerWriting(c, j)

\* History: a writer of j starts; j is contended if another is in flight.
StartWriting(j) ==
    contended' = IF Writing(j) THEN contended \cup {j} ELSE contended

-----------------------------------------------------------------------------
(* The background task                                                     *)

\* start(): only the first call spawns the task.
Start ==
    /\ txLock = None
    /\ ~started
    /\ started' = TRUE
    /\ lpc' = "idle"
    /\ UNCHANGED <<now, jobs, store, txLock, queue, due, cur, runAt, byTick,
                   image, op, crashes, histVars>>

DueJobs == {j \in Jobs : jobs[j] # NoJob /\ IsDue(jobs[j], now)}

\* tick(): collect the due ids under the read lock. A tick that finds
\* nothing changes nothing.
Tick ==
    /\ lpc = "idle"
    /\ DueJobs # {}
    /\ due' = DueJobs
    /\ lpc' = "tick"
    /\ UNCHANGED <<now, jobs, store, txVars, cur, runAt, byTick, image, op,
                   crashes, histVars>>

\* trigger_job returns: to the rest of the tick, or to run_loop.
Return(rest) ==
    /\ lpc' = IF rest = {} THEN "idle" ELSE "tick"
    /\ cur' = None /\ runAt' = 0 /\ byTick' = FALSE /\ image' = NoJob

\* First half of trigger_job: clone the job, read the clock, start the
\* executor. The job is not looked at again: neither enabled nor next.
BeginRun(j, scheduled, rest) ==
    \/ /\ jobs[j] # NoJob
       /\ lpc' = "execute"
       /\ cur' = j
       /\ runAt' = now
       /\ byTick' = scheduled
       /\ starts' = IF scheduled /\ jobs[j].sched.type = "at"
                    THEN [starts EXCEPT ![j] = @ + 1] ELSE starts
       /\ UNCHANGED image
    \/ /\ jobs[j] = NoJob
       /\ Return(rest)
       /\ UNCHANGED starts

TriggerDue(j) ==
    /\ lpc = "tick"
    /\ j \in due
    /\ due' = due \ {j}
    /\ BeginRun(j, TRUE, due \ {j})
    /\ UNCHANGED <<now, jobs, store, txVars, op, crashes, removed, contended>>

\* run_loop receives TriggerNow.
RecvTrigger ==
    /\ lpc = "idle"
    /\ queue # <<>>
    /\ Head(queue) # None
    /\ queue' = Tail(queue)
    /\ BeginRun(Head(queue), FALSE, {})
    /\ UNCHANGED <<now, jobs, store, started, txLock, due, op, crashes,
                   removed, contended>>

\* run_loop receives Shutdown and breaks; dropping the receiver discards
\* what is queued behind it. cmd_tx keeps its dead sender.
RecvShutdown ==
    /\ lpc = "idle"
    /\ queue # <<>>
    /\ Head(queue) = None
    /\ queue' = <<>>
    /\ lpc' = "stopped"
    /\ UNCHANGED <<now, jobs, store, started, txLock, due, cur, runAt, byTick,
                   image, op, crashes, histVars>>

\* Mutant: the clone to persist is taken before the outcome is written.
CommitCloneTooEarly(ok) ==
    /\ lpc = "execute"
    /\ jobs[cur] # NoJob
    /\ jobs' = [jobs EXCEPT ![cur] = AfterRun(@, runAt, ok)]
    /\ image' = jobs[cur]
    /\ lpc' = "persist"
    /\ StartWriting(cur)
    /\ UNCHANGED <<now, store, txVars, due, cur, runAt, byTick, op, crashes,
                   starts, removed>>

\* The executor returned: write the outcome into the map, unless the job
\* has been removed meanwhile, and clone the job to persist it.
Commit(ok) ==
    /\ lpc = "execute"
    /\ \/ /\ jobs[cur] # NoJob
          /\ jobs' = [jobs EXCEPT ![cur] = AfterRun(@, runAt, ok)]
          /\ image' = AfterRun(jobs[cur], runAt, ok)
          /\ lpc' = "persist"
          /\ StartWriting(cur)
          /\ UNCHANGED <<cur, runAt, byTick>>
       \/ /\ jobs[cur] = NoJob
          /\ Return(due)
          /\ UNCHANGED <<jobs, contended>>
    /\ UNCHANGED <<now, store, txVars, due, op, crashes, starts, removed>>

\* persist_job_state: a plain put of the clone, after the lock is gone.
Persist ==
    /\ lpc = "persist"
    /\ store' = [store EXCEPT ![cur] = image]
    /\ Return(due)
    /\ UNCHANGED <<now, jobs, txVars, due, op, crashes, histVars>>

-----------------------------------------------------------------------------
(* The API                                                                 *)

\* get_job: the caller keeps a copy that it may edit and send back.
GetJob(c, j) ==
    /\ op[c].pc = "idle"
    /\ jobs[j] # NoJob
    /\ op' = [op EXCEPT ![c] = [pc |-> "held", id |-> j, job |-> jobs[j]]]
    /\ UNCHANGED <<now, jobs, store, txVars, loopVars, crashes, histVars>>

\* add_job: arm the job and persist it. An existing id is overwritten.
AddPut(c, j, s) ==
    LET job == Rearm(NewJob(s), now) IN
    /\ op[c].pc = "idle"
    /\ store' = [store EXCEPT ![j] = job]
    /\ op' = [op EXCEPT ![c] = [pc |-> "insert", id |-> j, job |-> job]]
    /\ StartWriting(j)
    /\ removed' = removed \ {j}
    /\ UNCHANGED <<now, jobs, txVars, loopVars, crashes, starts>>

\* Mutant: update_job does not look for the record first.
UpdateUnchecked(c, s, enabled) ==
    LET j   == op[c].id
        job == Rearm([op[c].job EXCEPT !.sched = s, !.enabled = enabled], now)
    IN
    /\ op[c].pc = "held"
    /\ op' = [op EXCEPT ![c] = [pc |-> "put", id |-> j, job |-> job]]
    /\ StartWriting(j)
    /\ UNCHANGED <<now, jobs, store, txVars, loopVars, crashes, starts, removed>>

\* update_job: re-arm the edited copy; an id the store does not hold is
\* NotFound, and the copy is forgotten.
UpdateCheck(c, s, enabled) ==
    LET j   == op[c].id
        job == Rearm([op[c].job EXCEPT !.sched = s, !.enabled = enabled], now)
    IN
    /\ op[c].pc = "held"
    /\ \/ /\ store[j] # NoJob
          /\ op' = [op EXCEPT ![c] = [pc |-> "put", id |-> j, job |-> job]]
          /\ StartWriting(j)
       \/ /\ store[j] = NoJob
          /\ op' = [op EXCEPT ![c] = Idle]
          /\ UNCHANGED contended
    /\ UNCHANGED <<now, jobs, store, txVars, loopVars, crashes, starts, removed>>

\* update_job: persist the copy.
UpdatePut(c) ==
    /\ op[c].pc = "put"
    /\ store' = [store EXCEPT ![op[c].id] = op[c].job]
    /\ op' = [op EXCEPT ![c].pc = "insert"]
    /\ UNCHANGED <<now, jobs, txVars, loopVars, crashes, histVars>>

\* add_job and update_job: replace the job in memory, state included.
Insert(c) ==
    /\ op[c].pc = "insert"
    /\ jobs' = [jobs EXCEPT ![op[c].id] = op[c].job]
    /\ starts' = [starts EXCEPT ![op[c].id] = 0]
    /\ op' = [op EXCEPT ![c] = Idle]
    /\ UNCHANGED <<now, store, txVars, loopVars, crashes, removed, contended>>

\* remove_job: delete the record; one that is not there is NotFound.
RemoveDelete(c, j) ==
    /\ op[c].pc = "idle"
    /\ store[j] # NoJob
    /\ store' = [store EXCEPT ![j] = NoJob]
    /\ op' = [op EXCEPT ![c] = [pc |-> "delete", id |-> j, job |-> NoJob]]
    /\ StartWriting(j)
    /\ UNCHANGED <<now, jobs, txVars, loopVars, crashes, starts, removed>>

\* remove_job: drop the job from memory and return Ok.
RemoveMem(c) ==
    /\ op[c].pc = "delete"
    /\ jobs' = [jobs EXCEPT ![op[c].id] = NoJob]
    /\ removed' = removed \cup {op[c].id}
    /\ op' = [op EXCEPT ![c] = Idle]
    /\ UNCHANGED <<now, store, txVars, loopVars, crashes, starts, contended>>

\* trigger_now: the job must be in memory. shutdown() sends no id.
TriggerNow(c, j) ==
    /\ op[c].pc = "idle"
    /\ jobs[j] # NoJob
    /\ op' = [op EXCEPT ![c] = [pc |-> "lock", id |-> j, job |-> NoJob]]
    /\ UNCHANGED <<now, jobs, store, txVars, loopVars, crashes, histVars>>

Shutdown(c) ==
    /\ op[c].pc = "idle"
    /\ op' = [op EXCEPT ![c] = [pc |-> "lock", id |-> None, job |-> NoJob]]
    /\ UNCHANGED <<now, jobs, store, txVars, loopVars, crashes, histVars>>

\* trigger_now and shutdown take the cmd_tx mutex; without a sender they
\* return at once.
LockTx(c) ==
    /\ op[c].pc = "lock"
    /\ txLock = None
    /\ \/ /\ started
          /\ txLock' = c
          /\ op' = [op EXCEPT ![c].pc = "send"]
       \/ /\ ~started
          /\ op' = [op EXCEPT ![c] = Idle]
          /\ UNCHANGED txLock
    /\ UNCHANGED <<now, jobs, store, started, queue, loopVars, crashes, histVars>>

SendFrame(c) ==
    /\ txLock' = None
    /\ op' = [op EXCEPT ![c] = Idle]
    /\ UNCHANGED <<now, jobs, store, started, loopVars, crashes, histVars>>

\* Mutants: an unbounded channel; a sender that outlives the receiver; a
\* try_send whose "full" error is ignored.
SendUnbounded(c) ==
    op[c].pc = "send" /\ queue' = Append(queue, op[c].id) /\ SendFrame(c)
SendToNobody(c) ==
    /\ op[c].pc = "send" /\ Len(queue) < QueueCap /\ lpc # "stopped"
    /\ queue' = Append(queue, op[c].id) /\ SendFrame(c)
TrySend(c) ==
    /\ op[c].pc = "send"
    /\ queue' = IF Len(queue) < QueueCap /\ lpc # "stopped"
                THEN Append(queue, op[c].id) ELSE queue
    /\ SendFrame(c)

\* ... and hold it while they wait for room in the channel. A send into a
\* channel whose receiver is gone fails.
Send(c) ==
    /\ op[c].pc = "send"
    /\ \/ /\ lpc # "stopped"
          /\ Len(queue) < QueueCap
          /\ queue' = Append(queue, op[c].id)
       \/ /\ lpc = "stopped"
          /\ UNCHANGED queue
    /\ SendFrame(c)

-----------------------------------------------------------------------------
(* The environment                                                         *)

AdvanceClock ==
    /\ now < MaxTime
    /\ now' = now + 1
    /\ UNCHANGED <<jobs, store, txVars, loopVars, op, crashes, histVars>>

\* The process dies and comes back: new() reloads the map from the store.
CrashRestart ==
    /\ crashes < MaxCrashes
    /\ crashes' = crashes + 1
    /\ jobs' = store
    /\ started' = FALSE /\ txLock' = None /\ queue' = <<>>
    /\ lpc' = "off" /\ due' = {} /\ cur' = None /\ runAt' = 0
    /\ byTick' = FALSE /\ image' = NoJob
    /\ op' = [c \in Callers |-> Idle]
    /\ UNCHANGED <<now, store, histVars>>

LoopStep ==
    \/ Start \/ Tick \/ RecvTrigger \/ RecvShutdown \/ Persist
    \/ \E j \in Jobs : TriggerDue(j)
    \/ \E ok \in BOOLEAN : Commit(ok)

CallerStep(c) ==
    \/ \E j \in Jobs : GetJob(c, j) \/ RemoveDelete(c, j) \/ TriggerNow(c, j)
    \/ \E j \in Jobs, s \in Schedules : AddPut(c, j, s)
    \/ \E s \in Schedules, e \in BOOLEAN : UpdateCheck(c, s, e)
    \/ UpdatePut(c) \/ Insert(c) \/ RemoveMem(c)
    \/ Shutdown(c) \/ LockTx(c) \/ Send(c)

Next ==
    \/ LoopStep
    \/ \E c \in Callers : CallerStep(c)
    \/ AdvanceClock
    \/ CrashRestart

Spec == Init /\ [][Next]_vars

\* Fairness. The tasks of the runtime are scheduled fairly and an executor
\* returns, so each step of the loop and of a call under way is weakly fair.
\* select! picks at random among the branches that are ready, and the
\* cmd_tx mutex is FIFO, hence the strong fairness.
Recv == RecvTrigger \/ RecvShutdown
Fairness ==
    /\ WF_vars(Start)
    /\ WF_vars(\E j \in Jobs : TriggerDue(j))
    /\ WF_vars(\E ok \in BOOLEAN : Commit(ok))
    /\ WF_vars(Persist)
    /\ SF_vars(Tick)
    /\ SF_vars(Recv)
    /\ \A c \in Callers :
         /\ WF_vars(UpdatePut(c) \/ Insert(c) \/ RemoveMem(c) \/ Send(c))
         /\ SF_vars(LockTx(c))

FairSpec == Spec /\ Fairness

-----------------------------------------------------------------------------
(* Properties                                                              *)

\* Every image of a job that memory, the store or a call under way may put
\* into force.
LiveImages(j) ==
    {jobs[j], store[j]}
        \cup (IF LoopWriting(j) THEN {image} ELSE {})
        \cup {op[c].job : c \in {d \in Callers : CallerWriting(d, j)}}

\* A one-shot job is armed until it has run and never again afterwards, in
\* memory, in the store and in every write under way: compute_next_run is
\* re-evaluated by add_job, update_job and trigger_job on different copies.
OneShotArmed(job) ==
    job # NoJob /\ job.sched.type = "at" => (job.next = None <=> job.last # None)
OneShotArmedUntilFired ==
    \A j \in Jobs : \A job \in LiveImages(j) : OneShotArmed(job)

\* A one-shot job is fired by the schedule at most once between two writes
\* by callers, whatever manual triggers, removals and edits do meanwhile.
\* A crash between the run and its persist costs at most one repetition.
OneShotFiresOncePerLife ==
    \A j \in Jobs :
        jobs[j] # NoJob /\ jobs[j].sched.type = "at" => starts[j] <= 1 + crashes

\* Memory and store agree on a job whenever nobody is writing it, as long as
\* no two writers of it have overlapped. (They write the two in different
\* orders and without a common lock, so an overlap may split them for good.)
MemoryMatchesStore ==
    \A j \in Jobs \ contended : ~Writing(j) => jobs[j] = store[j]

\* remove_job is final unless another writer was under way: an execution, a
\* persist or an update with an older copy does not bring the job back.
UncontendedRemovalIsFinal ==
    \A j \in removed \ contended : jobs[j] = NoJob /\ store[j] = NoJob

\* What the tests say of remove_job: the job is gone after it (cron.rs:781-783).
RemovalIsFinal == \A j \in removed : jobs[j] = NoJob

\* A due job is eventually executed, or stops being due because a caller
\* changed it, or the scheduler stops: other jobs, manual triggers and
\* failing executions do not starve it, and neither does a restart.
DueJobsRun ==
    \A j \in Jobs :
        (jobs[j] # NoJob /\ jobs[j].enabled
            /\ jobs[j].next # None /\ jobs[j].next <= now)
        ~> (\/ lpc = "execute" /\ cur = j
            \/ lpc = "stopped"
            \/ jobs[j] = NoJob \/ ~jobs[j].enabled
            \/ jobs[j].next = None \/ jobs[j].next > now)

\* trigger_now and shutdown return, whether the channel is full, empty or
\* without a receiver: they wait while they hold the cmd_tx mutex.
CommandsReturn ==
    \A c \in Callers : op[c].pc \in {"lock", "send"} ~> op[c].pc = "idle"

\* A shutdown requested of a running scheduler stops it (unless the process
\* dies first), however many commands and due jobs are ahead of it.
ShutdownStops ==
    \A c \in Callers :
        (op[c].pc = "lock" /\ op[c].id = None /\ started)
            ~> lpc \in {"off", "stopped"}
=============================================================================
