------------------------- MODULE CronSchedulerProofs -------------------------
(***************************************************************************)
(* Theorems about CronScheduler, for any jobs, callers, schedules, bounds  *)
(* and number of crashes.                                                  *)
(***************************************************************************)
EXTENDS CronScheduler, TLAPS

\* compute_next_run returns a timestamp or None.
LEMMA NextRunType ==
    ASSUME NEW job \in Job, NEW t \in Nat
    PROVE  ComputeNextRun(job, t) \in Stamp
<1> USE CronAssumption
<1>1. job.sched.arg \in Nat /\ job.last \in Stamp
  BY DEF Job
<1>2. AtNext(job, t) \in Stamp
  BY <1>1 DEF AtNext, Stamp
<1>3. EveryNext(job, t) \in Stamp
  BY <1>1 DEF EveryNext, Stamp
<1>4. NextMatch(job.sched.arg, t) \in Stamp
  <2>1. CASE job.sched.arg = 0
    BY <2>1 DEF NextMatch, Stamp
  <2>2. CASE job.sched.arg # 0
    <3>1. t \div job.sched.arg \in Nat
      BY <1>1, <2>2
    <3> QED BY <1>1, <2>2, <3>1 DEF NextMatch, Stamp
  <2> QED BY <2>1, <2>2
<1> QED BY <1>2, <1>3, <1>4 DEF ComputeNextRun

\* Re-arming a job and recording a run yield jobs.
LEMMA RearmType ==
    ASSUME NEW job \in Job, NEW t \in Nat
    PROVE  Rearm(job, t) \in Job
BY NextRunType DEF Rearm, Job

LEMMA AfterRunType ==
    ASSUME NEW job \in Job, NEW t \in Nat, NEW ok \in BOOLEAN
    PROVE  AfterRun(job, t, ok) \in Job
<1> DEFINE st  == IF ok THEN "success" ELSE "failed"
           run == [job EXCEPT !.last = t, !.status = st]
           ran == Rearm(run, t)
<1>1. run \in Job
  BY DEF Job, Stamp
<1>2. ran \in Job
  BY <1>1, RearmType
<1> HIDE DEF run
<1>3. ran.enabled \in BOOLEAN
  BY <1>2 DEF Job
<1> HIDE DEF ran
<1>4. [ran EXCEPT !.enabled = @ /\ ~(ran.sched.type = "at" /\ ran.next = None)] \in Job
  BY <1>2, <1>3 DEF Job
<1> QED BY <1>4 DEF AfterRun, ran, run

LEMMA NewJobType ==
    ASSUME NEW s \in Schedules
    PROVE  NewJob(s) \in Job
BY DEF NewJob, Job, Stamp

LEMMA EditType ==
    ASSUME NEW job \in Job, NEW s \in Schedules, NEW e \in BOOLEAN
    PROVE  [job EXCEPT !.sched = s, !.enabled = e] \in Job
BY DEF Job

-----------------------------------------------------------------------------
(* Type correctness, one lemma for the steps of the loop and one for those *)
(* of a caller.                                                            *)

\* Starting a run, or finding that the job is gone, keeps the types.
LEMMA BeginRunType ==
    ASSUME TypeOK, NEW j \in Jobs, NEW b \in BOOLEAN, NEW rest, BeginRun(j, b, rest)
    PROVE  /\ lpc' \in {"off", "idle", "tick", "execute", "persist", "stopped"}
           /\ cur' \in Jobs \cup {None} /\ runAt' \in Nat /\ byTick' \in BOOLEAN
           /\ image' \in MaybeJob /\ starts' \in [Jobs -> Nat]
           /\ lpc' # "persist" /\ (lpc' = "execute" => cur' \in Jobs)
<1>1. now \in Nat
  BY CronAssumption DEF TypeOK
<1>2. CASE jobs[j] # NoJob
  <2>1. starts' = [starts EXCEPT ![j] = @ + 1] \/ starts' = starts
    BY <1>2 DEF BeginRun
  <2>0. starts \in [Jobs -> Nat]
    BY DEF TypeOK
  <2>2. starts' \in [Jobs -> Nat]
    BY <2>0, <2>1
  <2> QED BY <1>1, <1>2, <2>2 DEF BeginRun, TypeOK
<1>3. CASE jobs[j] = NoJob
  <2>1. Return(rest) /\ starts' = starts
    BY <1>3 DEF BeginRun
  <2> QED BY <2>1 DEF Return, TypeOK, MaybeJob
<1> QED BY <1>2, <1>3

LEMMA ContendedType ==
    ASSUME TypeOK, NEW j \in Jobs, StartWriting(j)
    PROVE  contended' \in SUBSET Jobs
BY DEF TypeOK, StartWriting

LEMMA LoopType ==
    ASSUME TypeOK, LoopStep
    PROVE  TypeOK'
<1>1. CASE Start
  BY <1>1 DEF TypeOK, Start, histVars
<1>2. CASE Tick
  BY <1>2 DEF TypeOK, Tick, DueJobs, txVars, histVars
<1>3. CASE RecvTrigger
  <2>1. Head(queue) \in Jobs /\ queue' \in Seq(Jobs \cup {None})
        /\ Len(queue') <= QueueCap
    BY <1>3, CronAssumption DEF TypeOK, RecvTrigger
  <2>2. BeginRun(Head(queue), FALSE, {})
    BY <1>3 DEF RecvTrigger
  <2> QED BY <1>3, <2>1, <2>2, BeginRunType DEF TypeOK, RecvTrigger
<1>4. CASE RecvShutdown
  <2>1. queue' = <<>> /\ Len(queue') <= QueueCap
    BY <1>4, CronAssumption DEF RecvShutdown
  <2> QED BY <1>4, <2>1 DEF TypeOK, RecvShutdown, histVars
<1>5. CASE Persist
  <2>1. store' = [store EXCEPT ![cur] = image] /\ Return(due)
    BY <1>5 DEF Persist
  <2>2. store' \in [Jobs -> MaybeJob]
    BY <2>1 DEF TypeOK
  <2>3. /\ lpc' \in {"idle", "tick"} /\ image' = NoJob
        /\ cur' = None /\ runAt' = 0 /\ byTick' = FALSE
    BY <2>1 DEF Return
  <2>4. /\ UNCHANGED <<now, jobs, started, txLock, queue, due, op, crashes,
                       starts, removed, contended>>
        /\ lpc = "persist"
    BY <1>5 DEF Persist, txVars, histVars
  <2> QED BY <2>2, <2>3, <2>4 DEF TypeOK, MaybeJob
<1>6. ASSUME NEW j \in Jobs, TriggerDue(j)
      PROVE  TypeOK'
  <2>1. BeginRun(j, TRUE, due \ {j})
    BY <1>6 DEF TriggerDue
  <2> QED BY <1>6, <2>1, BeginRunType DEF TypeOK, TriggerDue, txVars
<1>7. ASSUME NEW ok \in BOOLEAN, Commit(ok)
      PROVE  TypeOK'
  <2>1. CASE jobs[cur] # NoJob
    <3> cur \in Jobs
      BY <1>7 DEF TypeOK, Commit
    <3>1. AfterRun(jobs[cur], runAt, ok) \in Job
      BY <2>1, AfterRunType DEF TypeOK, MaybeJob
    <3>2. jobs' = [jobs EXCEPT ![cur] = AfterRun(jobs[cur], runAt, ok)]
          /\ image' = AfterRun(jobs[cur], runAt, ok) /\ StartWriting(cur)
      BY <1>7, <2>1 DEF Commit
    <3>3. jobs' \in [Jobs -> MaybeJob] /\ image' \in Job
      BY <3>1, <3>2 DEF TypeOK, MaybeJob
    <3>4. contended' \in SUBSET Jobs
      BY <3>2, ContendedType
    <3> QED BY <1>7, <2>1, <3>3, <3>4 DEF TypeOK, Commit, MaybeJob, txVars
  <2>2. CASE jobs[cur] = NoJob
    <3>1. Return(due)
      BY <1>7, <2>2 DEF Commit
    <3> QED BY <1>7, <2>2, <3>1 DEF Return, TypeOK, Commit, txVars, MaybeJob
  <2> QED BY <2>1, <2>2
<1> QED BY <1>1, <1>2, <1>3, <1>4, <1>5, <1>6, <1>7 DEF LoopStep

\* A caller's own record stays typed when it moves to another well-typed one.
LEMMA OpType ==
    ASSUME TypeOK, NEW c \in Callers, NEW new \in Op, op' = [op EXCEPT ![c] = new]
    PROVE  op' \in [Callers -> Op]
BY DEF TypeOK

\* What a call under way carries at each point.
LEMMA OpShape ==
    ASSUME NEW o \in Op
    PROVE  /\ o.pc \in {"held", "put", "insert"} =>
                o \in [pc : {"held", "put", "insert"}, id : Jobs, job : Job]
           /\ o.pc = "delete" => o \in [pc : {"delete"}, id : Jobs, job : {NoJob}]
           /\ o.pc \in {"lock", "send"} =>
                o \in [pc : {"lock", "send"}, id : Jobs \cup {None}, job : {NoJob}]
<1>1. CASE o = Idle
  BY <1>1 DEF Idle
<1>2. CASE o # Idle
  <2>1. \/ o \in [pc : {"held", "put", "insert"}, id : Jobs, job : Job]
        \/ o \in [pc : {"delete"}, id : Jobs, job : {NoJob}]
        \/ o \in [pc : {"lock", "send"}, id : Jobs \cup {None}, job : {NoJob}]
    BY <1>2 DEF Op
  <2>2. CASE o \in [pc : {"held", "put", "insert"}, id : Jobs, job : Job]
    BY <2>2
  <2>3. CASE o \in [pc : {"delete"}, id : Jobs, job : {NoJob}]
    BY <2>3
  <2>4. CASE o \in [pc : {"lock", "send"}, id : Jobs \cup {None}, job : {NoJob}]
    BY <2>4
  <2> QED BY <2>1, <2>2, <2>3, <2>4
<1> QED BY <1>1, <1>2

LEMMA CallerType ==
    ASSUME TypeOK, NEW c \in Callers, CallerStep(c)
    PROVE  TypeOK'
<1> now \in Nat
  BY CronAssumption DEF TypeOK
<1>1. ASSUME NEW j \in Jobs, GetJob(c, j)
      PROVE  TypeOK'
  <2>1. [pc |-> "held", id |-> j, job |-> jobs[j]] \in Op
    BY <1>1 DEF GetJob, TypeOK, MaybeJob, Op
  <2> QED BY <1>1, <2>1, OpType DEF GetJob, TypeOK, txVars, loopVars, histVars
<1>2. ASSUME NEW j \in Jobs, RemoveDelete(c, j)
      PROVE  TypeOK'
  <2>1. [pc |-> "delete", id |-> j, job |-> NoJob] \in Op
    BY DEF Op
  <2>2. store' \in [Jobs -> MaybeJob]
    BY <1>2 DEF RemoveDelete, TypeOK, MaybeJob
  <2>3. contended' \in SUBSET Jobs
    BY <1>2, ContendedType DEF RemoveDelete
  <2> QED BY <1>2, <2>1, <2>2, <2>3, OpType DEF RemoveDelete, TypeOK, txVars, loopVars
<1>3. ASSUME NEW j \in Jobs, TriggerNow(c, j)
      PROVE  TypeOK'
  <2>1. [pc |-> "lock", id |-> j, job |-> NoJob] \in Op
    BY DEF Op
  <2> QED BY <1>3, <2>1, OpType DEF TriggerNow, TypeOK, txVars, loopVars, histVars
<1>4. ASSUME NEW j \in Jobs, NEW s \in Schedules, AddPut(c, j, s)
      PROVE  TypeOK'
  <2> DEFINE job == Rearm(NewJob(s), now)
  <2>1. job \in Job
    BY NewJobType, RearmType
  <2> HIDE DEF job
  <2>2. [pc |-> "insert", id |-> j, job |-> job] \in Op
    BY <2>1 DEF Op
  <2>3. /\ store' = [store EXCEPT ![j] = job] /\ removed' = removed \ {j}
        /\ op' = [op EXCEPT ![c] = [pc |-> "insert", id |-> j, job |-> job]]
        /\ StartWriting(j)
        /\ UNCHANGED <<now, jobs, txVars, loopVars, crashes, starts>>
    BY <1>4 DEF AddPut, job
  <2>4. store' \in [Jobs -> MaybeJob] /\ contended' \in SUBSET Jobs
    BY <2>1, <2>3, ContendedType DEF TypeOK, MaybeJob
  <2> QED BY <2>2, <2>3, <2>4, OpType DEF TypeOK, txVars, loopVars
<1>5. ASSUME NEW s \in Schedules, NEW e \in BOOLEAN, UpdateCheck(c, s, e)
      PROVE  TypeOK'
  <2> DEFINE j   == op[c].id
             job == Rearm([op[c].job EXCEPT !.sched = s, !.enabled = e], now)
  <2>1. j \in Jobs /\ op[c].job \in Job
    BY <1>5, OpShape DEF UpdateCheck, TypeOK
  <2>2. job \in Job
    BY <2>1, EditType, RearmType
  <2> HIDE DEF job
  <2>3. \/ op' = [op EXCEPT ![c] = [pc |-> "put", id |-> j, job |-> job]] /\ StartWriting(j)
        \/ op' = [op EXCEPT ![c] = Idle] /\ UNCHANGED contended
    BY <1>5 DEF UpdateCheck, job
  <2>4. [pc |-> "put", id |-> j, job |-> job] \in Op /\ Idle \in Op
    BY <2>1, <2>2 DEF Op
  <2>5. op' \in [Callers -> Op] /\ contended' \in SUBSET Jobs
    BY <2>1, <2>3, <2>4, OpType, ContendedType DEF TypeOK
  <2> QED BY <1>5, <2>5 DEF UpdateCheck, TypeOK, txVars, loopVars
<1>6. CASE UpdatePut(c)
  <2>0. op[c] \in [pc : {"held", "put", "insert"}, id : Jobs, job : Job]
    BY <1>6, OpShape DEF UpdatePut, TypeOK
  <2>1. op[c].id \in Jobs /\ op[c].job \in Job
        /\ [op[c] EXCEPT !.pc = "insert"] \in Op
    BY <2>0 DEF Op
  <2>2. op' = [op EXCEPT ![c] = [op[c] EXCEPT !.pc = "insert"]]
    BY <1>6 DEF UpdatePut
  <2>3. store' \in [Jobs -> MaybeJob]
    BY <1>6, <2>1 DEF UpdatePut, TypeOK, MaybeJob
  <2>4. op' \in [Callers -> Op]
    BY <2>1, <2>2, OpType
  <2> QED BY <1>6, <2>3, <2>4 DEF UpdatePut, TypeOK, txVars, loopVars, histVars
<1>7. CASE Insert(c)
  <2>0. op[c].pc = "insert" /\ op[c] \in Op
    BY <1>7 DEF Insert, TypeOK
  <2>1. op[c].id \in Jobs /\ op[c].job \in Job /\ Idle \in Op
    <3>1. op[c] \in [pc : {"held", "put", "insert"}, id : Jobs, job : Job]
      BY <2>0, OpShape
    <3> QED BY <3>1 DEF Op
  <2>2. jobs' \in [Jobs -> MaybeJob] /\ starts' \in [Jobs -> Nat]
    BY <1>7, <2>1 DEF Insert, TypeOK, MaybeJob
  <2>3. op' \in [Callers -> Op]
    BY <1>7, <2>1, OpType DEF Insert
  <2> QED BY <1>7, <2>2, <2>3 DEF Insert, TypeOK, txVars, loopVars
<1>8. CASE RemoveMem(c)
  <2>0. op[c].pc = "delete" /\ op[c] \in Op
    BY <1>8 DEF RemoveMem, TypeOK
  <2>1. op[c].id \in Jobs /\ Idle \in Op
    <3>1. op[c] \in [pc : {"delete"}, id : Jobs, job : {NoJob}]
      BY <2>0, OpShape
    <3> QED BY <3>1 DEF Op
  <2>2. jobs' \in [Jobs -> MaybeJob] /\ removed' \in SUBSET Jobs
    BY <1>8, <2>1 DEF RemoveMem, TypeOK, MaybeJob
  <2>3. op' \in [Callers -> Op]
    BY <1>8, <2>1, OpType DEF RemoveMem
  <2> QED BY <1>8, <2>2, <2>3 DEF RemoveMem, TypeOK, txVars, loopVars
<1>9. CASE Shutdown(c)
  <2>1. [pc |-> "lock", id |-> None, job |-> NoJob] \in Op
    BY DEF Op
  <2> QED BY <1>9, <2>1, OpType DEF Shutdown, TypeOK, txVars, loopVars, histVars
<1>10. CASE LockTx(c)
  <2>0. op[c] \in [pc : {"lock", "send"}, id : Jobs \cup {None}, job : {NoJob}]
    BY <1>10, OpShape DEF LockTx, TypeOK
  <2>1. [op[c] EXCEPT !.pc = "send"] \in Op /\ Idle \in Op
    BY <2>0 DEF Op
  <2>2. \/ op' = [op EXCEPT ![c] = [op[c] EXCEPT !.pc = "send"]] /\ txLock' = c
        \/ op' = [op EXCEPT ![c] = Idle] /\ txLock' = txLock
    BY <1>10 DEF LockTx
  <2>3. op' \in [Callers -> Op] /\ txLock' \in Callers \cup {None}
    BY <2>1, <2>2, OpType DEF TypeOK
  <2> QED BY <1>10, <2>3 DEF LockTx, TypeOK, loopVars, histVars
<1>11. CASE Send(c)
  <2>0. Idle \in Op
    BY DEF Op
  <2>1. op[c].id \in Jobs \cup {None}
    BY <1>11, OpShape DEF Send, TypeOK
  <2>2. queue' \in Seq(Jobs \cup {None}) /\ Len(queue') <= QueueCap
    <3>1. /\ queue \in Seq(Jobs \cup {None}) /\ Len(queue) \in Nat /\ QueueCap \in Nat
          /\ Len(queue) <= QueueCap
      BY CronAssumption DEF TypeOK
    <3>2. \/ queue' = Append(queue, op[c].id) /\ Len(queue) < QueueCap
          \/ queue' = queue
      BY <1>11 DEF Send
    <3> QED BY <2>1, <3>1, <3>2
  <2>3. op' \in [Callers -> Op]
    BY <1>11, <2>0, OpType DEF Send, SendFrame
  <2> QED BY <1>11, <2>2, <2>3 DEF Send, SendFrame, TypeOK, loopVars, histVars
<1> QED
  BY <1>1, <1>2, <1>3, <1>4, <1>5, <1>6, <1>7, <1>8, <1>9, <1>10, <1>11
     DEF CallerStep

LEMMA EnvironmentType ==
    ASSUME TypeOK, AdvanceClock \/ CrashRestart
    PROVE  TypeOK'
<1>1. CASE AdvanceClock
  BY <1>1, CronAssumption DEF AdvanceClock, TypeOK, txVars, loopVars, histVars
<1>2. CASE CrashRestart
  <2>0. Idle \in Op
    BY DEF Op
  <2>1. op' \in [Callers -> Op]
    BY <1>2, <2>0 DEF CrashRestart
  <2>2. queue' \in Seq(Jobs \cup {None}) /\ Len(queue') <= QueueCap
    BY <1>2, CronAssumption DEF CrashRestart
  <2>3. crashes' \in 0..MaxCrashes
    BY <1>2, CronAssumption DEF CrashRestart, TypeOK
  <2> QED BY <1>2, <2>1, <2>2, <2>3 DEF CrashRestart, TypeOK, histVars, MaybeJob
<1> QED BY <1>1, <1>2

\* Every variable keeps its type; in particular the command channel never
\* holds more than its capacity and a run under way has a job.
THEOREM TypeCorrect == Spec => []TypeOK
<1>1. Init => TypeOK
  <2> SUFFICES ASSUME Init PROVE TypeOK
    OBVIOUS
  <2>1. queue \in Seq(Jobs \cup {None}) /\ Len(queue) <= QueueCap
    BY CronAssumption DEF Init
  <2>2. Idle \in Op
    BY DEF Op
  <2>3. op \in [Callers -> Op]
    BY <2>2 DEF Init
  <2>4. now \in 0..MaxTime /\ crashes \in 0..MaxCrashes
    BY CronAssumption DEF Init
  <2>5. /\ jobs \in [Jobs -> MaybeJob] /\ store \in [Jobs -> MaybeJob]
        /\ starts \in [Jobs -> Nat]
    BY DEF Init, MaybeJob
  <2> QED BY <2>1, <2>3, <2>4, <2>5 DEF Init, TypeOK, MaybeJob
<1>2. TypeOK /\ [Next]_vars => TypeOK'
  <2> SUFFICES ASSUME TypeOK, [Next]_vars PROVE TypeOK'
    OBVIOUS
  <2>1. CASE UNCHANGED vars
    BY <2>1 DEF vars, TypeOK, txVars, loopVars, histVars
  <2> QED BY <2>1, LoopType, CallerType, EnvironmentType DEF Next
<1> QED BY <1>1, <1>2, PTL DEF Spec

-----------------------------------------------------------------------------
(* One-shots: armed exactly until they have run. The invariant speaks of   *)
(* each copy of a job apart, as the actions write one copy at a time.      *)

ArmedInv ==
    /\ \A j \in Jobs : OneShotArmed(jobs[j]) /\ OneShotArmed(store[j])
    /\ lpc = "persist" => OneShotArmed(image)
    /\ \A c \in Callers : op[c].pc \in {"put", "insert"} => OneShotArmed(op[c].job)

\* A job whose next run has just been recomputed is armed iff unfired.
LEMMA RearmArms ==
    ASSUME NEW job \in Job, NEW t \in Nat
    PROVE  OneShotArmed(Rearm(job, t))
<1>1. job.sched.arg \in Nat
  BY CronAssumption DEF Job
<1>2. /\ Rearm(job, t).sched = job.sched /\ Rearm(job, t).last = job.last
      /\ Rearm(job, t).next = ComputeNextRun(job, t)
  BY DEF Rearm, Job
<1>3. CASE job.sched.type = "at"
  <2>1. ComputeNextRun(job, t) = AtNext(job, t)
    BY <1>3 DEF ComputeNextRun
  <2>2. AtNext(job, t) = None <=> job.last # None
    BY <1>1, CronAssumption DEF AtNext
  <2> QED BY <1>2, <2>1, <2>2 DEF OneShotArmed
<1>4. CASE job.sched.type # "at"
  BY <1>2, <1>4 DEF OneShotArmed
<1> QED BY <1>3, <1>4

LEMMA AfterRunArms ==
    ASSUME NEW job \in Job, NEW t \in Nat, NEW ok \in BOOLEAN
    PROVE  OneShotArmed(AfterRun(job, t, ok))
<1> DEFINE st  == IF ok THEN "success" ELSE "failed"
           run == [job EXCEPT !.last = t, !.status = st]
           ran == Rearm(run, t)
<1>1. run \in Job
  BY DEF Job, Stamp
<1>2. ran \in Job /\ OneShotArmed(ran)
  BY <1>1, RearmType, RearmArms
<1> HIDE DEF run
<1> DEFINE off == [ran EXCEPT !.enabled = @ /\ ~(ran.sched.type = "at" /\ ran.next = None)]
<1> HIDE DEF ran
<1>3. off.sched = ran.sched /\ off.next = ran.next /\ off.last = ran.last /\ ran # NoJob
  BY <1>2, NoJobAssumption DEF Job
<1>4. OneShotArmed(off)
  BY <1>2, <1>3 DEF OneShotArmed
<1> QED BY <1>4 DEF AfterRun, off, ran, run

LEMMA NoJobArmed == OneShotArmed(NoJob)
BY DEF OneShotArmed

LEMMA ArmedStep ==
    ASSUME TypeOK, ArmedInv, Next
    PROVE  ArmedInv'
<1> now \in Nat /\ runAt \in Nat
  BY CronAssumption DEF TypeOK
<1>1. CASE LoopStep
  <2>1. ASSUME NEW ok \in BOOLEAN, Commit(ok), jobs[cur] # NoJob
        PROVE  ArmedInv'
    <3>1. cur \in Jobs /\ jobs[cur] \in Job
      BY <2>1 DEF Commit, TypeOK, MaybeJob
    <3>2. OneShotArmed(AfterRun(jobs[cur], runAt, ok))
      BY <3>1, AfterRunArms
    <3> QED BY <2>1, <3>1, <3>2 DEF Commit, ArmedInv, TypeOK
  <2>2. CASE Persist
    <3>1. store' = [store EXCEPT ![cur] = image] /\ lpc' # "persist"
          /\ OneShotArmed(image) /\ UNCHANGED <<jobs, op>>
      BY <2>2 DEF Persist, Return, ArmedInv
    <3> QED BY <3>1 DEF ArmedInv, TypeOK
  <2>3. CASE \/ Start \/ Tick \/ RecvTrigger \/ RecvShutdown
             \/ \E j \in Jobs : TriggerDue(j)
             \/ \E ok \in BOOLEAN : Commit(ok) /\ jobs[cur] = NoJob
    <3>1. UNCHANGED <<jobs, store, op>> /\ lpc' # "persist"
      BY <2>3 DEF Start, Tick, RecvTrigger, RecvShutdown, TriggerDue, Commit,
                  BeginRun, Return
    <3> QED BY <3>1 DEF ArmedInv
  <2> QED BY <1>1, <2>1, <2>2, <2>3 DEF LoopStep
<1>2. ASSUME NEW c \in Callers, CallerStep(c)
      PROVE  ArmedInv'
  <2> UNCHANGED <<lpc, image>>
    BY <1>2 DEF CallerStep, GetJob, RemoveDelete, TriggerNow, AddPut, UpdateCheck,
       UpdatePut, Insert, RemoveMem, Shutdown, LockTx, Send, SendFrame, loopVars
  <2>1. ASSUME NEW j \in Jobs, NEW s \in Schedules, AddPut(c, j, s)
        PROVE  ArmedInv'
    <3> DEFINE job == Rearm(NewJob(s), now)
    <3>1. OneShotArmed(job)
      BY NewJobType, RearmArms
    <3>2. /\ store' = [store EXCEPT ![j] = job] /\ jobs' = jobs
          /\ op' = [op EXCEPT ![c] = [pc |-> "insert", id |-> j, job |-> job]]
      BY <2>1 DEF AddPut
    <3> HIDE DEF job
    <3> QED BY <3>1, <3>2 DEF ArmedInv, TypeOK
  <2>2. ASSUME NEW s \in Schedules, NEW e \in BOOLEAN, UpdateCheck(c, s, e)
        PROVE  ArmedInv'
    <3> DEFINE j   == op[c].id
               job == Rearm([op[c].job EXCEPT !.sched = s, !.enabled = e], now)
    <3>1. op[c].job \in Job
      BY <2>2, OpShape DEF UpdateCheck, TypeOK
    <3>2. OneShotArmed(job)
      BY <3>1, EditType, RearmArms
    <3>3. /\ \/ op' = [op EXCEPT ![c] = [pc |-> "put", id |-> j, job |-> job]]
             \/ op' = [op EXCEPT ![c] = Idle]
          /\ UNCHANGED <<jobs, store>>
      BY <2>2 DEF UpdateCheck
    <3> HIDE DEF job
    <3> QED BY <3>2, <3>3 DEF ArmedInv, TypeOK, Idle
  <2>3. CASE UpdatePut(c)
    <3>1. op[c].id \in Jobs /\ OneShotArmed(op[c].job)
          /\ store' = [store EXCEPT ![op[c].id] = op[c].job] /\ jobs' = jobs
          /\ op' = [op EXCEPT ![c] = [op[c] EXCEPT !.pc = "insert"]]
      BY <2>3, OpShape DEF UpdatePut, ArmedInv, TypeOK
    <3>2. [op[c] EXCEPT !.pc = "insert"].job = op[c].job
      BY <2>3, OpShape DEF UpdatePut, TypeOK
    <3> QED BY <3>1, <3>2 DEF ArmedInv, TypeOK
  <2>4. CASE Insert(c)
    <3>1. op[c].id \in Jobs /\ OneShotArmed(op[c].job)
      BY <2>4, OpShape DEF Insert, ArmedInv, TypeOK
    <3> QED BY <2>4, <3>1 DEF Insert, ArmedInv, TypeOK, Idle
  <2>5. ASSUME NEW j \in Jobs, RemoveDelete(c, j)
        PROVE  ArmedInv'
    BY <2>5, NoJobArmed DEF RemoveDelete, ArmedInv, TypeOK
  <2>6. CASE RemoveMem(c)
    BY <2>6, NoJobArmed DEF RemoveMem, ArmedInv, TypeOK, Idle
  <2>7. CASE \/ \E j \in Jobs : GetJob(c, j) \/ TriggerNow(c, j)
             \/ Shutdown(c) \/ LockTx(c) \/ Send(c)
    <3>1. UNCHANGED <<jobs, store>>
      BY <2>7 DEF GetJob, TriggerNow, Shutdown, LockTx, Send, SendFrame
    <3>2. \E new : op' = [op EXCEPT ![c] = new] /\ new.pc \notin {"put", "insert"}
      <4>1. CASE LockTx(c)
        <5>1. [op[c] EXCEPT !.pc = "send"].pc = "send"
          BY <4>1, OpShape DEF LockTx, TypeOK
        <5> QED BY <4>1, <5>1 DEF LockTx, Idle
      <4>2. CASE ~LockTx(c)
        BY <2>7, <4>2 DEF GetJob, TriggerNow, Shutdown, Send, SendFrame, Idle
      <4> QED BY <4>1, <4>2
    <3> QED BY <3>1, <3>2 DEF ArmedInv, TypeOK
  <2> QED BY <1>2, <2>1, <2>2, <2>3, <2>4, <2>5, <2>6, <2>7 DEF CallerStep
<1>3. CASE AdvanceClock
  BY <1>3 DEF AdvanceClock, ArmedInv, loopVars
<1>4. CASE CrashRestart
  BY <1>4 DEF CrashRestart, ArmedInv, Idle
<1> QED BY <1>1, <1>2, <1>3, <1>4 DEF Next

\* A one-shot is armed until it has run and never afterwards, whichever copy
\* of it add_job, update_job, trigger_job or a restart put into force.
THEOREM OneShotArmedTheorem == Spec => []OneShotArmedUntilFired
<1>1. Init => ArmedInv
  BY NoJobArmed DEF Init, ArmedInv, Idle
<1>2. TypeOK /\ ArmedInv /\ [Next]_vars => ArmedInv'
  <2>1. TypeOK /\ ArmedInv /\ UNCHANGED vars => ArmedInv'
    BY DEF vars, loopVars, ArmedInv
  <2> QED BY <2>1, ArmedStep
<1>3. TypeOK /\ ArmedInv => OneShotArmedUntilFired
  <2> SUFFICES ASSUME TypeOK, ArmedInv, NEW j \in Jobs, NEW job \in LiveImages(j)
               PROVE  OneShotArmed(job)
    BY DEF OneShotArmedUntilFired
  <2>1. CASE job \in {jobs[j], store[j]}
    BY <2>1 DEF ArmedInv
  <2>2. CASE LoopWriting(j) /\ job = image
    BY <2>2 DEF ArmedInv, LoopWriting
  <2>3. ASSUME NEW c \in Callers, CallerWriting(c, j), job = op[c].job
        PROVE  OneShotArmed(job)
    BY <2>3, OpShape, NoJobArmed DEF ArmedInv, CallerWriting, TypeOK
  <2> QED BY <2>1, <2>2, <2>3 DEF LiveImages
<1> QED BY <1>1, <1>2, <1>3, TypeCorrect, PTL DEF Spec

-----------------------------------------------------------------------------
(* Memory and store. A job that was never contended has at most one writer *)
(* in flight, and what that writer has already done is known from where it *)
(* is; without a writer the two images agree.                              *)

JobMatch(j) ==
    /\ ~Writing(j) => jobs[j] = store[j]
    /\ LoopWriting(j) => image = jobs[j]
    /\ \A c \in Callers : CallerWriting(c, j) =>
          /\ ~LoopWriting(j)
          /\ \A d \in Callers : CallerWriting(d, j) => d = c
          /\ op[c].pc = "put" => jobs[j] = store[j]
          /\ op[c].pc = "insert" => store[j] = op[c].job
          /\ op[c].pc = "delete" => store[j] = NoJob

MatchInv == \A j \in Jobs \ contended : JobMatch(j)

\* A step that leaves the writers of a job and its images alone.
LEMMA MatchFrame ==
    ASSUME NEW j, JobMatch(j), jobs'[j] = jobs[j], store'[j] = store[j],
           LoopWriting(j)' <=> LoopWriting(j), LoopWriting(j) => image' = image,
           \A c \in Callers : \/ op'[c] = op[c]
                              \/ ~CallerWriting(c, j) /\ ~CallerWriting(c, j)'
    PROVE  JobMatch(j)'
<1>1. \A c \in Callers : CallerWriting(c, j)' <=> CallerWriting(c, j)
  BY DEF CallerWriting
<1>2. \A c \in Callers : CallerWriting(c, j) => op'[c] = op[c]
  OBVIOUS
<1>3. Writing(j)' <=> Writing(j)
  BY <1>1 DEF Writing
<1> QED BY <1>1, <1>2, <1>3 DEF JobMatch

\* A caller that starts to write an uncontended job is its only writer.
LEMMA MatchStart ==
    ASSUME NEW j \in Jobs, NEW c \in Callers, NEW new, j \notin contended', TypeOK,
           StartWriting(j), op' = [op EXCEPT ![c] = new], new.id = j,
           UNCHANGED <<lpc, cur, image, jobs>>, jobs[j] = store[j] \/ Writing(j),
           \/ new.pc = "put" /\ store' = store
           \/ new.pc = "insert" /\ store'[j] = new.job
           \/ new.pc = "delete" /\ store'[j] = NoJob
    PROVE  JobMatch(j)'
<1>1. ~Writing(j)
  BY DEF StartWriting
<1>2. op'[c] = new /\ \A d \in Callers \ {c} : op'[d] = op[d]
  BY DEF TypeOK
<1>3. ~LoopWriting(j)' /\ \A d \in Callers \ {c} : ~CallerWriting(d, j)'
  BY <1>1, <1>2 DEF Writing, LoopWriting, CallerWriting
<1>4. CallerWriting(c, j)'
  BY <1>2 DEF CallerWriting
<1> QED BY <1>1, <1>2, <1>3, <1>4 DEF JobMatch, Writing

LEMMA MatchLoop ==
    ASSUME TypeOK, MatchInv, LoopStep
    PROVE  MatchInv'
<1> SUFFICES ASSUME NEW j \in Jobs, j \notin contended'
             PROVE  JobMatch(j)'
  BY DEF MatchInv
<1>1. ASSUME NEW ok \in BOOLEAN, Commit(ok), jobs[cur] # NoJob
      PROVE  JobMatch(j)'
  <2>1. /\ jobs' = [jobs EXCEPT ![cur] = AfterRun(@, runAt, ok)]
        /\ image' = AfterRun(jobs[cur], runAt, ok) /\ cur \in Jobs
        /\ lpc = "execute" /\ lpc' = "persist" /\ cur' = cur
        /\ StartWriting(cur) /\ UNCHANGED <<store, op>>
    BY <1>1 DEF Commit, TypeOK
  <2>2. j \notin contended /\ JobMatch(j)
    BY <2>1 DEF StartWriting, MatchInv
  <2>3. CASE j = cur
    <3>1. ~Writing(j)
      BY <2>1, <2>3 DEF StartWriting
    <3>2. \A c \in Callers : ~CallerWriting(c, j)'
      BY <2>1, <3>1 DEF Writing, CallerWriting
    <3>3. image' = jobs'[j] /\ LoopWriting(j)'
      BY <2>1, <2>3 DEF TypeOK, LoopWriting
    <3> QED BY <3>2, <3>3 DEF JobMatch, Writing
  <2>4. CASE j # cur
    <3>1. /\ jobs'[j] = jobs[j] /\ store'[j] = store[j]
          /\ ~LoopWriting(j) /\ ~LoopWriting(j)'
          /\ \A c \in Callers : op'[c] = op[c]
      BY <2>1, <2>4 DEF LoopWriting, TypeOK
    <3> QED BY <2>2, <3>1, MatchFrame DEF LoopWriting, CallerWriting, JobMatch, Writing
  <2> QED BY <2>3, <2>4
<1>2. CASE Persist
  <2>1. /\ store' = [store EXCEPT ![cur] = image] /\ lpc = "persist" /\ lpc' # "persist"
        /\ cur \in Jobs /\ UNCHANGED <<jobs, op, contended>>
    BY <1>2 DEF Persist, Return, TypeOK, histVars
  <2>2. JobMatch(j)
    BY <2>1 DEF MatchInv
  <2>3. CASE j = cur
    <3>1. LoopWriting(j) /\ image = jobs[j] /\ \A c \in Callers : ~CallerWriting(c, j)
      BY <2>1, <2>2, <2>3 DEF LoopWriting, JobMatch
    <3>2. store'[j] = jobs'[j] /\ ~LoopWriting(j)'
      BY <2>1, <2>3, <3>1 DEF TypeOK, LoopWriting
    <3>3. \A c \in Callers : ~CallerWriting(c, j)'
      BY <2>1, <3>1 DEF CallerWriting
    <3> QED BY <3>2, <3>3 DEF JobMatch
  <2>4. CASE j # cur
    <3>1. /\ jobs'[j] = jobs[j] /\ store'[j] = store[j]
          /\ ~LoopWriting(j) /\ ~LoopWriting(j)'
          /\ \A c \in Callers : op'[c] = op[c]
      BY <2>1, <2>4 DEF LoopWriting, TypeOK
    <3> QED BY <2>2, <3>1, MatchFrame DEF LoopWriting, CallerWriting, JobMatch, Writing
  <2> QED BY <2>3, <2>4
<1>3. CASE \/ Start \/ Tick \/ RecvTrigger \/ RecvShutdown
           \/ \E i \in Jobs : TriggerDue(i)
           \/ \E ok \in BOOLEAN : Commit(ok) /\ jobs[cur] = NoJob
  <2>1. UNCHANGED <<jobs, store, op, contended>> /\ lpc # "persist" /\ lpc' # "persist"
    <3>1. CASE Start
      BY <3>1 DEF Start, histVars, TypeOK
    <3> QED BY <1>3, <3>1 DEF Tick, RecvTrigger, RecvShutdown, TriggerDue, Commit,
                BeginRun, Return, histVars
  <2>2. /\ jobs'[j] = jobs[j] /\ store'[j] = store[j]
        /\ ~LoopWriting(j) /\ ~LoopWriting(j)'
        /\ \A c \in Callers : op'[c] = op[c]
    BY <2>1 DEF LoopWriting
  <2>3. JobMatch(j)
    BY <2>1 DEF MatchInv
  <2> QED BY <2>2, <2>3, MatchFrame DEF LoopWriting, CallerWriting, JobMatch, Writing
<1> QED BY <1>1, <1>2, <1>3 DEF LoopStep

LEMMA MatchCaller ==
    ASSUME TypeOK, MatchInv, NEW c \in Callers, CallerStep(c)
    PROVE  MatchInv'
<1> SUFFICES ASSUME NEW i \in Jobs, i \notin contended'
             PROVE  JobMatch(i)'
  BY DEF MatchInv
<1> USE DEF LoopWriting
<1>a. UNCHANGED <<lpc, cur, image>>
  BY DEF CallerStep, GetJob, RemoveDelete, TriggerNow, AddPut, UpdateCheck,
     UpdatePut, Insert, RemoveMem, Shutdown, LockTx, Send, SendFrame, loopVars
<1>b. i \notin contended /\ JobMatch(i)
  BY DEF CallerStep, GetJob, RemoveDelete, TriggerNow, AddPut, UpdateCheck, MatchInv,
     UpdatePut, Insert, RemoveMem, Shutdown, LockTx, Send, SendFrame, StartWriting,
     histVars
<1>c. jobs[i] = store[i] \/ Writing(i)
  BY <1>b DEF JobMatch
<1>d. \A new : op' = [op EXCEPT ![c] = new] =>
                 op'[c] = new /\ \A d \in Callers \ {c} : op'[d] = op[d]
  BY DEF TypeOK
<1>1. ASSUME NEW new, op' = [op EXCEPT ![c] = new], jobs'[i] = jobs[i],
             store'[i] = store[i], ~CallerWriting(c, i),
             new.id # i \/ new.pc \notin {"put", "insert", "delete"}
      PROVE  JobMatch(i)'
  <2>0. op'[c] = new /\ \A d \in Callers \ {c} : op'[d] = op[d]
    BY <1>d, <1>1
  <2>1. \A d \in Callers : \/ op'[d] = op[d]
                           \/ ~CallerWriting(d, i) /\ ~CallerWriting(d, i)'
    BY <2>0, <1>1 DEF CallerWriting
  <2> QED BY <1>a, <1>b, <1>1, <2>1, MatchFrame DEF CallerWriting, JobMatch, Writing
\* Steps that start writing a job.
<1>2. ASSUME NEW j \in Jobs, NEW new, op' = [op EXCEPT ![c] = new], new.id = j,
             op[c].pc \in {"idle", "held"}, StartWriting(j), jobs' = jobs,
             \/ new.pc = "put" /\ store' = store
             \/ new.pc = "insert" /\ store' = [store EXCEPT ![j] = new.job]
             \/ new.pc = "delete" /\ store' = [store EXCEPT ![j] = NoJob]
      PROVE  JobMatch(i)'
  <2>1. CASE i = j
    <3>1. \/ new.pc = "put" /\ store' = store
          \/ new.pc = "insert" /\ store'[j] = new.job
          \/ new.pc = "delete" /\ store'[j] = NoJob
      BY <1>2 DEF TypeOK
    <3> QED BY <1>a, <1>b, <1>c, <1>2, <2>1, <3>1, MatchStart
            DEF CallerWriting, JobMatch, Writing, StartWriting
  <2>2. CASE i # j
    <3>1. store'[i] = store[i] /\ ~CallerWriting(c, i)
      BY <1>2, <2>2 DEF CallerWriting, TypeOK
    <3> QED BY <1>1, <1>2, <2>2, <3>1
  <2> QED BY <2>1, <2>2
<1>3. ASSUME NEW j \in Jobs, GetJob(c, j) \/ TriggerNow(c, j)
      PROVE  JobMatch(i)'
  <2>1. \E new : op' = [op EXCEPT ![c] = new] /\ new.pc \in {"held", "lock"}
    <3> DEFINE held == [pc |-> "held", id |-> j, job |-> jobs[j]]
               lock == [pc |-> "lock", id |-> j, job |-> NoJob]
    <3>1. held.pc = "held" /\ lock.pc = "lock"
      OBVIOUS
    <3>2. op' = [op EXCEPT ![c] = held] \/ op' = [op EXCEPT ![c] = lock]
      BY <1>3 DEF GetJob, TriggerNow
    <3> HIDE DEF held, lock
    <3> QED BY <3>1, <3>2
  <2>2. ~CallerWriting(c, i) /\ UNCHANGED <<jobs, store>>
    BY <1>3 DEF GetJob, TriggerNow, CallerWriting
  <2> QED BY <1>1, <2>1, <2>2
<1>4. ASSUME NEW j \in Jobs, RemoveDelete(c, j)
      PROVE  JobMatch(i)'
  <2> DEFINE new == [pc |-> "delete", id |-> j, job |-> NoJob]
  <2>1. new.id = j /\ new.pc = "delete"
    OBVIOUS
  <2>2. /\ op' = [op EXCEPT ![c] = new] /\ op[c].pc = "idle" /\ StartWriting(j)
        /\ jobs' = jobs /\ store' = [store EXCEPT ![j] = NoJob]
    BY <1>4 DEF RemoveDelete
  <2> HIDE DEF new
  <2> QED BY <1>2, <2>1, <2>2
<1>5. ASSUME NEW j \in Jobs, NEW s \in Schedules, AddPut(c, j, s)
      PROVE  JobMatch(i)'
  <2> DEFINE job == Rearm(NewJob(s), now)
             new == [pc |-> "insert", id |-> j, job |-> job]
  <2>1. new.id = j /\ new.pc = "insert" /\ new.job = job
    OBVIOUS
  <2>2. /\ op' = [op EXCEPT ![c] = new] /\ op[c].pc = "idle" /\ StartWriting(j)
        /\ jobs' = jobs /\ store' = [store EXCEPT ![j] = job]
    BY <1>5 DEF AddPut
  <2> HIDE DEF new, job
  <2> QED BY <1>2, <2>1, <2>2
<1>6. ASSUME NEW s \in Schedules, NEW e \in BOOLEAN, UpdateCheck(c, s, e)
      PROVE  JobMatch(i)'
  <2> DEFINE j   == op[c].id
             job == Rearm([op[c].job EXCEPT !.sched = s, !.enabled = e], now)
             new == [pc |-> "put", id |-> j, job |-> job]
  <2>1. new.id = j /\ new.pc = "put"
    OBVIOUS
  <2>2. j \in Jobs
    BY <1>6, OpShape DEF UpdateCheck, TypeOK
  <2>3. /\ \/ op' = [op EXCEPT ![c] = new] /\ StartWriting(j)
           \/ op' = [op EXCEPT ![c] = Idle]
        /\ jobs' = jobs /\ store' = store /\ op[c].pc = "held"
    BY <1>6 DEF UpdateCheck
  <2>4. Idle.pc = "idle"
    BY DEF Idle
  <2>5. ~CallerWriting(c, i)
    BY <2>3 DEF CallerWriting
  <2> HIDE DEF new, j
  <2>6. CASE op' = [op EXCEPT ![c] = new] /\ StartWriting(j)
    BY <1>2, <2>1, <2>2, <2>3, <2>6
  <2>7. CASE op' = [op EXCEPT ![c] = Idle]
    BY <1>1, <2>3, <2>4, <2>5, <2>7
  <2> QED BY <2>3, <2>6, <2>7
<1>7. CASE Shutdown(c) \/ LockTx(c) \/ Send(c)
  <2>1. UNCHANGED <<jobs, store>> /\ ~CallerWriting(c, i)
    BY <1>7 DEF Shutdown, LockTx, Send, SendFrame, CallerWriting
  <2>2. PICK new : op' = [op EXCEPT ![c] = new] /\ new.pc \in {"idle", "lock", "send"}
    <3>1. CASE LockTx(c)
      <4>1. [op[c] EXCEPT !.pc = "send"].pc = "send" /\ Idle.pc = "idle"
        BY <3>1, OpShape DEF LockTx, TypeOK, Idle
      <4> QED BY <3>1, <4>1 DEF LockTx
    <3>2. CASE ~LockTx(c)
      BY <1>7, <3>2 DEF Shutdown, Send, SendFrame, Idle
    <3> QED BY <3>1, <3>2
  <2> QED BY <1>1, <2>1, <2>2
\* Steps that carry a write on, or end it.
<1>8. CASE UpdatePut(c)
  <2> DEFINE j   == op[c].id
             new == [op[c] EXCEPT !.pc = "insert"]
  <2>1. j \in Jobs /\ new.id = j /\ new.pc = "insert" /\ new.job = op[c].job
    BY <1>8, OpShape DEF UpdatePut, TypeOK
  <2>2. /\ op' = [op EXCEPT ![c] = new] /\ op[c].pc = "put"
        /\ jobs' = jobs /\ store' = [store EXCEPT ![j] = op[c].job]
    BY <1>8 DEF UpdatePut
  <2> HIDE DEF new
  <2>3. CASE i = j
    <3>1. CallerWriting(c, i) /\ ~LoopWriting(i)
          /\ \A d \in Callers \ {c} : ~CallerWriting(d, i)
      BY <1>b, <2>2, <2>3 DEF CallerWriting, JobMatch
    <3>2. op'[c] = new /\ \A d \in Callers \ {c} : ~CallerWriting(d, i)'
      BY <1>d, <2>2, <3>1 DEF CallerWriting
    <3>3. store'[i] = op[c].job
      BY <2>2, <2>3, <2>1 DEF TypeOK
    <3> QED BY <1>a, <2>1, <2>3, <3>1, <3>2, <3>3 DEF JobMatch, CallerWriting, Writing
  <2>4. CASE i # j
    <3>1. store'[i] = store[i] /\ ~CallerWriting(c, i)
      BY <2>2, <2>4 DEF TypeOK, CallerWriting
    <3> QED BY <1>1, <2>1, <2>2, <2>4, <3>1
  <2> QED BY <2>3, <2>4
<1>9. CASE Insert(c) \/ RemoveMem(c)
  <2> DEFINE j == op[c].id
  <2>1. /\ j \in Jobs /\ op' = [op EXCEPT ![c] = Idle] /\ store' = store
        /\ \/ op[c].pc = "insert" /\ jobs' = [jobs EXCEPT ![j] = op[c].job]
           \/ op[c].pc = "delete" /\ jobs' = [jobs EXCEPT ![j] = NoJob]
    BY <1>9, OpShape DEF Insert, RemoveMem, TypeOK
  <2>2. Idle.pc = "idle"
    BY DEF Idle
  <2>3. CASE i = j
    <3>1. CallerWriting(c, i) /\ ~LoopWriting(i)
          /\ \A d \in Callers \ {c} : ~CallerWriting(d, i)
      BY <1>b, <2>1, <2>3 DEF CallerWriting, JobMatch
    <3>0. op'[c] = Idle /\ \A d \in Callers \ {c} : op'[d] = op[d]
      BY <1>d, <2>1
    <3>4. \A d \in Callers : ~CallerWriting(d, i)'
      BY <2>2, <3>0, <3>1 DEF CallerWriting
    <3>2. ~LoopWriting(i)' /\ \A d \in Callers : ~CallerWriting(d, i)'
      BY <1>a, <3>1, <3>4
    <3>3. jobs'[i] = store'[i]
      <4>1. jobs'[i] = IF op[c].pc = "insert" THEN op[c].job ELSE NoJob
        BY <2>1, <2>3 DEF TypeOK
      <4> QED BY <1>b, <2>1, <3>1, <4>1 DEF JobMatch
    <3> QED BY <3>2, <3>3 DEF JobMatch, CallerWriting
  <2>4. CASE i # j
    <3>1. jobs'[i] = jobs[i] /\ ~CallerWriting(c, i)
      BY <2>1, <2>4 DEF TypeOK, CallerWriting
    <3> QED BY <1>1, <2>1, <2>2, <3>1
  <2> QED BY <2>3, <2>4
<1> QED BY <1>3, <1>4, <1>5, <1>6, <1>7, <1>8, <1>9 DEF CallerStep

\* MatchInv holds throughout.
LEMMA MatchInvariant == Spec => []MatchInv
<1>1. Init => MatchInv
  BY DEF Init, MatchInv, JobMatch, Idle, Writing, CallerWriting, LoopWriting
<1>2. TypeOK /\ MatchInv /\ [Next]_vars => MatchInv'
  <2> SUFFICES ASSUME TypeOK, MatchInv, [Next]_vars PROVE MatchInv'
    OBVIOUS
  <2>1. CASE CrashRestart
    <3>1. \A j \in Jobs : ~Writing(j)' /\ jobs'[j] = store'[j]
      BY <2>1 DEF CrashRestart, Writing, CallerWriting, LoopWriting, Idle
    <3> QED BY <3>1 DEF MatchInv, JobMatch, Writing
  <2>2. CASE UNCHANGED vars \/ AdvanceClock
    <3>1. UNCHANGED <<jobs, store, lpc, cur, image, op, contended>>
      BY <2>2 DEF vars, AdvanceClock, loopVars, histVars
    <3> QED BY <3>1 DEF MatchInv, JobMatch, Writing, CallerWriting, LoopWriting
  <2> QED BY <2>1, <2>2, MatchLoop, MatchCaller DEF Next
<1> QED BY <1>1, <1>2, TypeCorrect, PTL DEF Spec

\* Outside a write, memory and store hold the same record of every job that
\* two writers never wrote at once: add_job, update_job, remove_job and
\* trigger_job each leave the two equal, and a restart reloads the map.
THEOREM MemoryMatchesStoreTheorem == Spec => []MemoryMatchesStore
<1>1. MatchInv => MemoryMatchesStore
  BY DEF MatchInv, JobMatch, MemoryMatchesStore
<1> QED BY <1>1, MatchInvariant, PTL

-----------------------------------------------------------------------------
(* Removal. A removed job that was never contended is gone from memory and *)
(* nobody writes it; that the store holds it no longer follows from        *)
(* MatchInv.                                                               *)

RemovedInv == \A j \in removed \ contended : jobs[j] = NoJob /\ ~Writing(j)

\* Neither a step of the loop nor one of a caller brings a removed job back.
LEMMA RemovedLoop ==
    ASSUME TypeOK, RemovedInv, LoopStep
    PROVE  RemovedInv'
<1>1. /\ removed' = removed /\ op' = op /\ contended \subseteq contended'
      /\ \/ jobs' = jobs /\ lpc' # "persist"
         \/ /\ lpc = "execute" /\ jobs[cur] # NoJob /\ cur' = cur
            /\ \A j \in Jobs \ {cur} : jobs'[j] = jobs[j]
  <2>1. CASE \E ok \in BOOLEAN : Commit(ok)
    BY <2>1 DEF Commit, Return, StartWriting, TypeOK
  <2>2. CASE ~\E ok \in BOOLEAN : Commit(ok)
    <3>1. CASE Start \/ Tick \/ RecvShutdown \/ Persist
      BY <3>1 DEF Start, Tick, RecvShutdown, Persist, Return, histVars
    <3>2. CASE RecvTrigger \/ \E j \in Jobs : TriggerDue(j)
      BY <3>2 DEF RecvTrigger, TriggerDue, BeginRun, Return
    <3> QED BY <2>2, <3>1, <3>2 DEF LoopStep
  <2> QED BY <2>1, <2>2
<1> SUFFICES ASSUME NEW j \in Jobs, j \in removed, j \notin contended,
                    jobs[j] = NoJob, ~Writing(j)
             PROVE  jobs'[j] = NoJob /\ ~Writing(j)'
  BY <1>1 DEF RemovedInv, TypeOK
<1>2. jobs'[j] = NoJob /\ ~LoopWriting(j)'
  BY <1>1 DEF LoopWriting
<1>3. \A c \in Callers : ~CallerWriting(c, j)'
  BY <1>1 DEF Writing, CallerWriting
<1> QED BY <1>2, <1>3 DEF Writing

LEMMA RemovedCaller ==
    ASSUME TypeOK, MatchInv, RemovedInv, NEW c \in Callers, CallerStep(c)
    PROVE  RemovedInv'
<1>a. UNCHANGED <<lpc, cur>> /\ contended \subseteq contended'
  BY DEF CallerStep, GetJob, RemoveDelete, TriggerNow, AddPut, UpdateCheck,
     UpdatePut, Insert, RemoveMem, Shutdown, LockTx, Send, SendFrame, loopVars,
     StartWriting, histVars
<1>b. \A new : op' = [op EXCEPT ![c] = new] =>
                 op'[c] = new /\ \A d \in Callers \ {c} : op'[d] = op[d]
  BY DEF TypeOK
<1> SUFFICES ASSUME NEW j, j \in removed', j \notin contended'
             PROVE  jobs'[j] = NoJob /\ ~Writing(j)'
  BY DEF RemovedInv
<1>c. j \notin contended
  BY <1>a
\* The step that removes j: its caller is the only writer of j.
<1>1. CASE RemoveMem(c) /\ op[c].id = j
  <2>1. /\ j \in Jobs /\ op' = [op EXCEPT ![c] = Idle]
        /\ jobs' = [jobs EXCEPT ![j] = NoJob] /\ CallerWriting(c, j)
    BY <1>1, OpShape DEF RemoveMem, TypeOK, CallerWriting
  <2>2. ~LoopWriting(j) /\ \A d \in Callers \ {c} : ~CallerWriting(d, j)
    BY <1>c, <2>1 DEF MatchInv, JobMatch
  <2>3. \A d \in Callers : ~CallerWriting(d, j)'
    <3>1. op'[c] = Idle /\ \A d \in Callers \ {c} : op'[d] = op[d]
      BY <1>b, <2>1
    <3>2. Idle.pc = "idle"
      BY DEF Idle
    <3> QED BY <2>2, <3>1, <3>2 DEF CallerWriting
  <2>4. jobs'[j] = NoJob /\ ~LoopWriting(j)'
    BY <1>a, <2>1, <2>2 DEF TypeOK, LoopWriting
  <2> QED BY <2>3, <2>4 DEF Writing
\* A step after j has been removed.
<1>2. CASE ~(RemoveMem(c) /\ op[c].id = j)
  <2>1. j \in removed
    BY <1>2 DEF CallerStep, GetJob, RemoveDelete, TriggerNow, AddPut, UpdateCheck,
       UpdatePut, Insert, RemoveMem, Shutdown, LockTx, Send, SendFrame, histVars
  <2>2. j \in Jobs /\ jobs[j] = NoJob /\ ~Writing(j)
    BY <1>c, <2>1 DEF RemovedInv, TypeOK
  <2>3. store[j] = NoJob
    BY <1>c, <2>2 DEF MatchInv, JobMatch
  <2>4. ~LoopWriting(j)' /\ \A d \in Callers : ~CallerWriting(d, j)
    BY <1>a, <2>2 DEF Writing, LoopWriting
  <2>5. ASSUME NEW new, op' = [op EXCEPT ![c] = new], jobs'[j] = jobs[j],
               new.id # j \/ new.pc \notin {"put", "insert", "delete"}
        PROVE  jobs'[j] = NoJob /\ ~Writing(j)'
    <3>1. \A d \in Callers : ~CallerWriting(d, j)'
      BY <1>b, <2>4, <2>5 DEF CallerWriting
    <3> QED BY <2>2, <2>4, <2>5, <3>1 DEF Writing
  <2>6. ASSUME NEW i \in Jobs, GetJob(c, i) \/ TriggerNow(c, i)
        PROVE  jobs'[j] = NoJob /\ ~Writing(j)'
    <3> DEFINE held == [pc |-> "held", id |-> i, job |-> jobs[i]]
               lock == [pc |-> "lock", id |-> i, job |-> NoJob]
    <3>1. held.pc = "held" /\ lock.pc = "lock"
      OBVIOUS
    <3>2. op' = [op EXCEPT ![c] = held] \/ op' = [op EXCEPT ![c] = lock]
      BY <2>6 DEF GetJob, TriggerNow
    <3>3. jobs'[j] = jobs[j]
      BY <2>6 DEF GetJob, TriggerNow
    <3> HIDE DEF held, lock
    <3> QED BY <2>5, <3>1, <3>2, <3>3
  <2>7. ASSUME NEW i \in Jobs, RemoveDelete(c, i)
        PROVE  jobs'[j] = NoJob /\ ~Writing(j)'
    <3> DEFINE new == [pc |-> "delete", id |-> i, job |-> NoJob]
    <3>1. new.id = i /\ i # j
      BY <2>3, <2>7 DEF RemoveDelete
    <3>2. op' = [op EXCEPT ![c] = new] /\ jobs'[j] = jobs[j]
      BY <2>7 DEF RemoveDelete
    <3> HIDE DEF new
    <3> QED BY <2>5, <3>1, <3>2
  <2>8. ASSUME NEW i \in Jobs, NEW s \in Schedules, AddPut(c, i, s)
        PROVE  jobs'[j] = NoJob /\ ~Writing(j)'
    <3> DEFINE job == Rearm(NewJob(s), now)
               new == [pc |-> "insert", id |-> i, job |-> job]
    <3>1. new.id = i /\ i # j
      BY <2>8 DEF AddPut
    <3>2. op' = [op EXCEPT ![c] = new] /\ jobs'[j] = jobs[j]
      BY <2>8 DEF AddPut
    <3> HIDE DEF new, job
    <3> QED BY <2>5, <3>1, <3>2
  <2>9. ASSUME NEW s \in Schedules, NEW e \in BOOLEAN, UpdateCheck(c, s, e)
        PROVE  jobs'[j] = NoJob /\ ~Writing(j)'
    <3> DEFINE i   == op[c].id
               job == Rearm([op[c].job EXCEPT !.sched = s, !.enabled = e], now)
               new == [pc |-> "put", id |-> i, job |-> job]
    <3>1. new.id = i /\ Idle.pc = "idle"
      BY DEF Idle
    <3>2. /\ \/ op' = [op EXCEPT ![c] = new] /\ i # j
             \/ op' = [op EXCEPT ![c] = Idle]
          /\ jobs'[j] = jobs[j]
      BY <2>3, <2>9 DEF UpdateCheck
    <3> HIDE DEF new, job, i
    <3> QED BY <2>5, <3>1, <3>2
  <2>10. CASE UpdatePut(c)
    <3> DEFINE new == [op[c] EXCEPT !.pc = "insert"]
    <3>1. new.id = op[c].id /\ op[c].id # j
      BY <2>4, <2>10, OpShape DEF UpdatePut, TypeOK, CallerWriting
    <3>2. op' = [op EXCEPT ![c] = new] /\ jobs'[j] = jobs[j]
      BY <2>10 DEF UpdatePut
    <3> HIDE DEF new
    <3> QED BY <2>5, <3>1, <3>2
  <2>11. CASE Insert(c) \/ RemoveMem(c)
    <3>1. /\ op[c].id # j /\ op' = [op EXCEPT ![c] = Idle]
          /\ \/ jobs' = [jobs EXCEPT ![op[c].id] = op[c].job]
             \/ jobs' = [jobs EXCEPT ![op[c].id] = NoJob]
      BY <2>4, <2>11 DEF Insert, RemoveMem, CallerWriting
    <3>2. Idle.pc = "idle" /\ jobs'[j] = jobs[j]
      BY <2>2, <3>1 DEF Idle, TypeOK
    <3> QED BY <2>5, <3>1, <3>2
  <2>12. CASE Shutdown(c) \/ LockTx(c) \/ Send(c)
    <3>1. jobs'[j] = jobs[j]
      BY <2>12 DEF Shutdown, LockTx, Send, SendFrame
    <3>2. PICK new : op' = [op EXCEPT ![c] = new] /\ new.pc \in {"idle", "lock", "send"}
      <4>1. CASE LockTx(c)
        <5>1. [op[c] EXCEPT !.pc = "send"].pc = "send" /\ Idle.pc = "idle"
          BY <4>1, OpShape DEF LockTx, TypeOK, Idle
        <5> QED BY <4>1, <5>1 DEF LockTx
      <4>2. CASE ~LockTx(c)
        BY <2>12, <4>2 DEF Shutdown, Send, SendFrame, Idle
      <4> QED BY <4>1, <4>2
    <3> QED BY <2>5, <3>1, <3>2
  <2> QED BY <2>6, <2>7, <2>8, <2>9, <2>10, <2>11, <2>12 DEF CallerStep
<1> QED BY <1>1, <1>2

\* remove_job is final for a job that no two writers wrote at once: a run
\* that ends after it, a persist, an edited older copy and a restart leave
\* it out of memory and out of the table until add_job adds it again.
THEOREM UncontendedRemovalIsFinalTheorem == Spec => []UncontendedRemovalIsFinal
<1>1. Init => RemovedInv
  BY DEF Init, RemovedInv
<1>2. TypeOK /\ MatchInv /\ RemovedInv /\ [Next]_vars => RemovedInv'
  <2> SUFFICES ASSUME TypeOK, MatchInv, RemovedInv, [Next]_vars PROVE RemovedInv'
    OBVIOUS
  <2>1. CASE CrashRestart
    <3>1. /\ \A j \in Jobs : ~Writing(j)' /\ jobs'[j] = store[j]
          /\ removed' = removed /\ contended' = contended
      BY <2>1 DEF CrashRestart, Writing, CallerWriting, LoopWriting, Idle, histVars
    <3>2. \A j \in removed \ contended : j \in Jobs /\ store[j] = NoJob
      BY DEF RemovedInv, MatchInv, JobMatch, TypeOK
    <3> QED BY <3>1, <3>2 DEF RemovedInv
  <2>2. CASE UNCHANGED vars \/ AdvanceClock
    <3>1. UNCHANGED <<jobs, lpc, cur, op, removed, contended>>
      BY <2>2 DEF vars, AdvanceClock, loopVars, histVars
    <3> QED BY <3>1 DEF RemovedInv, Writing, CallerWriting, LoopWriting
  <2> QED BY <2>1, <2>2, RemovedLoop, RemovedCaller DEF Next
<1>3. TypeOK /\ MatchInv /\ RemovedInv => UncontendedRemovalIsFinal
  BY DEF TypeOK, MatchInv, JobMatch, RemovedInv, UncontendedRemovalIsFinal
<1> QED BY <1>1, <1>2, <1>3, MatchInvariant, TypeCorrect, PTL DEF Spec

-----------------------------------------------------------------------------
(* One-shots fire once. Once a one-shot has used up its runs it is neither *)
(* armed nor due, except while the last of them executes; a write resets   *)
(* the count and a restart, which may reload an older copy, allows one     *)
(* more.                                                                   *)

UsedUp(j) ==
    \/ jobs[j] = NoJob
    \/ /\ jobs[j].sched.type = "at"
       /\ j \notin due
       /\ jobs[j].next = None \/ (lpc = "execute" /\ cur = j)

OnceInv ==
    \A j \in Jobs : starts[j] <= 1 + crashes /\ (starts[j] > crashes => UsedUp(j))

\* A run leaves a one-shot without a next run and keeps its schedule.
LEMMA AfterRunSpent ==
    ASSUME NEW job \in Job, NEW t \in Nat, NEW ok \in BOOLEAN, job.sched.type = "at"
    PROVE  /\ AfterRun(job, t, ok).sched.type = "at"
           /\ AfterRun(job, t, ok).next = None
<1> DEFINE st  == IF ok THEN "success" ELSE "failed"
           run == [job EXCEPT !.last = t, !.status = st]
           ran == Rearm(run, t)
<1>1. run \in Job /\ run.sched = job.sched /\ run.last # None
  BY CronAssumption DEF Job, Stamp
<1> HIDE DEF run
<1>2. ran \in Job /\ ran.sched = job.sched /\ ran.next = ComputeNextRun(run, t)
  BY <1>1, RearmType DEF Rearm, Job
<1>3. ran.next = None
  BY <1>1, <1>2 DEF ComputeNextRun, AtNext
<1> DEFINE off == [ran EXCEPT !.enabled = @ /\ ~(ran.sched.type = "at" /\ ran.next = None)]
<1> HIDE DEF ran
<1>4. off.sched = ran.sched /\ off.next = ran.next
  BY <1>2 DEF Job
<1>5. off.sched.type = "at" /\ off.next = None
  BY <1>2, <1>3, <1>4
<1> QED BY <1>5 DEF AfterRun, off, ran, run

\* The steps of the loop, for one job.
LEMMA OnceLoop ==
    ASSUME TypeOK, OnceInv, LoopStep
    PROVE  OnceInv'
<1> SUFFICES ASSUME NEW j \in Jobs
             PROVE  (starts[j] <= 1 + crashes /\ (starts[j] > crashes => UsedUp(j)))'
  BY DEF OnceInv
<1>a. starts[j] <= 1 + crashes /\ (starts[j] > crashes => UsedUp(j))
  BY DEF OnceInv
<1>b. starts[j] \in Nat /\ crashes \in Nat
  BY CronAssumption DEF TypeOK
\* A run by the schedule, of a job that was due.
<1>1. ASSUME NEW i \in Jobs, TriggerDue(i)
      PROVE  (starts[j] <= 1 + crashes /\ (starts[j] > crashes => UsedUp(j)))'
  <2>1. /\ lpc = "tick" /\ i \in due /\ due' = due \ {i} /\ UNCHANGED <<jobs, crashes>>
        /\ \/ /\ jobs[i] # NoJob /\ lpc' = "execute" /\ cur' = i
              /\ starts' = IF jobs[i].sched.type = "at"
                           THEN [starts EXCEPT ![i] = @ + 1] ELSE starts
           \/ starts' = starts /\ jobs[i] = NoJob
    BY <1>1 DEF TriggerDue, BeginRun
  <2>2. CASE starts'[j] = starts[j]
    BY <1>a, <2>1, <2>2 DEF UsedUp
  <2>3. CASE starts'[j] # starts[j]
    <3>1. /\ i = j /\ jobs[j] # NoJob /\ jobs[j].sched.type = "at"
          /\ lpc' = "execute" /\ cur' = j /\ starts'[j] = starts[j] + 1
      BY <2>1, <2>3 DEF TypeOK
    <3>2. ~(starts[j] > crashes)
      BY <1>a, <2>1, <3>1 DEF UsedUp
    <3>3. starts'[j] <= 1 + crashes'
      BY <1>b, <2>1, <3>1, <3>2
    <3>4. UsedUp(j)'
      BY <2>1, <3>1 DEF UsedUp
    <3> QED BY <3>3, <3>4
  <2> QED BY <2>2, <2>3
<1>2. ASSUME NEW ok \in BOOLEAN, Commit(ok)
      PROVE  (starts[j] <= 1 + crashes /\ (starts[j] > crashes => UsedUp(j)))'
  <2>1. UNCHANGED <<starts, crashes, due>> /\ lpc = "execute"
    BY <1>2 DEF Commit
  <2>2. ASSUME UsedUp(j) PROVE UsedUp(j)'
    <3>1. CASE jobs[cur] # NoJob
      <4>1. /\ jobs' = [jobs EXCEPT ![cur] = AfterRun(jobs[cur], runAt, ok)]
            /\ cur \in Jobs /\ jobs[cur] \in Job /\ runAt \in Nat
        BY <1>2, <3>1 DEF Commit, TypeOK, MaybeJob
      <4>2. CASE j = cur
        <5>1. jobs[j].sched.type = "at" /\ j \notin due
          BY <2>2, <3>1, <4>2 DEF UsedUp
        <5>2. jobs'[j].sched.type = "at" /\ jobs'[j].next = None
          BY <4>1, <4>2, <5>1, AfterRunSpent DEF TypeOK
        <5> QED BY <2>1, <5>1, <5>2 DEF UsedUp
      <4>3. CASE j # cur
        <5>1. jobs'[j] = jobs[j]
          BY <4>1, <4>3 DEF TypeOK
        <5> QED BY <2>1, <2>2, <4>3, <5>1 DEF UsedUp
      <4> QED BY <4>2, <4>3
    <3>2. CASE jobs[cur] = NoJob
      <4>1. jobs' = jobs
        BY <1>2, <3>2 DEF Commit
      <4> QED BY <2>1, <2>2, <3>2, <4>1 DEF UsedUp
    <3> QED BY <3>1, <3>2
  <2> QED BY <1>a, <2>1, <2>2
<1>3. CASE Start \/ Tick \/ RecvTrigger \/ RecvShutdown \/ Persist
  <2>1. /\ UNCHANGED <<jobs, starts, crashes>> /\ lpc # "execute"
        /\ due' \subseteq due \cup DueJobs
    <3>1. CASE Start
      BY <3>1 DEF Start, TypeOK, histVars
    <3>2. CASE RecvTrigger
      BY <3>2 DEF RecvTrigger, BeginRun
    <3> QED BY <1>3, <3>1, <3>2 DEF Tick, RecvShutdown, Persist, histVars
  <2>2. ASSUME UsedUp(j) PROVE UsedUp(j)'
    <3>1. j \notin due' \/ jobs[j] = NoJob
      BY <2>1, <2>2 DEF UsedUp, DueJobs, IsDue
    <3> QED BY <2>1, <2>2, <3>1 DEF UsedUp
  <2> QED BY <1>a, <2>1, <2>2
<1> QED BY <1>1, <1>2, <1>3 DEF LoopStep

LEMMA OnceCaller ==
    ASSUME TypeOK, OnceInv, NEW c \in Callers, CallerStep(c)
    PROVE  OnceInv'
<1> SUFFICES ASSUME NEW j \in Jobs
             PROVE  (starts[j] <= 1 + crashes /\ (starts[j] > crashes => UsedUp(j)))'
  BY DEF OnceInv
<1>a. starts[j] <= 1 + crashes /\ (starts[j] > crashes => UsedUp(j))
  BY DEF OnceInv
<1>b. starts[j] \in Nat /\ crashes \in Nat
  BY CronAssumption DEF TypeOK
<1>c. UNCHANGED <<lpc, cur, due, crashes>>
  BY DEF CallerStep, GetJob, RemoveDelete, TriggerNow, AddPut, UpdateCheck,
     UpdatePut, Insert, RemoveMem, Shutdown, LockTx, Send, SendFrame, loopVars
<1>1. CASE Insert(c) /\ op[c].id = j
  <2>1. starts'[j] = 0
    BY <1>1 DEF Insert, TypeOK
  <2> QED BY <1>b, <1>c, <2>1
<1>2. CASE RemoveMem(c) \/ (Insert(c) /\ op[c].id # j)
  <2>1. starts'[j] = starts[j] /\ (jobs'[j] = jobs[j] \/ jobs'[j] = NoJob)
    BY <1>2 DEF Insert, RemoveMem, TypeOK
  <2> QED BY <1>a, <1>c, <2>1 DEF UsedUp
<1>3. CASE ~Insert(c) /\ ~RemoveMem(c)
  <2>1. UNCHANGED <<jobs, starts>>
    BY <1>3 DEF CallerStep, GetJob, RemoveDelete, TriggerNow, AddPut, UpdateCheck,
       UpdatePut, Shutdown, LockTx, Send, SendFrame, histVars
  <2> QED BY <1>a, <1>c, <2>1 DEF UsedUp
<1> QED BY <1>1, <1>2, <1>3

\* The schedule fires a one-shot at most once between two writes of it by a
\* caller, and at most once more for every crash, however manual triggers,
\* removals and edits interleave with tick and trigger_job.
THEOREM OneShotFiresOnceTheorem == Spec => []OneShotFiresOncePerLife
<1>1. Init => OnceInv
  BY DEF Init, OnceInv, UsedUp
<1>2. TypeOK /\ OnceInv /\ [Next]_vars => OnceInv'
  <2> SUFFICES ASSUME TypeOK, OnceInv, [Next]_vars PROVE OnceInv'
    OBVIOUS
  <2>1. CASE CrashRestart
    <3>1. crashes' = crashes + 1 /\ starts' = starts
      BY <2>1 DEF CrashRestart, histVars
    <3>2. \A j \in Jobs : starts[j] \in Nat /\ crashes \in Nat /\ starts[j] <= 1 + crashes
      BY CronAssumption DEF OnceInv, TypeOK
    <3> QED BY <3>1, <3>2 DEF OnceInv
  <2>2. CASE UNCHANGED vars \/ AdvanceClock
    <3>1. UNCHANGED <<jobs, lpc, cur, due, starts, crashes>>
      BY <2>2 DEF vars, AdvanceClock, loopVars, histVars
    <3> QED BY <3>1 DEF OnceInv, UsedUp
  <2> QED BY <2>1, <2>2, OnceLoop, OnceCaller DEF Next
<1>3. OnceInv => OneShotFiresOncePerLife
  BY DEF OnceInv, OneShotFiresOncePerLife
<1> QED BY <1>1, <1>2, <1>3, TypeCorrect, PTL DEF Spec

-----------------------------------------------------------------------------
(* Commands: the cmd_tx mutex and the channel.                             *)

\* While trigger_now or shutdown waits, the mutex is free, or its holder has
\* room or no receiver, or run_loop is about to make room.
CommandsServed ==
    (\E c \in Callers : op[c].pc \in {"lock", "send"})
        => \/ txLock = None /\ \E c \in Callers : op[c].pc = "lock"
           \/ /\ Len(queue) < QueueCap \/ lpc = "stopped"
              /\ \E c \in Callers : op[c].pc = "send"
           \/ lpc = "idle" /\ queue # <<>>
           \/ lpc = "tick" /\ due # {}
           \/ lpc \in {"execute", "persist"}

\* Who waits for room is who holds the mutex, and only if there is a loop; a
\* tick has a job left, and no command is left to a loop that has stopped.
TxInv ==
    /\ \A c \in Callers : op[c].pc = "send" <=> txLock = c
    /\ txLock # None => started
    /\ started => lpc # "off"
    /\ lpc = "tick" => due # {}
    /\ lpc = "stopped" => queue = <<>>

LEMMA TxLoop ==
    ASSUME TypeOK, TxInv, LoopStep
    PROVE  TxInv'
<1>1. UNCHANGED op
  BY DEF LoopStep, Start, Tick, RecvTrigger, RecvShutdown, Persist, TriggerDue, Commit
<1>2. UNCHANGED txLock /\ (started => started') /\ (started' => lpc' # "off")
  BY DEF TxInv, TypeOK, LoopStep, Start, Tick, RecvTrigger, RecvShutdown, Persist,
     TriggerDue, Commit, BeginRun, Return, txVars
<1>3. lpc' = "tick" => due' # {}
  BY DEF TxInv, LoopStep, Start, Tick, RecvTrigger, RecvShutdown, Persist,
     TriggerDue, Commit, BeginRun, Return
<1>4. lpc' = "stopped" => queue' = <<>>
  BY DEF TxInv, LoopStep, Start, Tick, RecvTrigger, RecvShutdown, Persist,
     TriggerDue, Commit, BeginRun, Return
<1> QED BY <1>1, <1>2, <1>3, <1>4 DEF TxInv

LEMMA TxCaller ==
    ASSUME TypeOK, TxInv, NEW c \in Callers, CallerStep(c)
    PROVE  TxInv'
<1>0. /\ op \in [Callers -> Op] /\ None \notin Callers /\ queue \in Seq(Jobs \cup {None})
      /\ \A d \in Callers : op[d].pc = "send" <=> txLock = d
  BY CronAssumption DEF TypeOK, TxInv
<1>1. UNCHANGED <<lpc, due, started>>
  BY DEF CallerStep, GetJob, RemoveDelete, TriggerNow, AddPut, UpdateCheck,
     UpdatePut, Insert, RemoveMem, Shutdown, LockTx, Send, SendFrame, loopVars, txVars
<1>2. CASE LockTx(c)
  <2>1. CASE started
    <3>1. txLock' = c /\ op' = [op EXCEPT ![c].pc = "send"] /\ UNCHANGED queue
      BY <1>2, <2>1 DEF LockTx
    <3>2. \A d \in Callers : op'[d].pc = "send" <=> txLock' = d
      <4> TAKE d \in Callers
      <4>1. CASE d = c
        <5>1. op'[c].pc = "send"
          BY <1>0, <3>1 DEF Op, Idle
        <5> QED BY <3>1, <4>1, <5>1
      <4>2. CASE d # c
        <5>1. op'[d] = op[d] /\ txLock = None
          BY <1>0, <1>2, <3>1, <4>2 DEF LockTx
        <5> QED BY <1>0, <3>1, <4>2, <5>1
      <4> QED BY <4>1, <4>2
    <3> QED BY <1>1, <2>1, <3>1, <3>2 DEF TxInv
  <2>2. CASE ~started
    <3>1. txLock' = txLock /\ op' = [op EXCEPT ![c] = Idle] /\ UNCHANGED queue
      BY <1>2, <2>2 DEF LockTx
    <3>2. txLock = None
      BY <2>2 DEF TxInv
    <3>3. \A d \in Callers : op'[d].pc # "send"
      BY <1>0, <3>1, <3>2 DEF Idle
    <3> QED BY <1>0, <1>1, <3>1, <3>2, <3>3 DEF TxInv
  <2> QED BY <2>1, <2>2
<1>3. CASE Send(c)
  <2>1. txLock' = None /\ op' = [op EXCEPT ![c] = Idle] /\ txLock = c
    BY <1>0, <1>3 DEF Send, SendFrame
  <2>2. \A d \in Callers : op'[d].pc # "send"
    BY <1>0, <2>1 DEF Idle
  <2>3. lpc = "stopped" => queue' = queue
    BY <1>3 DEF Send
  <2> QED BY <1>0, <1>1, <2>1, <2>2, <2>3 DEF TxInv
<1>4. CASE ~LockTx(c) /\ ~Send(c)
  <2>1. UNCHANGED <<txLock, queue>>
    BY <1>4 DEF CallerStep, GetJob, RemoveDelete, TriggerNow, AddPut, UpdateCheck,
       UpdatePut, Insert, RemoveMem, Shutdown, txVars
  <2>2. /\ op[c].pc # "send" /\ op'[c].pc # "send"
        /\ \A d \in Callers \ {c} : op'[d] = op[d]
    <3>1. \E new : op' = [op EXCEPT ![c] = new] /\ new.pc # "send"
      <4>1. CASE UpdatePut(c)
        <5>1. op' = [op EXCEPT ![c] = [op[c] EXCEPT !.pc = "insert"]]
          BY <1>0, <4>1 DEF UpdatePut
        <5>2. [op[c] EXCEPT !.pc = "insert"].pc = "insert"
          BY <1>0, <4>1, OpShape DEF UpdatePut
        <5> QED BY <5>1, <5>2
      <4>2. CASE ~UpdatePut(c)
        BY <1>4, <4>2 DEF CallerStep, GetJob, RemoveDelete, TriggerNow, AddPut,
           UpdateCheck, Insert, RemoveMem, Shutdown, Idle
      <4> QED BY <4>1, <4>2
    <3>2. op[c].pc # "send"
      BY <1>4 DEF CallerStep, GetJob, RemoveDelete, TriggerNow, AddPut, UpdateCheck,
         UpdatePut, Insert, RemoveMem, Shutdown
    <3> QED BY <1>0, <3>1, <3>2
  <2> QED BY <1>0, <1>1, <2>1, <2>2 DEF TxInv
<1> QED BY <1>2, <1>3, <1>4

\* trigger_now and shutdown wait for room while they hold the cmd_tx mutex.
\* Nobody waits for nothing, for any callers, jobs and capacity of the channel:
\* the holder goes on once run_loop takes a command or has stopped, run_loop
\* never waits for a caller, and a stopped loop leaves no command behind.
THEOREM CommandsServedTheorem == Spec => []CommandsServed
<1>1. Init => TxInv
  BY CronAssumption DEF Init, TxInv, Idle
<1>2. TypeOK /\ TxInv /\ [Next]_vars => TxInv'
  <2> SUFFICES ASSUME TypeOK, TxInv, [Next]_vars PROVE TxInv'
    OBVIOUS
  <2>1. CASE CrashRestart
    <3>1. \A c \in Callers : op'[c].pc # "send"
      BY <2>1 DEF CrashRestart, Idle
    <3> QED BY <2>1, <3>1, CronAssumption DEF CrashRestart, TxInv
  <2>2. CASE UNCHANGED vars \/ AdvanceClock
    <3>1. UNCHANGED <<op, started, txLock, queue, lpc, due>>
      BY <2>2 DEF vars, AdvanceClock, loopVars, txVars
    <3> QED BY <3>1 DEF TxInv
  <2> QED BY <2>1, <2>2, TxLoop, TxCaller DEF Next
<1>3. ASSUME TypeOK, TxInv PROVE CommandsServed
  <2> SUFFICES ASSUME txLock # None \/ ~ \E c \in Callers : op[c].pc = "lock",
                      NEW c \in Callers, op[c].pc \in {"lock", "send"}
               PROVE  CommandsServed
    BY DEF CommandsServed
  <2>1. txLock # None
    BY <1>3, CronAssumption DEF TxInv
  <2>2. /\ \E d \in Callers : op[d].pc = "send"
        /\ lpc \in {"idle", "tick", "execute", "persist", "stopped"}
        /\ lpc = "tick" => due # {}
    BY <1>3, <2>1 DEF TxInv, TypeOK
  <2>3. Len(queue) < QueueCap \/ queue # <<>>
    BY <1>3, CronAssumption DEF TypeOK
  <2> QED BY <2>2, <2>3 DEF CommandsServed
<1> QED BY <1>1, <1>2, <1>3, TypeCorrect, PTL DEF Spec
=============================================================================
