--------------------------- MODULE MCCronScheduler ---------------------------
(***************************************************************************)
(* Model values and bounds for checking CronScheduler with TLC.            *)
(***************************************************************************)
EXTENDS CronScheduler, TLC

CONSTANTS j1, j2, c1, c2

OneShotAt(t) == [type |-> "at", arg |-> t]
EveryTick    == [type |-> "every", arg |-> 1]
CronEven     == [type |-> "cron", arg |-> 2]

MCOneShots     == {OneShotAt(1)}
MCWithZero     == {OneShotAt(1), CronEven, EveryTick, [type |-> "every", arg |-> 0]}

\* A process that starts on a store with jobs in it, as they are stored after
\* add_job, and serves no API call: the loop alone.
LoadedInit ==
    /\ \E s \in [Jobs -> Schedules] :
          store = [j \in Jobs |-> Rearm(NewJob(s[j]), 0)]
    /\ jobs = store
    /\ now = 0
    /\ started = FALSE /\ txLock = None /\ queue = <<>>
    /\ lpc = "off" /\ due = {} /\ cur = None /\ runAt = 0
    /\ byTick = FALSE /\ image = NoJob
    /\ op = [c \in Callers |-> Idle]
    /\ crashes = 0
    /\ starts = [j \in Jobs |-> 0] /\ removed = {} /\ contended = {}

LoadedSpec == LoadedInit /\ [][Next]_vars /\ Fairness

CallerSymmetry == Permutations(Callers)
=============================================================================
