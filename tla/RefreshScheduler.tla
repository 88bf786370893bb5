-------------------------- MODULE RefreshScheduler --------------------------
(***************************************************************************)
(* The playlist refresh thread (refresh_scheduler.py) beside the request   *)
(* threads of the catalogue: it refreshes channels.json when it is due,    *)
(* sleeps until it should be due again, and shares the refresh locks and   *)
(* the file with everybody else.                                           *)
(***************************************************************************)
EXTENDS Catalog

CONSTANTS
    Scheduler,    \* the thread "playlist-refresh"
    Retry         \* min(60, interval): the pause after a failure

ASSUME SchedulerAssumption ==
    /\ Scheduler \in Workers /\ Handlers[Scheduler] = {}
    /\ Retry \in 1..Interval

VARIABLES
    run,          \* where _run is
    last,         \* last_result
    slept,        \* when it last went to sleep
    until         \* when its wait times out

sched == <<run, last, slept, until>>
allVars == <<vars, sched>>

SchedulerTypeOK ==
    /\ TypeOK
    /\ run \in {"ready", "refreshing", "back", "asleep"}
    /\ last \in {"not_started", "updated", "skipped_fresh_cache", "failed"}
    /\ slept \in Nat /\ until \in Nat

\* create_app starts the thread.
Started == run = "ready" /\ last = "not_started" /\ slept = 0 /\ until = 0

SchedulerInit == Init /\ Started

-----------------------------------------------------------------------------
\* run_once: update_channels_if_due on this thread.
RunOnce ==
    /\ run = "ready"
    /\ run' = "refreshing"
    /\ Become(Scheduler, [IdleThread EXCEPT !.pc = "lock", !.op = "scheduled"])
    /\ UNCHANGED <<registries, snap, outputs, refreshLock, bounds, last, slept, until>>

\* The refresh takes a step.  When it is over: nothing was due, both outputs
\* were written, or it failed, returned False or raised.
RunStep ==
    /\ run = "refreshing"
    /\ Work(Scheduler) \/ SaveFails(Scheduler)
    /\ IF At(Scheduler, "idle")'
         THEN /\ run' = "back"
              /\ last' = CASE At(Scheduler, "lock") -> "skipped_fresh_cache"
                           [] At(Scheduler, "writeM3u") /\ faults' = faults -> "updated"
                           [] OTHER -> "failed"
         ELSE UNCHANGED <<run, last>>
    /\ UNCHANGED <<slept, until>>

\* Mutant: the interval counts from now, not from the last save.
SecondsUntilDueFromNow ==
    IF last = "failed" \/ channelsAt = 0 THEN Retry ELSE Interval

\* _seconds_until_due, from the modification time channels.json has by now.
SecondsUntilDue ==
    IF last = "failed" \/ channelsAt = 0 THEN Retry
    ELSE IF channelsAt + Interval > now THEN channelsAt + Interval - now
    ELSE 1

Sleep ==
    /\ run = "back"
    /\ run' = "asleep" /\ slept' = now /\ until' = now + SecondsUntilDue
    /\ UNCHANGED <<vars, last>>

\* Mutant: a failure ends the thread.
WakeUnlessFailed ==
    /\ run = "asleep" /\ now >= until /\ last # "failed"
    /\ run' = "ready"
    /\ UNCHANGED <<vars, last, slept, until>>

Wake ==
    /\ run = "asleep" /\ now >= until
    /\ run' = "ready"
    /\ UNCHANGED <<vars, last, slept, until>>

Schedule == RunOnce \/ RunStep \/ Sleep \/ Wake

Requests ==
    \E w \in Workers \ {Scheduler} : BeginOperation(w) \/ Work(w) \/ SaveFails(w)

\* The process dies and create_app starts the thread anew.
Restart ==
    /\ Crash
    /\ run' = "ready" /\ last' = "not_started" /\ slept' = 0 /\ until' = 0

\* Nobody asks for anything, and the clock has reached its bound.
SchedulerRest == now = MaxTime /\ run = "asleep" /\ Rest /\ UNCHANGED sched

SchedulerNext ==
    \/ Schedule
    \/ Requests /\ UNCHANGED sched
    \/ Tick /\ UNCHANGED sched
    \/ Restart
    \/ SchedulerRest

SchedulerSpec == SchedulerInit /\ [][SchedulerNext]_allVars

\* Threads and the clock go on, and a thread waiting for the refresh locks gets
\* them when they are released again and again.
SchedulerFairness ==
    /\ WF_allVars(Schedule) /\ WF_allVars(Tick /\ UNCHANGED sched)
    /\ SF_allVars(RunStep /\ At(Scheduler, "lock"))
    /\ \A w \in Workers \ {Scheduler} :
         /\ WF_allVars(Work(w) /\ UNCHANGED sched)
         /\ SF_allVars(RunUpdate(w) /\ UNCHANGED sched)

SchedulerFairSpec == SchedulerSpec /\ SchedulerFairness

-----------------------------------------------------------------------------
(* What must be true of the scheduler.                                     *)

\* The scheduler never sleeps past the moment channels.json is due: whoever
\* wrote the file since, and whatever failed, it is awake by then, or a pause
\* after it went to sleep.
NeverSleepsPastDue ==
    run = "asleep" /\ channelsAt # 0 =>
        until <= channelsAt + Interval \/ until <= slept + Retry

\* A scheduled refresh that is over is followed by another, whatever its
\* result, as long as the clock goes on.
KeepsRefreshing ==
    run = "asleep" /\ until <= MaxTime ~> run = "refreshing"
=============================================================================
