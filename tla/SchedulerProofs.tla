--------------------------- MODULE SchedulerProofs ---------------------------
(***************************************************************************)
(* The refresh scheduler beside any number of request threads: the         *)
(* invariants of the catalogue hold with it too, and it never sleeps past  *)
(* the moment channels.json is due.                                        *)
(***************************************************************************)
EXTENDS RefreshScheduler, CatalogProofs

-----------------------------------------------------------------------------
(* The catalogue under the scheduler.                                      *)

\* What the scheduler does to the catalogue is a step of it, except that a
\* scheduled refresh is started by nobody's request.
LEMMA CatalogStep ==
    ASSUME [SchedulerNext]_allVars
    PROVE  RunOnce \/ [Next]_vars
BY SchedulerAssumption
DEF SchedulerNext, Schedule, RunStep, Sleep, Wake, Requests, Restart,
    SchedulerRest, allVars, Next

\* A scheduled refresh that starts keeps the invariant of the catalogue.
LEMMA RunOnceInv ==
    ASSUME TypeInv, RunOnce
    PROVE  TypeInv'
<1> DEFINE r == [IdleThread EXCEPT !.pc = "lock", !.op = "scheduled"]
<1>1. r \in Thread
  BY IdleThreadType DEF Thread, AllHandlers
<1>2. ThreadOK(r)
  BY DEF IdleThread, NoResult, ThreadOK, LabelOfOp, InputOfLabel, TodoFromView,
         ResultsKnown, SaveLabels, RefreshLabels, RefreshOps, EditOps, DeleteOps,
         CustomOps, Registered, NoCopy
<1>3. Become(Scheduler, r) /\ Scheduler \in Workers
  BY SchedulerAssumption DEF RunOnce
<1>4. th' \in [Workers -> Thread] /\ \A v \in Workers : ThreadOK(th'[v])
  BY <1>1, <1>2, <1>3, ThreadsStep
<1>5. QED
  BY <1>4 DEF RunOnce, TypeInv, TypeOK, registries, outputs, bounds

\* The invariant of the catalogue holds under the scheduler.
LEMMA CatalogInv == SchedulerSpec => []TypeInv
<1>1. SchedulerInit => TypeInv
  BY InitInv DEF SchedulerInit
<1>2. TypeInv /\ [SchedulerNext]_allVars => TypeInv'
  BY CatalogStep, RunOnceInv, NextInv
<1>3. QED
  BY <1>1, <1>2, PTL DEF SchedulerSpec

-----------------------------------------------------------------------------
(* The sleep of the scheduler.                                             *)

\* channels.json is not from the future, and the scheduler went to sleep
\* before now, for an interval at most.
SleepInv ==
    /\ channelsAt <= now
    /\ run = "asleep" => slept <= now /\ until <= slept + Interval

SchedulerInv == TypeInv /\ SchedulerTypeOK /\ SleepInv /\ NeverSleepsPastDue

\* A thread leaves the clock alone, and dates channels.json now or not at all.
LEMMA SavesNow ==
    ASSUME NEW w \in Workers, BeginOperation(w) \/ Work(w) \/ SaveFails(w)
    PROVE  UNCHANGED now /\ channelsAt' \in {channelsAt, now}
<1>1. CASE BeginOperation(w)
  BY <1>1 DEF BeginOperation, BeginRefresh, BeginView, BeginAddSource,
     BeginUpdateSource, BeginValidateSource, BeginDeleteSource,
     BeginCustomChannel, Begin, outputs
<1>2. CASE Refresh(w)
  BY <1>2 DEF Refresh, RunUpdate, RefreshReadSources, RefreshReadCustom,
     FetchLoadCache, FetchSource, CommitSource, RecordSource, RefreshRaises,
     EndRefresh, outputs, bounds
<1>3. CASE Rebuild(w) \/ Save(w) \/ SaveFails(w)
  BY <1>3 DEF Rebuild, Save, SaveFails, RebuildReadCustom, RebuildReadSources,
     RebuildLoad, SaveJson, SaveM3u, outputs, bounds
<1>4. CASE Handle(w)
  BY <1>4 DEF Handle, ViewReadSource, ViewLoadCache, GetForUpdate,
     GetForValidate, GetForDelete, Validate, CreateSource, UpdateSource,
     DeleteSource, SaveValidatedSnapshot, DeleteSourceSnapshot, RecordAccepted,
     MutateCustomChannel, outputs, bounds
<1>5. QED
  BY <1>1, <1>2, <1>3, <1>4 DEF Work

\* Numbers the arguments below compare.
LEMMA Numbers ==
    ASSUME SchedulerInv
    PROVE  /\ now \in Nat /\ channelsAt \in Nat /\ slept \in Nat /\ until \in Nat
           /\ Interval \in Nat /\ Retry \in 1..Interval
BY CatalogAssumption, SchedulerAssumption
DEF SchedulerInv, SchedulerTypeOK, TypeInv, TypeOK

\* A save by whatever thread only puts off the moment channels.json is due.
LEMMA SaveStep ==
    ASSUME SchedulerInv, NEW w \in Workers,
           BeginOperation(w) \/ Work(w) \/ SaveFails(w),
           run' = "asleep" => run = "asleep", UNCHANGED <<slept, until>>
    PROVE  SleepInv' /\ NeverSleepsPastDue'
<1>1. UNCHANGED now /\ channelsAt' \in {channelsAt, now}
  BY SavesNow
<1>2. QED
  BY <1>1, Numbers DEF SchedulerInv, SleepInv, NeverSleepsPastDue

\* A step that leaves channels.json alone, and does not go to sleep.
LEMMA StillStep ==
    ASSUME SchedulerInv, now' \in Nat, now' >= now, UNCHANGED channelsAt,
           run' = "asleep" => run = "asleep" /\ UNCHANGED <<slept, until>>
    PROVE  SleepInv' /\ NeverSleepsPastDue'
BY Numbers DEF SchedulerInv, SleepInv, NeverSleepsPastDue

\* Going to sleep, from the state the last refresh left and the edits since.
LEMMA SleepStep ==
    ASSUME SchedulerInv, Sleep
    PROVE  SleepInv' /\ NeverSleepsPastDue' /\ slept' \in Nat /\ until' \in Nat
<1>1. /\ UNCHANGED <<now, channelsAt>> /\ slept' = now
      /\ until' = now + SecondsUntilDue
  BY DEF Sleep, vars, outputs, bounds
<1>2. \/ SecondsUntilDue = Retry
      \/ /\ channelsAt + Interval > now
         /\ SecondsUntilDue = channelsAt + Interval - now
      \/ SecondsUntilDue = 1
  BY DEF SecondsUntilDue
<1>3. SecondsUntilDue \in Nat /\ SecondsUntilDue <= Interval
  BY <1>2, Numbers DEF SchedulerInv, SleepInv
<1>4. \/ SecondsUntilDue <= Retry
      \/ SecondsUntilDue = channelsAt + Interval - now
  BY <1>2, Numbers
<1>5. QED
  BY <1>1, <1>3, <1>4, Numbers DEF SchedulerInv, SleepInv, NeverSleepsPastDue

\* The types of the scheduler's own variables.
LEMMA OwnTypes ==
    ASSUME SchedulerInv, [SchedulerNext]_allVars
    PROVE  SchedulerTypeOK'
<1>1. TypeOK'
  BY CatalogStep, RunOnceInv, NextInv DEF SchedulerInv, TypeInv
<1>2. CASE Sleep
  BY <1>1, <1>2, SleepStep DEF SchedulerInv, SchedulerTypeOK, Sleep
<1>3. CASE RunStep
  BY <1>1, <1>3 DEF SchedulerInv, SchedulerTypeOK, RunStep
<1>4. CASE RunOnce \/ Wake \/ Restart
  BY <1>1, <1>4 DEF SchedulerInv, SchedulerTypeOK, RunOnce, Wake, Restart
<1>5. CASE UNCHANGED sched
  BY <1>1, <1>5 DEF SchedulerInv, SchedulerTypeOK, sched
<1>6. QED
  BY <1>2, <1>3, <1>4, <1>5
  DEF SchedulerNext, Schedule, SchedulerRest, allVars

\* The invariant holds when the application has started.
LEMMA SchedulerInitInv == SchedulerInit => SchedulerInv
<1> SUFFICES ASSUME SchedulerInit PROVE SchedulerInv
  OBVIOUS
<1>1. TypeInv
  BY InitInv DEF SchedulerInit
<1>2. channelsAt = 0 /\ now = 1 /\ Started
  BY DEF SchedulerInit, Init
<1>3. QED
  BY <1>1, <1>2 DEF SchedulerInv, SchedulerTypeOK, TypeInv, SleepInv,
     NeverSleepsPastDue, Started

\* Every step keeps the invariant.
LEMMA SchedulerNextInv == SchedulerInv /\ [SchedulerNext]_allVars => SchedulerInv'
<1> SUFFICES ASSUME SchedulerInv, [SchedulerNext]_allVars
             PROVE  SchedulerInv'
  OBVIOUS
<1> DEFINE Kept == SleepInv' /\ NeverSleepsPastDue'
<1>1. TypeInv'
  BY CatalogStep, RunOnceInv, NextInv DEF SchedulerInv
<1>2. SchedulerTypeOK'
  BY OwnTypes
<1>3. CASE RunStep
  <2>1. /\ Work(Scheduler) \/ SaveFails(Scheduler)
        /\ run' # "asleep" /\ UNCHANGED <<slept, until>>
    BY <1>3 DEF RunStep
  <2>2. Kept
    BY <2>1, SaveStep, SchedulerAssumption
  <2>3. QED
    BY <1>1, <1>2, <2>2 DEF SchedulerInv
<1>4. CASE Requests /\ UNCHANGED sched
  <2>1. PICK w \in Workers : BeginOperation(w) \/ Work(w) \/ SaveFails(w)
    BY <1>4 DEF Requests
  <2>2. Kept
    BY <1>4, <2>1, SaveStep DEF sched
  <2>3. QED
    BY <1>1, <1>2, <2>2 DEF SchedulerInv
<1>5. CASE Sleep
  BY <1>1, <1>2, <1>5, SleepStep DEF SchedulerInv
<1>6. CASE \/ RunOnce \/ Wake \/ Restart \/ SchedulerRest \/ UNCHANGED allVars
           \/ Tick /\ UNCHANGED sched
  <2>1. /\ now' \in Nat /\ now' >= now /\ UNCHANGED channelsAt
        /\ run' = "asleep" => run = "asleep" /\ UNCHANGED <<slept, until>>
    BY <1>6, Numbers DEF RunOnce, Wake, Restart, Crash, SchedulerRest, Rest, Tick,
       allVars, vars, sched, outputs, bounds
  <2>2. Kept
    BY <2>1, StillStep
  <2>3. QED
    BY <1>1, <1>2, <2>2 DEF SchedulerInv
<1>7. QED
  BY <1>3, <1>4, <1>5, <1>6 DEF SchedulerNext, Schedule

LEMMA SchedulerCorrect == SchedulerSpec => []SchedulerInv
BY SchedulerInitInv, SchedulerNextInv, PTL DEF SchedulerSpec

\* The catalogue and the scheduler are well typed, for any number of request
\* threads beside it.
THEOREM SchedulerTypeSafety == SchedulerSpec => []SchedulerTypeOK
<1>1. SchedulerInv => SchedulerTypeOK
  BY DEF SchedulerInv
<1>2. QED
  BY <1>1, SchedulerCorrect, PTL

\* The scheduler is awake by the moment channels.json is due, or a pause after
\* it went to sleep, whoever saves the file meanwhile and however often the
\* application is restarted.
THEOREM NeverSleepsPastDueCorrect == SchedulerSpec => []NeverSleepsPastDue
<1>1. SchedulerInv => NeverSleepsPastDue
  BY DEF SchedulerInv
<1>2. QED
  BY <1>1, SchedulerCorrect, PTL
=============================================================================
