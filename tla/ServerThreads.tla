--------------------------- MODULE ServerThreads ---------------------------
(***************************************************************************)
(* The threads of the server (src/Dockerfile: one gunicorn worker, four    *)
(* threads), as the small JSON stores see them: each thread is idle or     *)
(* inside one call of one store, the whole process may die and start       *)
(* again, and an access to a file may fail.                                *)
(***************************************************************************)
EXTENDS Naturals

CONSTANTS
    Threads,       \* threads of the server
    MaxCalls,      \* bound on the calls of a behaviour
    MaxFaults      \* bound on crashes, failed reads and failed writes

ASSUME ThreadsAssumption == MaxCalls \in Nat /\ MaxFaults \in Nat

VARIABLES
    up,            \* whether the process runs
    th,            \* the call each thread is in
    calls, faults  \* how many calls and faults there have been

threadVars == <<up, th, calls, faults>>

(* A dictionary g updated with the entries of f.                           *)
Over(f, g) == [k \in DOMAIN f \cup DOMAIN g |->
                  IF k \in DOMAIN f THEN f[k] ELSE g[k]]

Idle == [at |-> "idle"]

ThreadsInit ==
    /\ up = FALSE
    /\ th = [t \in Threads |-> Idle]
    /\ calls = 0
    /\ faults = 0

(* A request reaches an idle thread, which goes on to `step`.              *)
Serve(t, step) ==
    /\ up
    /\ th[t] = Idle
    /\ calls < MaxCalls
    /\ calls' = calls + 1
    /\ th' = [th EXCEPT ![t] = step]
    /\ UNCHANGED up

Goto(t, step) ==
    /\ th' = [th EXCEPT ![t] = step]
    /\ UNCHANGED <<up, calls>>

Return(t) == Goto(t, Idle)

(* Whether an access to a file goes through; a failure is a fault.         *)
Works(ok) ==
    \/ ok /\ UNCHANGED faults
    \/ ~ok /\ faults < MaxFaults /\ faults' = faults + 1

(* The process dies with all its threads and their locks.                  *)
Die ==
    /\ up
    /\ faults < MaxFaults
    /\ up' = FALSE
    /\ th' = [t \in Threads |-> Idle]
    /\ faults' = faults + 1
    /\ UNCHANGED calls

Boot ==
    /\ ~up
    /\ up' = TRUE
    /\ UNCHANGED <<th, calls>>
=============================================================================
