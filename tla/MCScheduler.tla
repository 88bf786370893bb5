----------------------------- MODULE MCScheduler -----------------------------
(***************************************************************************)
(* The scheduler and one request thread over one source.                   *)
(***************************************************************************)
EXTENDS RefreshScheduler, TLC

CONSTANTS u1, s1, s2

MCServes == u1 :> {s1}

OneSource == <<u1>>

RequestsBesideScheduler ==
    [w \in Workers |->
       IF w = Scheduler THEN {}
       ELSE {"refresh", "view", "delete", "customCreate"}]

\* The application is restarted at 2 with what a refresh at 1 left behind.
Restarted ==
    /\ sources = [id \in Ids |-> [url |-> u1, enabled |-> TRUE, lastOk |-> 1,
                                  lastError |-> "none"]]
    /\ nextId = 2
    /\ custom = [c \in CustomIds |-> NoStream]
    /\ snap = [id \in Ids |-> [channels |-> {s1}, hash |-> {{s1}}, at |-> 1]]
    /\ channels = {[stream |-> s1, id |-> 1, url |-> u1]}
    /\ channelsAt = 1
    /\ m3u = {s1}
    /\ refreshLock = Free
    /\ th = [w \in Workers |-> IdleThread]
    /\ now = 2 /\ ops = 0 /\ faults = 0
    /\ Started

RestartedFairSpec == Restarted /\ [][SchedulerNext]_allVars /\ SchedulerFairness
=============================================================================
