----------------------------- MODULE Statistics -----------------------------
(***************************************************************************)
(* StatsManager (src/src/app/services/stats_manager.py): counters of each  *)
(* channel, kept in memory and written to stats.json, in place, after each *)
(* update, under one lock.                                                 *)
(***************************************************************************)
EXTENDS ServerThreads, Integers

CONSTANTS
    Channels,      \* stream ids
    NoThread       \* the owner of a free lock

ASSUME StatisticsAssumption == NoThread \notin Threads

VARIABLES
    stats,         \* _stats: the counters in memory
    statsFile,     \* what _load_stats() makes of stats.json: a file that is
                   \* missing or truncated loads as no statistics
    statsLock,     \* owner of _lock
    behind,        \* history: the last write failed, or the start could not
                   \* read the file and no write has gone through since
    counted,       \* history: the counters of every update there has been
    lossy          \* history: an update was still to be written when the
                   \* process died, or a start could not read the file

historyVars == <<counted, lossy>>
statsVars == <<stats, statsFile, statsLock, behind, historyVars>>

Entry == [successes: Nat, votes: Int, count: Nat]
Counters == UNION {[C -> Entry] : C \in SUBSET Channels}

Unrated == [c \in {} |-> {}]
New == [successes |-> 0, votes |-> 0, count |-> 0]

StatsInit ==
    /\ stats = Unrated
    /\ statsFile = Unrated
    /\ statsLock = NoThread
    /\ behind = FALSE
    /\ counted = Unrated
    /\ lossy = FALSE

(* __init__: the counters are those of the file, or none when its read     *)
(* raises; the file then keeps counters that the next update overwrites.   *)
StartStats(ok) ==
    /\ stats' = IF ok THEN statsFile ELSE Unrated
    /\ statsLock' = NoThread
    /\ behind' = ~ok
    /\ lossy' = (lossy \/ ~ok)
    /\ UNCHANGED <<statsFile, counted>>

(* The process dies: an update not written whole is lost.                  *)
LoseStatsLock ==
    /\ statsLock' = NoThread
    /\ lossy' = (lossy \/ behind \/ statsLock # NoThread)
    /\ UNCHANGED <<stats, statsFile, behind, counted>>

Counted(e, event) ==
    CASE event = "success" -> [e EXCEPT !.successes = @ + 1]
      [] event = "like"    -> [e EXCEPT !.votes = @ + 1, !.count = @ + 1]
      [] event = "dislike" -> [e EXCEPT !.votes = @ - 1, !.count = @ + 1]

EntryOf(s, c) == IF c \in DOMAIN s THEN s[c] ELSE New

(* The counters s after an event of channel c.                             *)
After(s, c, event) ==
    Over([x \in {c} |-> Counted(EntryOf(s, c), event)], s)

(* update_channel_success() and update_user_feedback(): the lock is taken  *)
(* and the counters in memory change.                                      *)
UpdateUnlocked(t, c, event) ==
    /\ Serve(t, [at |-> "openStats"])
    /\ stats' = After(stats, c, event)
    /\ counted' = After(counted, c, event)
    /\ statsLock' = t
    /\ UNCHANGED <<statsFile, behind, lossy, faults>>

Update(t, c, event) ==
    /\ statsLock = NoThread
    /\ Serve(t, [at |-> "openStats"])
    /\ stats' = After(stats, c, event)
    /\ counted' = After(counted, c, event)
    /\ statsLock' = t
    /\ UNCHANGED <<statsFile, behind, lossy, faults>>

(* _save_stats(): opening the file empties it; a failure is logged only.   *)
OpenStats(t, ok) ==
    /\ th[t].at = "openStats"
    /\ Works(ok)
    /\ IF ok
       THEN /\ statsFile' = Unrated
            /\ Goto(t, [at |-> "writeStats", dump |-> stats])
            /\ UNCHANGED <<statsLock, behind>>
       ELSE /\ behind' = TRUE
            /\ statsLock' = NoThread
            /\ Return(t)
            /\ UNCHANGED statsFile
    /\ UNCHANGED <<stats, historyVars>>

WriteStats(t, ok) ==
    /\ th[t].at = "writeStats"
    /\ Works(ok)
    /\ statsFile' = IF ok THEN th[t].dump ELSE Unrated
    /\ behind' = ~ok
    /\ statsLock' = NoThread
    /\ Return(t)
    /\ UNCHANGED <<stats, historyVars>>

StatsStep(t) ==
    \/ \E c \in Channels, event \in {"success", "like", "dislike"} :
          Update(t, c, event)
    \/ \E ok \in BOOLEAN : OpenStats(t, ok) \/ WriteStats(t, ok)

-----------------------------------------------------------------------------
StatsTypeOK ==
    /\ \A s \in {stats, statsFile, counted} :
          /\ DOMAIN s \subseteq Channels
          /\ \A c \in DOMAIN s : s[c] \in Entry
    /\ statsLock \in Threads \cup {NoThread}
    /\ {behind, lossy} \subseteq BOOLEAN

(* With no update under way, the next start loads exactly the counters in  *)
(* memory, unless the last write failed or this start could not read the   *)
(* file: no interleaving of updates leaves an older version in the file.   *)
(* And memory has every update since the first start, across restarts,     *)
(* unless a crash caught one before it was written whole or a start could  *)
(* not read the file.                                                      *)
StatsDurable ==
    up /\ statsLock = NoThread =>
        /\ ~behind => statsFile = stats
        /\ ~lossy => stats = counted
=============================================================================
