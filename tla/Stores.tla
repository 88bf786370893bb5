------------------------------- MODULE Stores -------------------------------
(***************************************************************************)
(* The small stores of the server together: settings, statistics and the   *)
(* document of the sources share the threads, the process that dies and    *)
(* starts again, and the disk whose accesses fail.                         *)
(***************************************************************************)
EXTENDS Settings, Statistics, SourceMigration

storesVars == <<threadVars, settingsVars, statsVars, migrationVars>>

Init == ThreadsInit /\ SettingsInit /\ StatsInit /\ MigrationInit

(* The import of the modules when the process starts (create_app()); the   *)
(* sources are not read before the first request.  Failed accesses to both *)
(* files in one start count as one fault.                                  *)
Start(settingsOk, statsOk) ==
    /\ Boot
    /\ Works(settingsOk /\ statsOk)
    /\ StartSettings(settingsOk)
    /\ StartStats(statsOk)
    /\ UNCHANGED migrationVars

Crash ==
    /\ Die
    /\ LoseStatsLock
    /\ LoseDocLock
    /\ UNCHANGED settingsVars

Next ==
    \/ \E settingsOk, statsOk \in BOOLEAN : Start(settingsOk, statsOk)
    \/ Crash
    \/ \E t \in Threads :
          \/ SettingsStep(t) /\ UNCHANGED <<statsVars, migrationVars>>
          \/ StatsStep(t) /\ UNCHANGED <<settingsVars, migrationVars>>
          \/ MigrationStep(t) /\ UNCHANGED <<settingsVars, statsVars>>

Spec == Init /\ [][Next]_storesVars

-----------------------------------------------------------------------------
TypeOK ==
    /\ up \in BOOLEAN
    /\ calls \in 0..MaxCalls
    /\ faults \in 0..MaxFaults
    /\ SettingsTypeOK
    /\ StatsTypeOK
    /\ MigrationTypeOK
=============================================================================
