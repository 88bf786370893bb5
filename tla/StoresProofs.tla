---------------------------- MODULE StoresProofs ----------------------------
(***************************************************************************)
(* The small stores, for every number of threads, calls and faults and     *)
(* every set of settings, channels and URLs: the statistics file is never  *)
(* an older version, the migration of the sources loses nothing, and a     *)
(* setting nobody changes keeps its value.                                 *)
(***************************************************************************)
EXTENDS Stores, TLAPS

-----------------------------------------------------------------------------
(* Threads: the labels of the three stores.                                *)

StatsLabels == {"openStats", "writeStats"}
DocLabels == {"default", "copyAside", "migrate", "edit"}

ThreadsKnown == th = [t \in Threads |-> th[t]]

\* A thread that moves leaves the others where they are.
LEMMA GotoFrame ==
    ASSUME ThreadsKnown, NEW t \in Threads, NEW step,
           th' = [th EXCEPT ![t] = step]
    PROVE  /\ ThreadsKnown'
           /\ th'[t] = step
           /\ \A u \in Threads : u # t => th'[u] = th[u]
  BY DEF ThreadsKnown

LEMMA DieFrame ==
    ASSUME Die
    PROVE  ThreadsKnown' /\ \A t \in Threads : th'[t] = Idle
  BY DEF Die, ThreadsKnown

LEMMA NextThreads ==
    ASSUME ThreadsKnown, [Next]_storesVars
    PROVE  ThreadsKnown'
  <1>1. CASE UNCHANGED storesVars
    BY <1>1 DEF storesVars, threadVars, ThreadsKnown
  <1>2. ASSUME NEW o \in BOOLEAN, NEW ok \in BOOLEAN, Start(o, ok) PROVE ThreadsKnown'
    BY <1>2 DEF Start, Boot, ThreadsKnown
  <1>3. CASE Crash
    BY <1>3, DieFrame DEF Crash
  <1>4. ASSUME NEW t \in Threads, SettingsStep(t) PROVE ThreadsKnown'
    BY <1>4, GotoFrame DEF SettingsStep, ReadSettings, SaveSettings, Serve, Return, Goto
  <1>5. ASSUME NEW t \in Threads, StatsStep(t) PROVE ThreadsKnown'
    BY <1>5, GotoFrame DEF StatsStep, Update, OpenStats, WriteStats, Serve, Return, Goto
  <1>6. ASSUME NEW t \in Threads, MigrationStep(t) PROVE ThreadsKnown'
    BY <1>6, GotoFrame DEF MigrationStep, OpenDocument, WriteDefault, CopyAside,
                Migrate, EditDocument, LeaveDocument, Raise, Serve, Return, Goto
  <1> QED  BY <1>1, <1>2, <1>3, <1>4, <1>5, <1>6 DEF Next

\* Where a thread at the document goes.
Moves(t, step) ==
    /\ th' = [th EXCEPT ![t] = step]
    /\ step.at \in DocLabels \cup {"idle"}
    /\ up' = up

LEMMA MigrationMoves ==
    ASSUME NEW t \in Threads, MigrationStep(t)
    PROVE  \E step : Moves(t, step)
  <1> USE DEF Moves, DocLabels
  <1>0. ASSUME Return(t) PROVE \E step : Moves(t, step)
    BY <1>0 DEF Return, Goto, Idle
  <1>1. ASSUME NEW edit \in Edits, OpenDocument(t, edit) PROVE \E step : Moves(t, step)
    BY <1>1 DEF OpenDocument, Serve, NextStep, Access
  <1>2. ASSUME NEW ok \in BOOLEAN, WriteDefault(t, ok) PROVE \E step : Moves(t, step)
    <2>1. Return(t) \/ Goto(t, Access("edit", th[t].edit, DefaultSources))
      BY <1>2 DEF WriteDefault, Raise
    <2> QED  BY <1>0, <2>1 DEF Goto, Access
  <1>3. ASSUME NEW ok \in BOOLEAN, CopyAside(t, ok) PROVE \E step : Moves(t, step)
    <2>1. Return(t) \/ Goto(t, Access("migrate", th[t].edit, th[t].doc))
      BY <1>3 DEF CopyAside, Raise
    <2> QED  BY <1>0, <2>1 DEF Goto, Access
  <1>4. ASSUME NEW ok \in BOOLEAN, Migrate(t, ok) PROVE \E step : Moves(t, step)
    <2>1. Return(t) \/ Goto(t, Access("edit", th[t].edit, Migrated(th[t].doc)))
      BY <1>4 DEF Migrate, Raise
    <2> QED  BY <1>0, <2>1 DEF Goto, Access
  <1>5. ASSUME NEW ok \in BOOLEAN, EditDocument(t, ok) PROVE \E step : Moves(t, step)
    BY <1>0, <1>5 DEF EditDocument
  <1>6. ASSUME LeaveDocument(t) PROVE \E step : Moves(t, step)
    BY <1>0, <1>6 DEF LeaveDocument, Raise
  <1> QED  BY <1>1, <1>2, <1>3, <1>4, <1>5, <1>6 DEF MigrationStep

\* While the process is down no thread is in a call.
Rest == ThreadsKnown /\ (~up => \A t \in Threads : th[t] = Idle)

LEMMA RestStarts ==
    Init => Rest
  BY DEF Init, ThreadsInit, Rest, ThreadsKnown

LEMMA RestPreserved ==
    ASSUME Rest, [Next]_storesVars
    PROVE  Rest'
  <1>1. ThreadsKnown'  BY NextThreads DEF Rest
  <1>2. CASE UNCHANGED storesVars
    BY <1>1, <1>2 DEF storesVars, threadVars, Rest
  <1>3. ASSUME NEW o \in BOOLEAN, NEW ok \in BOOLEAN, Start(o, ok) PROVE Rest'
    BY <1>1, <1>3 DEF Start, Boot, Rest
  <1>4. CASE Crash
    BY <1>1, <1>4, DieFrame DEF Crash, Rest
  <1>5. ASSUME NEW t \in Threads,
               SettingsStep(t) \/ StatsStep(t) \/ MigrationStep(t)
        PROVE  Rest'
    <2>1. CASE SettingsStep(t)
      <3>1. up /\ up' = up
        BY <2>1 DEF Rest, Idle, SettingsStep, ReadSettings, SaveSettings, Serve,
                    Return, Goto
      <3> QED  BY <1>1, <3>1 DEF Rest
    <2>2. CASE StatsStep(t)
      <3>1. up
        <4>1. up \/ th[t].at \in StatsLabels
          BY <2>2 DEF StatsStep, Update, OpenStats, WriteStats, Serve, StatsLabels
        <4> QED  BY <4>1 DEF Rest, Idle, StatsLabels
      <3>2. ASSUME NEW c \in Channels, NEW event \in {"success", "like", "dislike"},
                   Update(t, c, event)
            PROVE  up' = up
        BY <3>2 DEF Update, Serve
      <3>3. ASSUME NEW ok \in BOOLEAN, OpenStats(t, ok) PROVE up' = up
        BY <3>3 DEF OpenStats, Return, Goto
      <3>4. ASSUME NEW ok \in BOOLEAN, WriteStats(t, ok) PROVE up' = up
        BY <3>4 DEF WriteStats, Return, Goto
      <3>5. up' = up
        BY <2>2, <3>2, <3>3, <3>4 DEF StatsStep
      <3> QED  BY <1>1, <3>1, <3>5 DEF Rest
    <2>3. CASE MigrationStep(t)
      <3>1. up
        BY <2>3 DEF Rest, Idle, MigrationStep, OpenDocument, WriteDefault,
                    CopyAside, Migrate, EditDocument, LeaveDocument, Serve
      <3> QED  BY <1>1, <2>3, <3>1, MigrationMoves DEF Moves, Rest
    <2> QED  BY <1>5, <2>1, <2>2, <2>3
  <1> QED  BY <1>2, <1>3, <1>4, <1>5 DEF Next

-----------------------------------------------------------------------------
(* Statistics.                                                             *)

\* The thread inside _save_stats() owns the lock, and what it writes is still
\* what memory holds.
StatsInv ==
    /\ Rest
    /\ \A t \in Threads :
          /\ th[t].at \in StatsLabels => statsLock = t
          /\ th[t].at = "writeStats" => th[t].dump = stats
    /\ StatsDurable
    /\ ~lossy => IF up THEN stats = counted ELSE statsFile = counted

LEMMA StatsStarts ==
    Init => StatsInv
  BY RestStarts
     DEF Init, ThreadsInit, StatsInit, StatsInv, Idle, StatsLabels, StatsDurable

\* A step that moves a thread outside the statistics.
LEMMA StatsElsewhere ==
    ASSUME StatsInv, Rest', NEW t \in Threads, NEW step, step.at \notin StatsLabels,
           th' = [th EXCEPT ![t] = step], up' = up, UNCHANGED statsVars
    PROVE  StatsInv'
  BY GotoFrame DEF StatsInv, Rest, statsVars, historyVars, StatsDurable, StatsLabels

LEMMA StatsPreserved ==
    ASSUME StatsInv, [Next]_storesVars
    PROVE  StatsInv'
  <1> USE DEF StatsLabels
  <1>0. Rest /\ Rest' /\ ThreadsKnown
    BY RestPreserved DEF StatsInv, Rest
  <1>1. CASE UNCHANGED storesVars
    BY <1>0, <1>1 DEF storesVars, threadVars, statsVars, historyVars, StatsInv, StatsDurable
  <1>2. ASSUME NEW o \in BOOLEAN, NEW ok \in BOOLEAN, Start(o, ok) PROVE StatsInv'
    <2>1. /\ th' = th /\ \A t \in Threads : th[t] = Idle
          /\ ~up /\ up' /\ statsFile' = statsFile /\ counted' = counted
          /\ ok => stats' = statsFile
          /\ behind' = ~ok /\ lossy' = (lossy \/ ~ok)
      BY <1>0, <1>2 DEF Start, Boot, Rest, StartStats
    <2>2. ~behind' => statsFile' = stats'
      BY <2>1
    <2>3. ~lossy' => stats' = counted'
      BY <2>1 DEF StatsInv
    <2> QED  BY <1>0, <2>1, <2>2, <2>3 DEF StatsInv, StatsDurable, Idle
  <1>3. CASE Crash
    <2>1. up /\ ~up' /\ \A t \in Threads : th'[t] = Idle
      BY <1>3, DieFrame DEF Crash, Die
    <2>2. /\ lossy' = (lossy \/ behind \/ statsLock # NoThread)
          /\ UNCHANGED <<stats, statsFile, counted>>
      BY <1>3 DEF Crash, LoseStatsLock
    <2>3. ~lossy' => statsFile' = counted'
      BY <2>1, <2>2 DEF StatsInv, StatsDurable
    <2> QED  BY <1>0, <2>1, <2>3 DEF StatsInv, StatsDurable, Idle
  <1>4. ASSUME NEW t \in Threads, StatsStep(t), UNCHANGED <<settingsVars, migrationVars>>
        PROVE  StatsInv'
    <2>1. ASSUME NEW c \in Channels, NEW event \in {"success", "like", "dislike"},
                 Update(t, c, event)
          PROVE  StatsInv'
      <3>1. /\ statsLock = NoThread /\ statsLock' = t
            /\ th' = [th EXCEPT ![t] = [at |-> "openStats"]]
        BY <2>1 DEF Update, Serve
      <3>0. /\ th'[t] = [at |-> "openStats"]
            /\ \A u \in Threads : u # t => th'[u] = th[u]
        BY <1>0, <3>1, GotoFrame
      <3>2. \A u \in Threads : th[u].at \notin StatsLabels
        BY <3>1, StatisticsAssumption DEF StatsInv
      <3>3. statsLock' # NoThread  BY <3>1, StatisticsAssumption
      <3>4. up /\ up' /\ lossy' = lossy
        BY <2>1 DEF Update, Serve
      <3>5. stats = counted => stats' = counted'
        BY <2>1 DEF Update
      <3>6. ~lossy' => stats' = counted'
        BY <3>4, <3>5 DEF StatsInv
      <3> QED  BY <1>0, <3>0, <3>1, <3>2, <3>3, <3>4, <3>6 DEF StatsInv, StatsDurable
    <2>2. ASSUME NEW ok \in BOOLEAN, OpenStats(t, ok) PROVE StatsInv'
      <3>1. statsLock = t /\ t # NoThread
        BY <2>2, StatisticsAssumption DEF StatsInv, OpenStats
      <3>2. \A u \in Threads : u # t => th[u].at \notin StatsLabels
        BY <3>1 DEF StatsInv
      <3>5. /\ up' = up /\ stats' = stats /\ counted' = counted /\ lossy' = lossy
            /\ up
        <4>1. up  BY <1>0, <2>2 DEF Rest, OpenStats, Idle
        <4> QED  BY <2>2, <4>1 DEF OpenStats, Return, Goto, historyVars
      <3>6. ~lossy' => stats' = counted'
        BY <3>5 DEF StatsInv
      <3>3. CASE ok
        <4>1. /\ th'[t] = [at |-> "writeStats", dump |-> stats]
              /\ \A u \in Threads : u # t => th'[u] = th[u]
          BY <1>0, <2>2, <3>3, GotoFrame DEF OpenStats, Goto
        <4> QED  BY <1>0, <2>2, <3>1, <3>2, <3>3, <3>5, <3>6, <4>1
                 DEF StatsInv, StatsDurable, OpenStats
      <3>4. CASE ~ok
        <4>1. th'[t] = Idle /\ \A u \in Threads : u # t => th'[u] = th[u]
          BY <1>0, <2>2, <3>4, GotoFrame DEF OpenStats, Return, Goto
        <4> QED  BY <1>0, <2>2, <3>2, <3>4, <3>5, <3>6, <4>1
                 DEF StatsInv, StatsDurable, OpenStats, Idle
      <3> QED  BY <3>3, <3>4
    <2>3. ASSUME NEW ok \in BOOLEAN, WriteStats(t, ok) PROVE StatsInv'
      <3>1. statsLock = t /\ th[t].dump = stats
        BY <2>3 DEF StatsInv, WriteStats
      <3>2. th'[t] = Idle /\ \A u \in Threads : u # t => th'[u] = th[u]
        BY <1>0, <2>3, GotoFrame DEF WriteStats, Return, Goto
      <3>3. \A u \in Threads : th'[u].at \notin StatsLabels
        BY <3>1, <3>2 DEF StatsInv, Idle
      <3>4. stats' = stats /\ statsFile' = IF ok THEN stats ELSE Unrated
        BY <2>3, <3>1 DEF WriteStats
      <3>5. ~behind' => ok
        BY <2>3 DEF WriteStats
      <3>6. up' = up /\ counted' = counted /\ lossy' = lossy /\ up
        <4>1. up  BY <1>0, <2>3 DEF Rest, WriteStats, Idle
        <4> QED  BY <2>3, <4>1 DEF WriteStats, Return, Goto, historyVars
      <3>7. ~lossy' => stats' = counted'
        BY <3>4, <3>6 DEF StatsInv
      <3> QED  BY <1>0, <3>3, <3>4, <3>5, <3>6, <3>7 DEF StatsInv, StatsDurable
    <2> QED  BY <1>4, <2>1, <2>2, <2>3 DEF StatsStep
  <1>5. ASSUME NEW t \in Threads, SettingsStep(t), UNCHANGED <<statsVars, migrationVars>>
        PROVE  StatsInv'
    BY <1>0, <1>5, StatsElsewhere
       DEF SettingsStep, ReadSettings, SaveSettings, Serve, Return, Goto, Idle
  <1>6. ASSUME NEW t \in Threads, MigrationStep(t), UNCHANGED <<settingsVars, statsVars>>
        PROVE  StatsInv'
    <2> QED  BY <1>0, <1>6, MigrationMoves, StatsElsewhere DEF Moves, DocLabels
  <1> QED  BY <1>1, <1>2, <1>3, <1>4, <1>5, <1>6 DEF Next

\* StatsDurable (_save_stats under _lock): the file of a process at rest is its
\* memory, whatever updates, failures and restarts came before.
THEOREM StatsDurableCorrect == Spec => []StatsDurable
  <1>1. StatsInv /\ [Next]_storesVars => StatsInv'
    BY StatsPreserved
  <1>2. StatsInv => StatsDurable
    BY DEF StatsInv
  <1> QED  BY <1>1, <1>2, StatsStarts, PTL DEF Spec

-----------------------------------------------------------------------------
(* The document of the sources.                                            *)

\* What the owner of the locks has read is still what the file holds, and the
\* copy of a version 1 list is complete before the list is replaced.
AccessOK(a) ==
    /\ a.at \in DocLabels => a.edit \in Edits
    /\ a.at = "default" => registry.version = "none"
    /\ a.at = "copyAside" => registry.version = "v1" /\ a.doc = registry.sources
    /\ a.at = "migrate" => /\ registry.version = "v1" /\ a.doc = registry.sources
                           /\ backup = original
    /\ a.at = "edit" => registry.version = "v2" /\ a.doc = registry.sources

RegistryInv ==
    /\ registry \in Registry /\ original \in Registry /\ backup \in Registry
    /\ edited \in Lists
    /\ backup.version = "none" \/ backup = original
    /\ registry.version = "none" => edited = DefaultSources /\ original.version = "none"
    /\ registry.version = "v1" =>
          registry = original /\ edited = Migrated(registry.sources)
    /\ MigrationLosesNothing
    /\ UnreadableRegistryKept

MigrationInv ==
    /\ Rest
    /\ \A t \in Threads : /\ AccessOK(th[t])
                          /\ th[t].at \in DocLabels => docLock = t
    /\ RegistryInv

\* The lists the callbacks and the migration make.
LEMMA ListsOK ==
    /\ NoSources \in Lists
    /\ DefaultSources \in Lists
    /\ \A list \in Lists : Migrated(list) \in Lists
  BY DEF NoSources, DefaultSources, Migrated, Lists, Items

LEMMA MigratedClean ==
    ASSUME NEW list \in Lists, list[Blank] = 0
    PROVE  Migrated(list) = list
  BY DEF Migrated, Lists

LEMMA AppliedOK ==
    ASSUME NEW edit \in Edits, NEW doc \in Lists, Accepted(edit, doc)
    PROVE  Applied(edit, doc) \in Lists
  <1>1. edit.url \in Items /\ doc[edit.url] \in Nat
    BY DEF Edits, Items, Lists
  <1>2. PICK n \in Nat :
           n = IF edit.what = "add" THEN doc[edit.url] + 1 ELSE doc[edit.url] - 1
    BY <1>1 DEF Accepted
  <1>3. Applied(edit, doc) = [doc EXCEPT ![edit.url] = n]
    BY <1>1, <1>2 DEF Applied
  <1> QED  BY <1>2, <1>3 DEF Lists

LEMMA MigrationStarts ==
    Init => MigrationInv
  <1> SUFFICES ASSUME Init PROVE MigrationInv
    OBVIOUS
  <1>1. \A t \in Threads : th[t] = Idle
    BY DEF Init, ThreadsInit
  <1>2. /\ registry \in FirstRegistry /\ original = registry
        /\ backup = [version |-> "none", sources |-> NoSources]
        /\ edited = IF registry.version = "none" THEN DefaultSources
                    ELSE Migrated(registry.sources)
    BY DEF Init, MigrationInit
  <1>3. registry \in Registry /\ registry.sources \in Lists
    BY <1>2, MigrationAssumption DEF Registry
  <1>4. RegistryInv
    <2>1. backup \in Registry  BY <1>2, ListsOK DEF Registry
    <2>2. edited \in Lists  BY <1>2, <1>3, ListsOK
    <2>3. MigrationLosesNothing
      BY <1>2, <1>3, MigratedClean, MigrationAssumption DEF MigrationLosesNothing
    <2> QED  BY <1>2, <1>3, <2>1, <2>2, <2>3 DEF RegistryInv, UnreadableRegistryKept
  <1> QED  BY <1>1, <1>4, RestStarts DEF MigrationInv, AccessOK, Idle, DocLabels

\* A step that moves a thread outside the document.
LEMMA MigrationElsewhere ==
    ASSUME MigrationInv, Rest', NEW t \in Threads, NEW step,
           step.at \notin DocLabels, th' = [th EXCEPT ![t] = step],
           UNCHANGED migrationVars
    PROVE  MigrationInv'
  <1>1. th'[t] = step /\ \A u \in Threads : u # t => th'[u] = th[u]
    BY GotoFrame DEF MigrationInv, Rest
  <1>2. RegistryInv'
    BY DEF MigrationInv, RegistryInv, MigrationLosesNothing, UnreadableRegistryKept,
           migrationVars
  <1>3. \A u \in Threads : /\ AccessOK(th[u])'
                           /\ th'[u].at \in DocLabels => docLock' = u
    BY <1>1 DEF MigrationInv, AccessOK, DocLabels, migrationVars
  <1> QED  BY <1>2, <1>3 DEF MigrationInv

\* The owner of the locks moves: no other thread is at the document.
LEMMA OwnerMoves ==
    ASSUME MigrationInv, Rest', NEW t \in Threads, NEW step,
           docLock = t \/ docLock = Nobody,
           th' = [th EXCEPT ![t] = step],
           step.at \in DocLabels => docLock' = t,
           AccessOK(step)', RegistryInv'
    PROVE  MigrationInv'
  <1>1. th'[t] = step /\ \A u \in Threads : u # t => th'[u] = th[u]
    BY GotoFrame DEF MigrationInv, Rest
  <1>2. \A u \in Threads : u # t => th[u].at \notin DocLabels
    BY MigrationAssumption DEF MigrationInv
  <1>3. \A u \in Threads : u # t => AccessOK(th[u])'
    BY <1>1, <1>2 DEF AccessOK, DocLabels
  <1>4. AccessOK(th[t])'  BY <1>1
  <1> QED  BY <1>1, <1>2, <1>3, <1>4 DEF MigrationInv

\* A failed write leaves everything to the next access.
LEMMA RaiseSafe ==
    ASSUME MigrationInv, Rest', NEW t \in Threads, docLock = t, Raise(t),
           UNCHANGED <<original, edited>>
    PROVE  MigrationInv'
  <1>1. RegistryInv'
    BY DEF MigrationInv, RegistryInv, MigrationLosesNothing, UnreadableRegistryKept,
           Raise
  <1>2. AccessOK(Idle)' /\ Idle.at \notin DocLabels
    BY DEF AccessOK, Idle, DocLabels
  <1>3. th' = [th EXCEPT ![t] = Idle]
    BY DEF Raise, Return, Goto
  <1> QED  BY <1>1, <1>2, <1>3, OwnerMoves

\* The document is replaced by sources of version 2.
LEMMA Replaced ==
    ASSUME RegistryInv, NEW s \in Lists, registry' = V2(s), edited' = s,
           registry.version \in {"none", "v1", "v2"},
           registry.version = "v1" => backup = original,
           UNCHANGED <<backup, original>>
    PROVE  RegistryInv'
  <1>1. registry' \in Registry /\ registry'.version = "v2" /\ registry'.sources = s
    BY DEF V2, Registry
  <1>2. original.version = "v1" => backup = original
    BY DEF RegistryInv, MigrationLosesNothing, Registry
  <1>3. original.version \notin {"future", "corrupt"}
    BY DEF RegistryInv, UnreadableRegistryKept
  <1>4. MigrationLosesNothing' /\ UnreadableRegistryKept'
    BY <1>1, <1>2, <1>3 DEF MigrationLosesNothing, UnreadableRegistryKept
  <1> QED  BY <1>1, <1>4 DEF RegistryInv

LEMMA MigrationStepSafe ==
    ASSUME MigrationInv, Rest', NEW t \in Threads, MigrationStep(t)
    PROVE  MigrationInv'
  <1> USE DEF DocLabels
  <1>1. ASSUME NEW edit \in Edits, OpenDocument(t, edit) PROVE MigrationInv'
    <2>0. PICK a : a = Access(NextStep(registry.version), edit, registry.sources)
      OBVIOUS
    <2>1. /\ docLock = Nobody /\ docLock' = t /\ th' = [th EXCEPT ![t] = a]
          /\ UNCHANGED <<registry, backup, original, edited>>
          /\ registry.version \in {"none", "v1", "v2"}
      BY <1>1, <2>0 DEF OpenDocument, Serve, Supported
    <2>2. RegistryInv'
      BY <2>1 DEF MigrationInv, RegistryInv, MigrationLosesNothing,
                  UnreadableRegistryKept
    <2>3. /\ a.edit \in Edits /\ a.doc = registry.sources
          /\ a.at = "default" => registry.version = "none"
          /\ a.at = "copyAside" => registry.version = "v1"
          /\ a.at = "edit" => registry.version = "v2"
          /\ a.at # "migrate"
      BY <2>0, <2>1 DEF Access, NextStep
    <2>4. AccessOK(a)'  BY <2>1, <2>3 DEF AccessOK
    <2> QED  BY <2>1, <2>2, <2>4, OwnerMoves
  <1>2. ASSUME NEW ok \in BOOLEAN, WriteDefault(t, ok) PROVE MigrationInv'
    <2>1. docLock = t /\ registry.version = "none" /\ th[t].edit \in Edits
      BY <1>2 DEF MigrationInv, AccessOK, WriteDefault
    <2>2. CASE ok
      <3>0. PICK a : a = Access("edit", th[t].edit, DefaultSources)
        OBVIOUS
      <3>1. /\ docLock' = t /\ th' = [th EXCEPT ![t] = a]
            /\ registry' = V2(DefaultSources) /\ UNCHANGED <<backup, original, edited>>
        BY <1>2, <2>1, <2>2, <3>0 DEF WriteDefault, Goto
      <3>2. edited' = DefaultSources
        BY <2>1, <3>1 DEF MigrationInv, RegistryInv
      <3>3. RegistryInv'
        BY <2>1, <3>1, <3>2, Replaced, ListsOK DEF MigrationInv
      <3>4. AccessOK(a)'
        BY <2>1, <3>0, <3>1 DEF AccessOK, Access, V2
      <3> QED  BY <2>1, <3>1, <3>3, <3>4, OwnerMoves
    <2>3. CASE ~ok
      BY <1>2, <2>1, <2>3, RaiseSafe DEF WriteDefault
    <2> QED  BY <2>2, <2>3
  <1>3. ASSUME NEW ok \in BOOLEAN, CopyAside(t, ok) PROVE MigrationInv'
    <2>1. /\ docLock = t /\ registry.version = "v1" /\ th[t].edit \in Edits
          /\ th[t].doc = registry.sources
      BY <1>3 DEF MigrationInv, AccessOK, CopyAside
    <2>2. CASE ok
      <3>0. PICK a : a = Access("migrate", th[t].edit, th[t].doc)
        OBVIOUS
      <3>1. /\ docLock' = t /\ th' = [th EXCEPT ![t] = a]
            /\ UNCHANGED <<registry, original, edited>>
            /\ backup' = IF backup.version = "none"
                         THEN [version |-> "v1", sources |-> th[t].doc] ELSE backup
        BY <1>3, <2>1, <2>2, <3>0 DEF CopyAside, Goto
      <3>2. registry = [version |-> "v1", sources |-> registry.sources]
        BY <2>1 DEF MigrationInv, RegistryInv, Registry
      <3>3. backup' = original
        BY <2>1, <3>1, <3>2 DEF MigrationInv, RegistryInv
      <3>4. RegistryInv'
        BY <2>1, <3>1, <3>3 DEF MigrationInv, RegistryInv, MigrationLosesNothing,
                                UnreadableRegistryKept
      <3>5. AccessOK(a)'
        BY <2>1, <3>0, <3>1, <3>3 DEF AccessOK, Access
      <3> QED  BY <2>1, <3>1, <3>4, <3>5, OwnerMoves
    <2>3. CASE ~ok
      BY <1>3, <2>1, <2>3, RaiseSafe DEF CopyAside
    <2> QED  BY <2>2, <2>3
  <1>4. ASSUME NEW ok \in BOOLEAN, Migrate(t, ok) PROVE MigrationInv'
    <2>1. /\ docLock = t /\ registry.version = "v1" /\ th[t].edit \in Edits
          /\ th[t].doc = registry.sources /\ backup = original
      BY <1>4 DEF MigrationInv, AccessOK, Migrate
    <2>2. CASE ok
      <3>a. PICK s : s = Migrated(th[t].doc)
        OBVIOUS
      <3>0. PICK a : a = Access("edit", th[t].edit, s)
        OBVIOUS
      <3>1. /\ docLock' = t /\ th' = [th EXCEPT ![t] = a]
            /\ registry' = V2(s) /\ UNCHANGED <<backup, original, edited>>
        BY <1>4, <2>1, <2>2, <3>a, <3>0 DEF Migrate, Goto
      <3>2. edited' = s
        BY <2>1, <3>a, <3>1 DEF MigrationInv, RegistryInv
      <3>3. s \in Lists
        BY <2>1, <3>a, ListsOK DEF MigrationInv, RegistryInv, Registry
      <3>4. AccessOK(a)'
        BY <2>1, <3>0, <3>1 DEF AccessOK, Access, V2
      <3>5. RegistryInv'
        BY <2>1, <3>1, <3>2, <3>3, Replaced DEF MigrationInv
      <3> QED  BY <2>1, <3>1, <3>4, <3>5, OwnerMoves
    <2>3. CASE ~ok
      BY <1>4, <2>1, <2>3, RaiseSafe DEF Migrate
    <2> QED  BY <2>2, <2>3
  <1>5. ASSUME NEW ok \in BOOLEAN, EditDocument(t, ok) PROVE MigrationInv'
    <2>1. /\ docLock = t /\ registry.version = "v2" /\ th[t].edit \in Edits
          /\ th[t].doc = registry.sources /\ Accepted(th[t].edit, th[t].doc)
      BY <1>5 DEF MigrationInv, AccessOK, EditDocument
    <2>2. docLock' = Nobody /\ th' = [th EXCEPT ![t] = Idle]
          /\ UNCHANGED <<backup, original>>
      BY <1>5 DEF EditDocument, Return, Goto
    <2>3. edited = registry.sources
      BY <2>1 DEF MigrationInv, RegistryInv, MigrationLosesNothing
    <2>4. RegistryInv'
      <3>1. CASE ok
        <4> DEFINE s == Applied(th[t].edit, th[t].doc)
        <4>1. registry' = V2(s) /\ edited' = s
          BY <1>5, <2>1, <2>3, <3>1 DEF EditDocument
        <4>2. s \in Lists
          BY <2>1, <2>3, AppliedOK DEF MigrationInv, RegistryInv
        <4> HIDE DEF s
        <4> QED  BY <2>1, <2>2, <4>1, <4>2, Replaced DEF MigrationInv
      <3>2. CASE ~ok
        BY <1>5, <2>2, <3>2 DEF EditDocument, MigrationInv, RegistryInv,
           MigrationLosesNothing, UnreadableRegistryKept
      <3> QED  BY <3>1, <3>2
    <2>5. AccessOK(Idle)' /\ Idle.at \notin DocLabels
      BY DEF AccessOK, Idle
    <2> QED  BY <2>1, <2>2, <2>4, <2>5, OwnerMoves
  <1>6. CASE LeaveDocument(t)
    BY <1>6, RaiseSafe DEF LeaveDocument, MigrationInv
  <1> QED  BY <1>1, <1>2, <1>3, <1>4, <1>5, <1>6 DEF MigrationStep

LEMMA MigrationPreserved ==
    ASSUME MigrationInv, [Next]_storesVars
    PROVE  MigrationInv'
  <1>0. Rest' /\ ThreadsKnown
    BY RestPreserved DEF MigrationInv, Rest
  <1>1. ASSUME UNCHANGED <<th, migrationVars>> PROVE MigrationInv'
    BY <1>0, <1>1 DEF MigrationInv, AccessOK, RegistryInv, MigrationLosesNothing,
                      UnreadableRegistryKept, migrationVars
  <1>2. CASE UNCHANGED storesVars
    BY <1>1, <1>2 DEF storesVars, threadVars
  <1>3. ASSUME NEW o \in BOOLEAN, NEW ok \in BOOLEAN, Start(o, ok) PROVE MigrationInv'
    BY <1>1, <1>3 DEF Start, Boot
  <1>4. CASE Crash
    <2>1. \A t \in Threads : th'[t] = Idle
      BY <1>4, DieFrame DEF Crash
    <2>2. RegistryInv'
      BY <1>4 DEF Crash, LoseDocLock, MigrationInv, RegistryInv,
                  MigrationLosesNothing, UnreadableRegistryKept
    <2> QED  BY <1>0, <2>1, <2>2 DEF MigrationInv, AccessOK, Idle, DocLabels
  <1>5. ASSUME NEW t \in Threads, SettingsStep(t), UNCHANGED migrationVars
        PROVE  MigrationInv'
    BY <1>0, <1>5, MigrationElsewhere
       DEF SettingsStep, ReadSettings, SaveSettings, Serve, Return, Goto, Idle, DocLabels
  <1>6. ASSUME NEW t \in Threads, StatsStep(t), UNCHANGED migrationVars
        PROVE  MigrationInv'
    BY <1>0, <1>6, MigrationElsewhere
       DEF StatsStep, Update, OpenStats, WriteStats, Serve, Return, Goto, Idle, DocLabels
  <1>7. ASSUME NEW t \in Threads, MigrationStep(t) PROVE MigrationInv'
    BY <1>0, <1>7, MigrationStepSafe
  <1> QED  BY <1>2, <1>3, <1>4, <1>5, <1>6, <1>7 DEF Next

\* MigrationLosesNothing (_migrate_v1, _with_document): the copy of the old
\* list precedes its replacement, and no crash, failure or interleaving of
\* accesses loses a source or an acknowledged edit.
THEOREM MigrationLosesNothingCorrect == Spec => []MigrationLosesNothing
  <1>1. MigrationInv /\ [Next]_storesVars => MigrationInv'
    BY MigrationPreserved
  <1>2. MigrationInv => MigrationLosesNothing
    BY DEF MigrationInv, RegistryInv
  <1> QED  BY <1>1, <1>2, MigrationStarts, PTL DEF Spec

\* UnreadableRegistryKept (_read_locked lines 124-138): a corrupt document or
\* one of a later version stays as the first start found it.
THEOREM UnreadableRegistryKeptCorrect == Spec => []UnreadableRegistryKept
  <1>1. MigrationInv /\ [Next]_storesVars => MigrationInv'
    BY MigrationPreserved
  <1>2. MigrationInv => UnreadableRegistryKept
    BY DEF MigrationInv, RegistryInv
  <1> QED  BY <1>1, <1>2, MigrationStarts, PTL DEF Spec

-----------------------------------------------------------------------------
(* Settings.                                                               *)

\* What a set of settings under current names holds for a setting.
Holds(s, k, v) ==
    k \in DOMAIN s /\ (s[k] = v \/ (k = Endpoint /\ Canonical[s[k]] = Canonical[v]))

Sound(s) == File(s) \in Document /\ Readable(File(s))

LEMMA Union ==
    ASSUME NEW f, NEW g
    PROVE  /\ DOMAIN (Over(f, g)) = DOMAIN f \cup DOMAIN g
           /\ \A k \in DOMAIN f : (Over(f, g))[k] = f[k]
           /\ \A k \in DOMAIN g : k \notin DOMAIN f => (Over(f, g))[k] = g[k]
  BY DEF Over

LEMMA NothingEmpty == DOMAIN Nothing = {} /\ Nothing \in [{} -> Values]
  BY DEF Nothing

\* The settings of a document are a function on some of the keys.
LEMMA DocumentShape ==
    ASSUME NEW s
    PROVE  File(s) \in Document <=>
              DOMAIN s \subseteq Keys /\ s \in [DOMAIN s -> Values]
  <1>1. Nothing \in UNION {[K -> Values] : K \in SUBSET Legacy}
    BY NothingEmpty
  <1>2. s \in UNION {[K -> Values] : K \in SUBSET Keys}
            <=> DOMAIN s \subseteq Keys /\ s \in [DOMAIN s -> Values]
    OBVIOUS
  <1> QED  BY <1>1, <1>2 DEF File, Document

LEMMA FileRenamed ==
    ASSUME NEW s, s \in [DOMAIN s -> Values]
    PROVE  Renamed(File(s)) = s
  BY Union, NothingEmpty DEF Renamed, File, Over

LEMMA MeansFile ==
    ASSUME NEW s, NEW k, NEW v
    PROVE  Means(File(s), k, v) <=> Holds(s, k, v)
  BY NothingEmpty DEF Means, Holds, File

LEMMA RenamedShape ==
    ASSUME NEW d \in Document
    PROVE  /\ DOMAIN Renamed(d) = DOMAIN d.current \cup DOMAIN d.legacy
           /\ DOMAIN Renamed(d) \subseteq Keys
           /\ \A k \in DOMAIN d.current : Renamed(d)[k] = d.current[k]
           /\ \A k \in DOMAIN d.legacy :
                 k \notin DOMAIN d.current => Renamed(d)[k] = d.legacy[k]
           /\ \A k \in DOMAIN Renamed(d) : Renamed(d)[k] \in Values
  <1>1. /\ DOMAIN d.current \subseteq Keys /\ DOMAIN d.legacy \subseteq Keys
        /\ \A k \in DOMAIN d.current : d.current[k] \in Values
        /\ \A k \in DOMAIN d.legacy : d.legacy[k] \in Values
    BY SettingsAssumption DEF Document
  <1>2. /\ DOMAIN Renamed(d) = DOMAIN d.current \cup DOMAIN d.legacy
        /\ \A k \in DOMAIN d.current : Renamed(d)[k] = d.current[k]
        /\ \A k \in DOMAIN d.legacy :
              k \notin DOMAIN d.current => Renamed(d)[k] = d.legacy[k]
    BY Union DEF Renamed
  <1> QED  BY <1>1, <1>2

\* _normalize() yields a document it leaves alone, with the same meaning.
LEMMA NormalizeSound ==
    ASSUME NEW d \in Document, Readable(d)
    PROVE  /\ Sound(Normalize(d))
           /\ \A k, v : Means(d, k, v) => Holds(Normalize(d), k, v)
  <1> DEFINE r == Renamed(d)
             n == Normalize(d)
  <1>1. /\ DOMAIN r \subseteq Keys /\ \A k \in DOMAIN r : r[k] \in Values
        /\ Endpoint \in DOMAIN r => Canonical[r[Endpoint]] # Invalid
    BY RenamedShape DEF Readable
  <1>2. n = [k \in DOMAIN r |-> IF k = Endpoint THEN Canonical[r[k]] ELSE r[k]]
    BY DEF Normalize
  <1>3. \A v \in Values : Canonical[v] # Invalid => Canonical[v] \in Values
    BY SettingsAssumption
  <1>4. DOMAIN n = DOMAIN r /\ n \in [DOMAIN n -> Values]
    BY <1>1, <1>2, <1>3
  <1>5. File(n) \in Document
    BY <1>1, <1>4, DocumentShape
  <1>6. Endpoint \in DOMAIN n => Canonical[n[Endpoint]] = Canonical[r[Endpoint]]
    BY <1>1, <1>2, <1>4, SettingsAssumption
  <1>7. Renamed(File(n)) = n
    BY <1>4, FileRenamed
  <1>8. Readable(File(n))
    BY <1>1, <1>4, <1>6, <1>7 DEF Readable
  <1>9. ASSUME NEW k, NEW v, Means(d, k, v) PROVE Holds(n, k, v)
    <2>1. k \in DOMAIN r /\ (r[k] = v \/ (k = Endpoint /\ Canonical[r[k]] = Canonical[v]))
      BY <1>9, RenamedShape DEF Means
    <2>2. k # Endpoint => n[k] = r[k]
      BY <1>2, <2>1
    <2> HIDE DEF n, r
    <2> QED  BY <1>4, <1>6, <2>1, <2>2 DEF Holds
  <1> QED  BY <1>5, <1>8, <1>9 DEF Sound

LEMMA MergedSound ==
    ASSUME NEW base, NEW new, Sound(base), Sound(new)
    PROVE  /\ Sound(Merged(base, new))
           /\ \A k \in DOMAIN new : Merged(base, new)[k] = new[k]
           /\ \A k, v : k \notin DOMAIN new /\ Holds(base, k, v)
                           => Holds(Merged(base, new), k, v)
           /\ DOMAIN new \subseteq DOMAIN Merged(base, new)
  <1> DEFINE m == Merged(base, new)
  <1>1. /\ DOMAIN m = DOMAIN new \cup DOMAIN base
        /\ \A k \in DOMAIN new : m[k] = new[k]
        /\ \A k \in DOMAIN base : k \notin DOMAIN new => m[k] = base[k]
    BY Union DEF Merged
  <1>2. m = [k \in DOMAIN m |-> m[k]]
    BY DEF Merged, Over
  <1> HIDE DEF m
  <1>3. /\ DOMAIN new \subseteq Keys /\ new \in [DOMAIN new -> Values]
        /\ DOMAIN base \subseteq Keys /\ base \in [DOMAIN base -> Values]
    BY DocumentShape DEF Sound
  <1>4. DOMAIN m \subseteq Keys /\ m \in [DOMAIN m -> Values]
    BY <1>1, <1>2, <1>3
  <1>5. Renamed(File(m)) = m /\ Renamed(File(new)) = new /\ Renamed(File(base)) = base
    BY <1>3, <1>4, FileRenamed
  <1>6. Readable(File(m))
    BY <1>1, <1>5 DEF Readable, Sound
  <1>7. Sound(m)
    BY <1>4, <1>6, DocumentShape DEF Sound
  <1>8. \A k, v : k \notin DOMAIN new /\ Holds(base, k, v) => Holds(m, k, v)
    BY <1>1 DEF Holds
  <1> QED  BY <1>1, <1>7, <1>8 DEF m

\* A save under way holds sound settings; unless its read failed, they are those
\* of the file for every setting that no request has carried.
SaveOK(r) ==
    /\ Sound(r.base) /\ Sound(r.new)
    /\ r.blind \/ settings = NoFile \/ Readable(settings)
    /\ r.blind \/ asked.blind \/
          \A k \in DOMAIN asked.value \ asked.keys : Holds(r.base, k, asked.value[k])

SettingsInv ==
    /\ Rest
    /\ settings \in Document \cup {NoFile}
    /\ settings = NoFile => DOMAIN asked.value = {}
    /\ asked = [value |-> asked.value, keys |-> asked.keys,
                blind |-> asked.blind, overtaken |-> asked.overtaken]
    /\ \A t \in Threads : th[t].at = "saveSettings" => SaveOK(th[t])
    /\ UntouchedSettingsKept
    /\ SerialSavesKept

LEMMA SettingsStarts ==
    Init => SettingsInv
  <1> SUFFICES ASSUME Init PROVE SettingsInv
    OBVIOUS
  <1>1. \A t \in Threads : th[t] = Idle
    BY DEF Init, ThreadsInit
  <1>2. /\ settings \in Document \cup {NoFile}
        /\ asked.value = IF settings = NoFile THEN Nothing
                         ELSE Over(settings.current, settings.legacy)
    BY SettingsAssumption DEF Init, SettingsInit
  <1>3. settings # NoFile =>
            \A k \in DOMAIN asked.value : Means(settings, k, asked.value[k])
    <2> SUFFICES ASSUME settings # NoFile
                 PROVE  \A k \in DOMAIN asked.value : Means(settings, k, asked.value[k])
      OBVIOUS
    <2>1. PICK c, l : c = settings.current /\ l = settings.legacy
      OBVIOUS
    <2>2. asked.value = Over(c, l)
      BY <1>2, <2>1
    <2>3. DOMAIN asked.value = DOMAIN c \cup DOMAIN l
      BY <2>2, Union
    <2>4. \A k \in DOMAIN asked.value :
             asked.value[k] = IF k \in DOMAIN c THEN c[k] ELSE l[k]
      BY <2>2, <2>3 DEF Over
    <2>5. ASSUME NEW k \in DOMAIN asked.value PROVE Means(settings, k, asked.value[k])
      <3>1. PICK v : v = asked.value[k]  OBVIOUS
      <3>2. k \in DOMAIN c \cup DOMAIN l /\ v = IF k \in DOMAIN c THEN c[k] ELSE l[k]
        BY <2>3, <2>4, <2>5, <3>1
      <3>3. Means(settings, k, v)
        BY <2>1, <3>2 DEF Means
      <3> QED  BY <3>1, <3>3
    <2> QED  BY <2>5
  <1>4. asked = [value |-> asked.value, keys |-> asked.keys,
                 blind |-> asked.blind, overtaken |-> asked.overtaken]
    BY DEF Init, SettingsInit
  <1> QED  BY <1>1, <1>2, <1>3, <1>4, RestStarts, NothingEmpty
           DEF SettingsInv, UntouchedSettingsKept, SerialSavesKept, Idle

\* A step that moves a thread outside the settings.
LEMMA SettingsElsewhere ==
    ASSUME SettingsInv, Rest', NEW t \in Threads, NEW step,
           step.at # "saveSettings", th' = [th EXCEPT ![t] = step],
           UNCHANGED settingsVars
    PROVE  SettingsInv'
  <1>1. th'[t] = step /\ \A u \in Threads : u # t => th'[u] = th[u]
    BY GotoFrame DEF SettingsInv, Rest
  <1>2. settings' = settings /\ asked' = asked
    BY DEF settingsVars
  <1>3. \A u \in Threads : th'[u].at = "saveSettings" => SaveOK(th[u])'
    BY <1>1, <1>2 DEF SettingsInv, SaveOK
  <1> QED  BY <1>2, <1>3 DEF SettingsInv, UntouchedSettingsKept, SerialSavesKept

LEMMA ReadSafe ==
    ASSUME SettingsInv, Rest', NEW t \in Threads, NEW new \in Updates,
           NEW ok \in BOOLEAN, ReadSettings(t, new, ok)
    PROVE  SettingsInv'
  <1>0. PICK r : r = [at |-> "saveSettings", new |-> Normalize(new),
                      base |-> IF ok THEN GetAll ELSE Nothing,
                      blind |-> settings # NoFile /\ (~ok \/ ~Readable(settings))]
    OBVIOUS
  <1>1. /\ th' = [th EXCEPT ![t] = r] /\ Readable(new)
        /\ settings' = settings /\ asked' = asked
    BY <1>0 DEF ReadSettings, Serve, settingsVars
  <1>2. th'[t] = r /\ \A u \in Threads : u # t => th'[u] = th[u]
    BY <1>1, GotoFrame DEF SettingsInv, Rest
  <1>3. Sound(Nothing)
    <2>1. File(Nothing) \in Document
      BY DocumentShape, NothingEmpty
    <2>2. Renamed(File(Nothing)) = Nothing
      BY FileRenamed, NothingEmpty
    <2> QED  BY <2>1, <2>2, NothingEmpty DEF Sound, Readable
  <1>4. settings # NoFile /\ Readable(settings) => Sound(Normalize(settings))
    BY NormalizeSound DEF SettingsInv
  <1>5. Sound(r.base)
    BY <1>0, <1>3, <1>4 DEF GetAll
  <1>6. Sound(r.new)
    BY <1>0, <1>1, NormalizeSound, SettingsAssumption
  <1>7. r.blind \/ settings = NoFile \/ (ok /\ Readable(settings) /\ r.base = Normalize(settings))
    BY <1>0 DEF GetAll
  <1>8. r.blind \/ asked.blind \/
          \A k \in DOMAIN asked.value \ asked.keys : Holds(r.base, k, asked.value[k])
    <2>1. CASE settings = NoFile
      BY <2>1 DEF SettingsInv
    <2>2. CASE settings # NoFile /\ Readable(settings) /\ r.base = Normalize(settings)
      BY <2>2, NormalizeSound DEF SettingsInv, UntouchedSettingsKept
    <2> QED  BY <1>7, <2>1, <2>2
  <1>9. SaveOK(r)
    BY <1>5, <1>6, <1>7, <1>8 DEF SaveOK
  <1>10. \A u \in Threads : th'[u].at = "saveSettings" => SaveOK(th[u])'
    BY <1>1, <1>2, <1>9 DEF SettingsInv, SaveOK
  <1> QED  BY <1>1, <1>10 DEF SettingsInv, UntouchedSettingsKept, SerialSavesKept

LEMMA SaveSafe ==
    ASSUME SettingsInv, Rest', NEW t \in Threads, SaveSettings(t, TRUE)
    PROVE  SettingsInv'
  <1>0. PICK b, n, blind : b = th[t].base /\ n = th[t].new /\ blind = th[t].blind
    OBVIOUS
  <1>1. PICK m : m = Merged(b, n)
    OBVIOUS
  <1>2. /\ th' = [th EXCEPT ![t] = Idle]
        /\ settings' = File(m)
        /\ asked' = [value |-> Over(n, asked.value),
                     keys |-> asked.keys \cup DOMAIN n,
                     blind |-> asked.blind \/ blind,
                     overtaken |-> asked.overtaken \/ b # GetAll]
    BY <1>0, <1>1 DEF SaveSettings, Return, Goto
  <1>3. th'[t] = Idle /\ \A u \in Threads : u # t => th'[u] = th[u]
    BY <1>2, GotoFrame DEF SettingsInv, Rest
  <1>4. /\ Sound(b) /\ Sound(n)
        /\ blind \/ settings = NoFile \/ Readable(settings)
        /\ blind \/ asked.blind \/
              \A k \in DOMAIN asked.value \ asked.keys : Holds(b, k, asked.value[k])
    BY <1>0 DEF SaveSettings, SettingsInv, SaveOK
  <1>5. /\ Sound(m) /\ DOMAIN n \subseteq DOMAIN m
        /\ \A k \in DOMAIN n : m[k] = n[k]
        /\ \A k, v : k \notin DOMAIN n /\ Holds(b, k, v) => Holds(m, k, v)
    BY <1>1, <1>4, MergedSound
  <1>6. /\ DOMAIN asked'.value = DOMAIN n \cup DOMAIN asked.value
        /\ \A k \in DOMAIN n : asked'.value[k] = n[k]
        /\ \A k \in DOMAIN asked.value : k \notin DOMAIN n =>
              asked'.value[k] = asked.value[k]
        /\ asked'.keys = asked.keys \cup DOMAIN n
        /\ asked'.blind = (asked.blind \/ blind)
        /\ asked'.overtaken = (asked.overtaken \/ b # GetAll)
    <2>1. PICK v : v = Over(n, asked.value)  OBVIOUS
    <2>2. PICK bl, ov : /\ bl = (asked.blind \/ blind)
                        /\ ov = (asked.overtaken \/ b # GetAll)
      OBVIOUS
    <2>3. asked' = [value |-> v, keys |-> asked.keys \cup DOMAIN n,
                    blind |-> bl, overtaken |-> ov]
      BY <1>2, <2>1, <2>2
    <2>4. /\ asked'.value = v /\ asked'.keys = asked.keys \cup DOMAIN n
          /\ asked'.blind = bl /\ asked'.overtaken = ov
      BY <2>3
    <2>5. /\ asked'.blind = (asked.blind \/ blind)
          /\ asked'.overtaken = (asked.overtaken \/ b # GetAll)
      BY <2>2, <2>4, Zenon
    <2>6. /\ DOMAIN v = DOMAIN n \cup DOMAIN asked.value
          /\ \A k \in DOMAIN n : v[k] = n[k]
          /\ \A k \in DOMAIN asked.value : k \notin DOMAIN n => v[k] = asked.value[k]
      BY <2>1 DEF Over
    <2>7. /\ DOMAIN asked'.value = DOMAIN n \cup DOMAIN asked.value
          /\ \A k \in DOMAIN n : asked'.value[k] = n[k]
          /\ \A k \in DOMAIN asked.value : k \notin DOMAIN n =>
                asked'.value[k] = asked.value[k]
          /\ asked'.keys = asked.keys \cup DOMAIN n
      BY <2>4, <2>6
    <2> QED  BY <2>5, <2>7, Zenon
  <1>7. File(m) \in Document /\ Readable(File(m)) /\ File(m) # NoFile
    BY <1>5, SettingsAssumption DEF Sound
  <1>8. ~asked'.blind => \A k \in DOMAIN asked'.value \ asked'.keys :
                            Holds(m, k, asked'.value[k])
    BY <1>4, <1>5, <1>6
  <1>9. UntouchedSettingsKept'
    BY <1>2, <1>8, MeansFile DEF UntouchedSettingsKept
  <1>10. ~asked'.blind /\ ~asked'.overtaken =>
            \A k \in DOMAIN asked'.value : Holds(m, k, asked'.value[k])
    <2> SUFFICES ASSUME ~asked'.blind, ~asked'.overtaken, NEW k \in DOMAIN asked'.value
                 PROVE  Holds(m, k, asked'.value[k])
      OBVIOUS
    <2>1. CASE k \in DOMAIN n
      BY <1>5, <1>6, <2>1 DEF Holds
    <2>2. CASE k \notin DOMAIN n
      <3>1. settings # NoFile /\ Readable(settings) /\ k \in DOMAIN asked.value
        BY <1>4, <1>6, <2>2 DEF SettingsInv
      <3>2. b = Normalize(settings)
        BY <1>6, <3>1 DEF GetAll
      <3>3. Means(settings, k, asked.value[k])
        BY <1>6, <3>1 DEF SettingsInv, SerialSavesKept
      <3>4. Holds(b, k, asked.value[k])
        BY <3>1, <3>2, <3>3, NormalizeSound DEF SettingsInv
      <3> QED  BY <1>5, <1>6, <2>2, <3>1, <3>4
    <2> QED  BY <2>1, <2>2
  <1>11. SerialSavesKept'
    BY <1>2, <1>10, MeansFile DEF SerialSavesKept
  <1>12. ASSUME NEW u \in Threads, th'[u].at = "saveSettings" PROVE SaveOK(th[u])'
    <2>1. u # t /\ th'[u] = th[u]  BY <1>3, <1>12 DEF Idle
    <2>2. SaveOK(th[u])  BY <1>12, <2>1 DEF SettingsInv
    <2> QED  BY <1>2, <1>6, <1>7, <2>1, <2>2 DEF SaveOK
  <1> QED  BY <1>2, <1>7, <1>9, <1>11, <1>12 DEF SettingsInv

LEMMA StartSafe ==
    ASSUME SettingsInv, Rest', NEW ok \in BOOLEAN, NEW o \in BOOLEAN, Start(ok, o)
    PROVE  SettingsInv'
  <1>1. th' = th /\ \A t \in Threads : th[t] = Idle
    BY DEF Start, Boot, SettingsInv, Rest
  <1>2. \A u \in Threads : th'[u].at # "saveSettings"
    BY <1>1 DEF Idle
  <1>3. CASE UNCHANGED settingsVars
    BY <1>2, <1>3 DEF SettingsInv, UntouchedSettingsKept, SerialSavesKept, settingsVars
  <1>4. ASSUME NEW d \in Document, Readable(d),
               settings' = File(Normalize(d)),
               asked' = [value |-> asked'.value, keys |-> asked'.keys,
                         blind |-> asked'.blind, overtaken |-> asked'.overtaken],
               \A k \in DOMAIN asked'.value :
                  (~asked'.blind /\ (k \notin asked'.keys \/ ~asked'.overtaken)) =>
                      Means(d, k, asked'.value[k])
        PROVE  SettingsInv'
    <2>1. File(Normalize(d)) \in Document /\ File(Normalize(d)) # NoFile
      BY <1>4, NormalizeSound, SettingsAssumption DEF Sound
    <2>2. \A k \in DOMAIN asked'.value :
             (~asked'.blind /\ (k \notin asked'.keys \/ ~asked'.overtaken)) =>
                 Means(File(Normalize(d)), k, asked'.value[k])
      BY <1>4, NormalizeSound, MeansFile
    <2> QED  BY <1>2, <1>4, <2>1, <2>2
             DEF SettingsInv, UntouchedSettingsKept, SerialSavesKept
  <1>5. CASE ok /\ settings = NoFile
    <2>0. asked' = [asked EXCEPT !.value = Defaults]
      BY <1>5 DEF Start, StartSettings
    <2>1. /\ settings' = File(Normalize(File(Defaults))) /\ asked'.value = Defaults
          /\ asked' = [value |-> asked'.value, keys |-> asked'.keys,
                       blind |-> asked'.blind, overtaken |-> asked'.overtaken]
      BY <1>5, <2>0 DEF Start, StartSettings, SettingsInv
    <2>2. Defaults \in [DOMAIN Defaults -> Values] /\ DOMAIN Defaults = Keys
      BY SettingsAssumption
    <2>3. File(Defaults) \in Document /\ Readable(File(Defaults))
      BY <2>2, DocumentShape, FileRenamed, SettingsAssumption DEF Readable
    <2>4. \A k \in DOMAIN Defaults : Means(File(Defaults), k, Defaults[k])
      BY MeansFile DEF Holds
    <2> QED  BY <1>4, <2>1, <2>3, <2>4
  <1>6. CASE ok /\ settings # NoFile /\ Readable(settings)
    <2>1. settings' = File(Normalize(settings)) /\ asked' = asked
      BY <1>6 DEF Start, StartSettings
    <2>2. \A k \in DOMAIN asked'.value :
             (~asked'.blind /\ (k \notin asked'.keys \/ ~asked'.overtaken)) =>
                 Means(settings, k, asked'.value[k])
      BY <1>6, <2>1 DEF SettingsInv, UntouchedSettingsKept, SerialSavesKept
    <2>3. PICK d : d = settings  OBVIOUS
    <2>4. /\ d \in Document /\ Readable(d) /\ settings' = File(Normalize(d))
          /\ \A k \in DOMAIN asked'.value :
             (~asked'.blind /\ (k \notin asked'.keys \/ ~asked'.overtaken)) =>
                 Means(d, k, asked'.value[k])
      BY <1>6, <2>1, <2>2, <2>3 DEF SettingsInv
    <2>5. asked' = [value |-> asked'.value, keys |-> asked'.keys,
                    blind |-> asked'.blind, overtaken |-> asked'.overtaken]
      BY <2>1 DEF SettingsInv
    <2> QED  BY <1>4, <2>4, <2>5
  <1>7. UNCHANGED settingsVars \/ (ok /\ settings = NoFile)
            \/ (ok /\ settings # NoFile /\ Readable(settings))
    BY DEF Start, StartSettings, settingsVars
  <1> QED  BY <1>3, <1>5, <1>6, <1>7

LEMMA SettingsPreserved ==
    ASSUME SettingsInv, [Next]_storesVars
    PROVE  SettingsInv'
  <1>0. Rest' /\ ThreadsKnown
    BY RestPreserved DEF SettingsInv, Rest
  <1>1. CASE UNCHANGED storesVars
    BY <1>0, <1>1 DEF storesVars, threadVars, settingsVars, SettingsInv, SaveOK,
                      UntouchedSettingsKept, SerialSavesKept
  <1>2. ASSUME NEW o \in BOOLEAN, NEW ok \in BOOLEAN, Start(o, ok) PROVE SettingsInv'
    BY <1>0, <1>2, StartSafe
  <1>3. CASE Crash
    <2>1. \A t \in Threads : th'[t] = Idle
      BY <1>3, DieFrame DEF Crash
    <2> QED  BY <1>0, <1>3, <2>1 DEF Crash, settingsVars, SettingsInv, Idle,
                      UntouchedSettingsKept, SerialSavesKept
  <1>4. ASSUME NEW t \in Threads, SettingsStep(t) PROVE SettingsInv'
    <2>1. ASSUME NEW new \in Updates, NEW ok \in BOOLEAN, ReadSettings(t, new, ok)
          PROVE  SettingsInv'
      BY <1>0, <2>1, ReadSafe
    <2>2. CASE SaveSettings(t, TRUE)
      BY <1>0, <2>2, SaveSafe
    <2>3. CASE SaveSettings(t, FALSE)
      BY <1>0, <2>3, SettingsElsewhere DEF SaveSettings, Return, Goto, Idle
    <2> QED  BY <1>4, <2>1, <2>2, <2>3 DEF SettingsStep
  <1>5. ASSUME NEW t \in Threads, StatsStep(t), UNCHANGED settingsVars
        PROVE  SettingsInv'
    BY <1>0, <1>5, SettingsElsewhere
       DEF StatsStep, Update, OpenStats, WriteStats, Serve, Return, Goto, Idle
  <1>6. ASSUME NEW t \in Threads, MigrationStep(t), UNCHANGED settingsVars
        PROVE  SettingsInv'
    <2> QED  BY <1>0, <1>6, MigrationMoves, SettingsElsewhere DEF Moves, DocLabels
  <1> QED  BY <1>1, <1>2, <1>3, <1>4, <1>5, <1>6 DEF Next

\* UntouchedSettingsKept (_normalize, save): neither renaming nor a save of
\* other settings, however they overlap or fail, changes a setting.
THEOREM UntouchedSettingsKeptCorrect == Spec => []UntouchedSettingsKept
  <1>1. SettingsInv /\ [Next]_storesVars => SettingsInv'
    BY SettingsPreserved
  <1>2. SettingsInv => UntouchedSettingsKept
    BY DEF SettingsInv
  <1> QED  BY <1>1, <1>2, SettingsStarts, PTL DEF Spec

\* SerialSavesKept (save): saves that do not overtake each other all last.
THEOREM SerialSavesKeptCorrect == Spec => []SerialSavesKept
  <1>1. SettingsInv /\ [Next]_storesVars => SettingsInv'
    BY SettingsPreserved
  <1>2. SettingsInv => SerialSavesKept
    BY DEF SettingsInv
  <1> QED  BY <1>1, <1>2, SettingsStarts, PTL DEF Spec

-----------------------------------------------------------------------------
(* Types.                                                                  *)

CountersOK(s) == DOMAIN s \subseteq Channels /\ \A c \in DOMAIN s : s[c] \in Entry

BoundsInv ==
    /\ up \in BOOLEAN
    /\ calls \in 0..MaxCalls
    /\ faults \in 0..MaxFaults
    /\ docLock \in Threads \cup {Nobody}
    /\ StatsTypeOK

LEMMA UnratedOK == CountersOK(Unrated)
  BY DEF CountersOK, Unrated

LEMMA CountedOK ==
    ASSUME NEW e \in Entry, NEW event \in {"success", "like", "dislike"}
    PROVE  Counted(e, event) \in Entry
  <1>1. e.successes \in Nat /\ e.votes \in Int /\ e.count \in Nat
    BY DEF Entry
  <1>2. PICK s \in Nat, n \in Nat : s = e.successes + 1 /\ n = e.count + 1
    BY <1>1
  <1>3. PICK v \in Int, w \in Int : v = e.votes + 1 /\ w = e.votes - 1
    BY <1>1
  <1>4. /\ [e EXCEPT !.successes = s] \in Entry
        /\ [e EXCEPT !.votes = v, !.count = n] \in Entry
        /\ [e EXCEPT !.votes = w, !.count = n] \in Entry
    BY DEF Entry
  <1>5. Counted(e, event) \in {[e EXCEPT !.successes = s],
                               [e EXCEPT !.votes = v, !.count = n],
                               [e EXCEPT !.votes = w, !.count = n]}
    BY <1>2, <1>3 DEF Counted
  <1> QED  BY <1>4, <1>5

LEMMA AfterOK ==
    ASSUME NEW s, CountersOK(s), NEW c \in Channels,
           NEW event \in {"success", "like", "dislike"}
    PROVE  CountersOK(After(s, c, event))
  <1>1. EntryOf(s, c) \in Entry
    BY DEF EntryOf, CountersOK, New, Entry
  <1>2. PICK e : e = Counted(EntryOf(s, c), event) /\ e \in Entry
    BY <1>1, CountedOK
  <1>3. After(s, c, event) = Over([x \in {c} |-> e], s)
    BY <1>2 DEF After
  <1> QED  BY <1>2, <1>3 DEF CountersOK, Over

LEMMA StatsTyped ==
    StatsTypeOK <=> /\ CountersOK(stats) /\ CountersOK(statsFile)
                    /\ CountersOK(counted)
                    /\ statsLock \in Threads \cup {NoThread}
                    /\ {behind, lossy} \subseteq BOOLEAN
  BY DEF StatsTypeOK, CountersOK

LEMMA BoundsStart ==
    Init => BoundsInv
  <1> SUFFICES ASSUME Init PROVE BoundsInv
    OBVIOUS
  <1>1. /\ stats = Unrated /\ statsFile = Unrated /\ statsLock = NoThread
        /\ behind = FALSE /\ counted = Unrated /\ lossy = FALSE
    BY DEF Init, StatsInit
  <1>2. StatsTypeOK
    BY <1>1, UnratedOK, StatsTyped
  <1>3. up \in BOOLEAN /\ calls \in 0..MaxCalls /\ faults \in 0..MaxFaults
    <2>1. up = FALSE /\ calls = 0 /\ faults = 0
      BY DEF Init, ThreadsInit
    <2>2. calls \in 0..MaxCalls /\ faults \in 0..MaxFaults
      BY <2>1, ThreadsAssumption
    <2> QED  BY <2>1, <2>2
  <1>4. docLock \in Threads \cup {Nobody}
    BY DEF Init, MigrationInit
  <1> QED  BY <1>2, <1>3, <1>4 DEF BoundsInv

\* The counters of the process stay within their bounds in every step.
LEMMA CountersBounded ==
    ASSUME BoundsInv, [Next]_storesVars
    PROVE  up' \in BOOLEAN /\ calls' \in 0..MaxCalls /\ faults' \in 0..MaxFaults
  <1> USE ThreadsAssumption
  <1>1. up \in BOOLEAN /\ calls \in 0..MaxCalls /\ faults \in 0..MaxFaults
    BY DEF BoundsInv
  <1>2. ASSUME NEW ok, Works(ok) PROVE faults' \in 0..MaxFaults
    BY <1>1, <1>2 DEF Works
  <1>3. ASSUME NEW t \in Threads, NEW step, Goto(t, step) \/ Serve(t, step)
        PROVE  up' \in BOOLEAN /\ calls' \in 0..MaxCalls
    BY <1>1, <1>3 DEF Goto, Serve
  <1>4. CASE UNCHANGED storesVars
    BY <1>1, <1>4 DEF storesVars, threadVars
  <1>5. ASSUME NEW o \in BOOLEAN, NEW ok \in BOOLEAN, Start(o, ok)
        PROVE  up' \in BOOLEAN /\ calls' \in 0..MaxCalls /\ faults' \in 0..MaxFaults
    <2>1. Works(o /\ ok)  BY <1>5 DEF Start
    <2>2. up' = TRUE /\ calls' = calls  BY <1>5 DEF Start, Boot
    <2> QED  BY <1>1, <1>2, <2>1, <2>2
  <1>6. CASE Crash
    <2>1. up' = FALSE /\ calls' = calls /\ faults < MaxFaults /\ faults' = faults + 1
      BY <1>6 DEF Crash, Die
    <2>2. calls' \in 0..MaxCalls /\ faults' \in 0..MaxFaults
      BY <1>1, <2>1
    <2> QED  BY <2>1, <2>2
  <1>7. ASSUME NEW t \in Threads, SettingsStep(t)
        PROVE  up' \in BOOLEAN /\ calls' \in 0..MaxCalls /\ faults' \in 0..MaxFaults
    BY <1>2, <1>3, <1>7 DEF SettingsStep, ReadSettings, SaveSettings, Return
  <1>8. ASSUME NEW t \in Threads, StatsStep(t)
        PROVE  up' \in BOOLEAN /\ calls' \in 0..MaxCalls /\ faults' \in 0..MaxFaults
    <2>1. ASSUME NEW c \in Channels, NEW event \in {"success", "like", "dislike"},
                 Update(t, c, event)
          PROVE  up' \in BOOLEAN /\ calls' \in 0..MaxCalls /\ faults' \in 0..MaxFaults
      BY <1>1, <1>3, <2>1 DEF Update
    <2>2. ASSUME NEW ok \in BOOLEAN, OpenStats(t, ok) \/ WriteStats(t, ok)
          PROVE  up' \in BOOLEAN /\ calls' \in 0..MaxCalls /\ faults' \in 0..MaxFaults
      <3>1. Works(ok)  BY <2>2 DEF OpenStats, WriteStats
      <3>2. \E step : Goto(t, step)  BY <2>2 DEF OpenStats, WriteStats, Return
      <3> QED  BY <1>2, <1>3, <3>1, <3>2
    <2> QED  BY <1>8, <2>1, <2>2 DEF StatsStep
  <1>9. ASSUME NEW t \in Threads, MigrationStep(t)
        PROVE  up' \in BOOLEAN /\ calls' \in 0..MaxCalls /\ faults' \in 0..MaxFaults
    <2>1. ASSUME NEW edit \in Edits, OpenDocument(t, edit)
          PROVE  up' \in BOOLEAN /\ calls' \in 0..MaxCalls /\ faults' \in 0..MaxFaults
      BY <1>1, <1>3, <2>1 DEF OpenDocument
    <2>2. ASSUME NEW ok \in BOOLEAN,
                 WriteDefault(t, ok) \/ CopyAside(t, ok) \/ Migrate(t, ok)
                    \/ EditDocument(t, ok)
          PROVE  up' \in BOOLEAN /\ calls' \in 0..MaxCalls /\ faults' \in 0..MaxFaults
      <3>1. Works(ok)
        BY <2>2 DEF WriteDefault, CopyAside, Migrate, EditDocument
      <3>2. \E step : Goto(t, step)
        BY <2>2 DEF WriteDefault, CopyAside, Migrate, EditDocument, Raise, Return
      <3> QED  BY <1>2, <1>3, <3>1, <3>2
    <2>3. ASSUME LeaveDocument(t)
          PROVE  up' \in BOOLEAN /\ calls' \in 0..MaxCalls /\ faults' \in 0..MaxFaults
      BY <1>1, <1>3, <2>3 DEF LeaveDocument, Raise, Return
    <2> QED  BY <1>9, <2>1, <2>2, <2>3 DEF MigrationStep
  <1> QED  BY <1>4, <1>5, <1>6, <1>7, <1>8, <1>9 DEF Next

LEMMA StatsTypePreserved ==
    ASSUME BoundsInv, StatsInv, [Next]_storesVars
    PROVE  StatsTypeOK'
  <1> DEFINE Typed == /\ CountersOK(stats) /\ CountersOK(statsFile)
                      /\ CountersOK(counted)
                      /\ statsLock \in Threads \cup {NoThread}
                      /\ {behind, lossy} \subseteq BOOLEAN
  <1>1. Typed  BY StatsTyped DEF BoundsInv
  <1>2. ASSUME Typed' PROVE StatsTypeOK'
    BY <1>2 DEF StatsTypeOK, CountersOK
  <1>3. CASE UNCHANGED statsVars
    BY <1>1, <1>2, <1>3 DEF statsVars, historyVars, CountersOK
  <1>4. ASSUME NEW o \in BOOLEAN, NEW ok \in BOOLEAN, Start(o, ok) PROVE StatsTypeOK'
    <2>1. /\ stats' = statsFile \/ stats' = Unrated
          /\ UNCHANGED <<statsFile, counted>> /\ statsLock' = NoThread
      BY <1>4 DEF Start, StartStats
    <2>2. behind' \in BOOLEAN /\ lossy' \in BOOLEAN
      BY <1>4 DEF Start, StartStats
    <2> QED  BY <1>1, <1>2, <2>1, <2>2, UnratedOK DEF CountersOK
  <1>5. CASE Crash
    <2>1. UNCHANGED <<stats, statsFile, counted, behind>> /\ statsLock' = NoThread
      BY <1>5 DEF Crash, LoseStatsLock
    <2>2. lossy' \in BOOLEAN
      BY <1>5 DEF Crash, LoseStatsLock
    <2> QED  BY <1>1, <1>2, <2>1, <2>2 DEF CountersOK
  <1>6. ASSUME NEW t \in Threads, StatsStep(t) PROVE StatsTypeOK'
    <2>1. ASSUME NEW c \in Channels, NEW event \in {"success", "like", "dislike"},
                 Update(t, c, event)
          PROVE  StatsTypeOK'
      <3>1. /\ stats' = After(stats, c, event) /\ counted' = After(counted, c, event)
            /\ statsFile' = statsFile /\ statsLock' = t
            /\ behind' = behind /\ lossy' = lossy
        BY <2>1 DEF Update
      <3>2. CountersOK(stats') /\ CountersOK(counted')
        BY <1>1, <3>1, AfterOK
      <3> QED  BY <1>1, <1>2, <3>1, <3>2 DEF CountersOK
    <2>2. ASSUME NEW ok \in BOOLEAN, OpenStats(t, ok) PROVE StatsTypeOK'
      <3>1. /\ stats' = stats /\ (statsFile' = statsFile \/ statsFile' = Unrated)
            /\ (statsLock' = statsLock \/ statsLock' = NoThread)
            /\ (behind' = behind \/ behind' = TRUE)
            /\ counted' = counted /\ lossy' = lossy
        BY <2>2 DEF OpenStats, historyVars
      <3> QED  BY <1>1, <1>2, <3>1, UnratedOK DEF CountersOK
    <2>3. ASSUME NEW ok \in BOOLEAN, WriteStats(t, ok) PROVE StatsTypeOK'
      <3>1. th[t].dump = stats  BY <2>3 DEF StatsInv, WriteStats
      <3>2. /\ stats' = stats /\ (statsFile' = stats \/ statsFile' = Unrated)
            /\ statsLock' = NoThread /\ counted' = counted /\ lossy' = lossy
        BY <2>3, <3>1 DEF WriteStats, historyVars
      <3>3. behind' \in BOOLEAN  BY <2>3 DEF WriteStats
      <3> QED  BY <1>1, <1>2, <3>2, <3>3, UnratedOK DEF CountersOK
    <2> QED  BY <1>6, <2>1, <2>2, <2>3 DEF StatsStep
  <1> QED  BY <1>3, <1>4, <1>5, <1>6 DEF Next, storesVars

LEMMA BoundsPreserved ==
    ASSUME BoundsInv, StatsInv, [Next]_storesVars
    PROVE  BoundsInv'
  <1>1. docLock' \in Threads \cup {Nobody}
    <2>1. docLock \in Threads \cup {Nobody}  BY DEF BoundsInv
    <2>2. CASE UNCHANGED migrationVars  BY <2>1, <2>2 DEF migrationVars
    <2>3. CASE Crash  BY <2>3 DEF Crash, LoseDocLock
    <2>4. ASSUME NEW t \in Threads, MigrationStep(t)
          PROVE  docLock' \in Threads \cup {Nobody}
      BY <2>1, <2>4 DEF MigrationStep, OpenDocument, WriteDefault, CopyAside,
                        Migrate, EditDocument, LeaveDocument, Raise
    <2> QED  BY <2>2, <2>3, <2>4 DEF Next, Start, storesVars
  <1> QED  BY <1>1, CountersBounded, StatsTypePreserved DEF BoundsInv

\* TypeOK: the files, the locks and the threads are well typed, for every
\* number of threads and every set of settings, channels and URLs.
THEOREM TypeSafety == Spec => []TypeOK
  <1>1. Init => BoundsInv /\ StatsInv /\ MigrationInv /\ SettingsInv
    BY BoundsStart, StatsStarts, MigrationStarts, SettingsStarts
  <1>2. BoundsInv /\ StatsInv /\ MigrationInv /\ SettingsInv /\ [Next]_storesVars
            => (BoundsInv /\ StatsInv /\ MigrationInv /\ SettingsInv)'
    BY BoundsPreserved, StatsPreserved, MigrationPreserved, SettingsPreserved
  <1>3. BoundsInv /\ MigrationInv /\ SettingsInv => TypeOK
    <2>1. MigrationInv /\ BoundsInv => MigrationTypeOK
      BY DEF MigrationInv, RegistryInv, BoundsInv, MigrationTypeOK
    <2>2. SettingsInv => SettingsTypeOK
      BY DEF SettingsInv, SaveOK, Sound, SettingsTypeOK
    <2> QED  BY <2>1, <2>2 DEF TypeOK, BoundsInv
  <1> QED  BY <1>1, <1>2, <1>3, PTL DEF Spec
=============================================================================
