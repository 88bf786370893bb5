--------------------------- MODULE CatalogProofs ---------------------------
(***************************************************************************)
(* Type correctness of the catalogue, and its safety properties that hold  *)
(* however its threads interleave, crash and fail, for every number of     *)
(* threads, sources, streams and custom channels and every bound.  Each    *)
(* rests on TypeInv.                                                       *)
(***************************************************************************)
EXTENDS Catalog, FiniteSetTheorems, TLAPS

-----------------------------------------------------------------------------
(* The inductive invariant.  TypeOK alone is not inductive: a download of    *)
(* a source the copy of the registry does not have would return anything.  *)

EditOps == {"add", "patch", "validate"}
DeleteOps == {"delete", "deleteByUrl"}
CustomOps == {"customCreate", "customUpdate", "customDelete"}

\* Each operation visits its own labels only.
LabelOfOp(t) ==
    /\ t.op = "none" <=> t.pc = "idle"
    /\ t.pc \in {"lock"} \cup RefreshLabels => t.op \in RefreshOps
    /\ t.op \in RefreshOps => t.pc \in {"lock"} \cup RefreshLabels \cup SaveLabels
    /\ t.pc \in {"viewRead", "viewLoad"} => t.op = "view"
    /\ t.pc = "get" => t.op \in {"patch", "validate", "deleteByUrl"}
    /\ t.pc \in {"validate", "snapshot", "accepted"} => t.op \in EditOps
    /\ t.pc = "mutate" => t.op \in EditOps \cup DeleteOps
    /\ t.pc = "mutateCustom" => t.op \in CustomOps
    /\ t.pc = "unlink" => t.op \in DeleteOps

\* A thread has the input its label reads.
InputOfLabel(t) ==
    /\ t.op = "add" => t.url \in Urls
    /\ t.op \in {"view", "patch", "validate", "delete"} => t.id \in Ids
    /\ t.op = "deleteByUrl" /\ t.pc # "get" => t.id \in Ids
    /\ t.pc = "validate" => t.asked \in Urls
    /\ t.pc \in {"snapshot", "accepted"} => t.id \in Ids
    /\ t.pc = "mutateCustom" => t.cid \in CustomIds /\ t.stream \in Streams

\* The sources still to process are in the copy of the registry.
TodoFromView(t) ==
    /\ t.todo \subseteq Registered(t.view)
    /\ t.pc \notin {"fetch", "commit", "record", "load"} => t.todo = {}

\* What is known of the results in hand.
ResultsKnown(t) ==
    /\ t.val.status = "valid" =>
         /\ t.op \in EditOps
         /\ t.pc = "mutate" \/ t.id \in Ids
    /\ t.pc = "snapshot" => t.val.status = "valid"
    /\ t.pc \in {"commit", "record"} =>
         \A id \in t.todo : t.got[id].status \notin {"none", "loaded"}
    /\ t.pc = "record" => \A id \in Ids : t.got[id].status # "raised"

ThreadOK(t) ==
    LabelOfOp(t) /\ InputOfLabel(t) /\ TodoFromView(t) /\ ResultsKnown(t)

TypeInv == TypeOK /\ \A w \in Workers : ThreadOK(th[w])

-----------------------------------------------------------------------------
(* What the helpers return.                                                *)

\* A thread that takes a well-typed state leaves every thread well typed.
LEMMA BecomeType ==
    ASSUME th \in [Workers -> Thread], NEW w \in Workers, NEW r \in Thread,
           Become(w, r)
    PROVE  th' \in [Workers -> Thread]
BY DEF Become

\* A snapshot may have no hash.
LEMMA NoHash == {} \in Hash
BY DEF Hash

\* The idle thread is well typed.
LEMMA IdleThreadType == IdleThread \in Thread
BY CatalogAssumption, NoHash DEF IdleThread, Thread, NoResult, Result, NoCopy, Registry,
       NoCacheEntry, CacheEntry, AllHandlers, Ids, Switch

\* A thread that finishes leaves every thread well typed.
LEMMA FinishType ==
    ASSUME th \in [Workers -> Thread], NEW w \in Workers, Finish(w)
    PROVE  th' \in [Workers -> Thread]
BY IdleThreadType, BecomeType DEF Finish

\* Releasing the locks leaves them with a thread or free.
LEMMA ReleaseType ==
    ASSUME TypeOK, NEW w \in Workers, ReleaseIfHeld(w)
    PROVE  refreshLock' \in Workers \cup {Free}
BY DEF TypeOK, ReleaseIfHeld

\* The custom channels name streams.
LEMMA CustomStreamsType ==
    ASSUME TypeOK
    PROVE  CustomStreams \subseteq Streams
BY DEF TypeOK, CustomStreams

\* The enabled sources of a registry are among its ids.
LEMMA EnabledType ==
    ASSUME NEW reg
    PROVE  EnabledIn(reg) \subseteq Ids
BY DEF EnabledIn, Registered

\* A cache entry read from disk or from channels.json is well typed.
LEMMA LoadType ==
    ASSUME TypeOK, NEW id \in Ids, NEW src
    PROVE  LoadSourceCacheEntry(id, src) \in CacheEntry
BY NoHash DEF TypeOK, LoadSourceCacheEntry, LegacyChannels, CacheEntry, Snapshot, Entry

\* Writing back the stand-in of a missing snapshot keeps the cache well typed.
LEMMA SnapLoadType ==
    ASSUME TypeOK, NEW id \in Ids, NEW src
    PROVE  SnapAfterLoad(id, src) \in [Ids -> Snapshot \cup {NoSnap}]
BY NoHash DEF TypeOK, SnapAfterLoad, LegacyChannels, Snapshot, Entry

\* What validate() returns is a well-typed result.
LEMMA ValidationType ==
    ASSUME NEW url \in Urls, NEW hash, NEW r \in Validations(url, hash)
    PROVE  /\ r \in Result
           /\ r.status \in {"valid", "notModified", "error", "notFound", "raised"}
<1>1. Serves[url] \subseteq Streams
  BY CatalogAssumption
<1>2. Bodies(url) \subseteq SUBSET Streams
  BY <1>1 DEF Bodies
<1>3. \/ \E b \in Bodies(url) : r = [status |-> "valid", channels |-> b]
      \/ \E s \in {"error", "notFound", "raised", "notModified"} :
            r = [status |-> s, channels |-> {}]
  BY DEF Validations
<1>4. CASE \E b \in Bodies(url) : r = [status |-> "valid", channels |-> b]
  <2>1. PICK b \in Bodies(url) : r = [status |-> "valid", channels |-> b]
    BY <1>4
  <2>2. b \subseteq Streams
    BY <1>2
  <2>3. QED
    BY <2>1, <2>2 DEF Result
<1>5. CASE \E s \in {"error", "notFound", "raised", "notModified"} :
             r = [status |-> s, channels |-> {}]
  BY <1>5 DEF Result
<1>6. QED
  BY <1>3, <1>4, <1>5

\* What a result counts as is one of the results, and valid only if it is.
LEMMA OutcomeType ==
    ASSUME NEW w, NEW id,
           th[w].got[id].status \in {"valid", "notModified", "error", "notFound"}
    PROVE  /\ Outcome(w, id) \in {"valid", "notModified", "error", "notFound"}
           /\ Outcome(w, id) \in {"valid", "notModified"} =>
                Outcome(w, id) = th[w].got[id].status
BY DEF Outcome

\* A merge of snapshots is a set of entries.
LEMMA MergeType ==
    ASSUME NEW t \in Thread
    PROVE  MergeSourceSnapshots(t.seen, t.merged, t.view) \subseteq Entry
<1>1. /\ t.seen \subseteq Streams
      /\ t.merged \in [Ids -> SUBSET Streams]
      /\ t.view \in Registry
  BY DEF Thread
<1>2. \A id \in Registered(t.view) : id \in Ids /\ t.view[id].url \in Urls
  BY <1>1 DEF Registered, Registry, Source
<1>3. QED
  BY <1>1, <1>2 DEF MergeSourceSnapshots, Entry

\* The lines of an M3U file are the streams of the entries.
LEMMA RenderType ==
    ASSUME NEW entries \in SUBSET Entry
    PROVE  RenderDirectM3u(entries) \subseteq Streams
BY DEF RenderDirectM3u, Entry

\* A refreshed source is well typed.
LEMMA RecordType ==
    ASSUME TypeOK, NEW id \in Ids,
           NEW status \in {"valid", "notModified", "error", "notFound"},
           RecordRefresh(id, status)
    PROVE  sources' \in Registry
<1>1. CASE sources[id] = NoSource
  BY <1>1 DEF TypeOK, RecordRefresh
<1>2. CASE sources[id] # NoSource
  <2>1. sources[id] \in Source /\ now \in Nat
    BY <1>2 DEF TypeOK, Registry
  <2>2. /\ [sources[id] EXCEPT !.lastOk = now, !.lastError = "none"] \in Source
        /\ status \in Errors => [sources[id] EXCEPT !.lastError = status] \in Source
    BY <2>1 DEF Source, Errors
  <2>3. QED
    BY <1>2, <2>1, <2>2 DEF TypeOK, RecordRefresh, Registry, Errors
<1>3. QED
  BY <1>1, <1>2

\* A step that leaves the registries, the outputs and the bounds alone.
LEMMA ThreadStepType ==
    ASSUME TypeOK,
           th' \in [Workers -> Thread],
           snap' \in [Ids -> Snapshot \cup {NoSnap}],
           refreshLock' \in Workers \cup {Free},
           UNCHANGED <<registries, outputs, bounds>>
    PROVE  TypeOK'
BY DEF TypeOK, registries, outputs, bounds

\* A step that leaves the locks, the outputs and the bounds alone.
LEMMA RegistryStepType ==
    ASSUME TypeOK,
           th' \in [Workers -> Thread],
           snap' \in [Ids -> Snapshot \cup {NoSnap}],
           sources' \in Registry,
           nextId' \in Nat \ {0},
           custom' \in [CustomIds -> Streams \cup {NoStream}],
           UNCHANGED <<refreshLock, outputs, bounds>>
    PROVE  TypeOK'
BY DEF TypeOK, outputs, bounds

-----------------------------------------------------------------------------
(* Steps of a refresh.                                                     *)

\* A thread that takes a state satisfying the invariant preserves it.
LEMMA ThreadsStep ==
    ASSUME TypeInv, NEW w \in Workers, NEW r \in Thread, ThreadOK(r), Become(w, r)
    PROVE  /\ th' \in [Workers -> Thread]
           /\ \A v \in Workers : ThreadOK(th'[v])
<1>1. th' = [th EXCEPT ![w] = r] /\ th \in [Workers -> Thread]
  BY DEF Become, TypeInv, TypeOK
<1>2. \A v \in Workers : th'[v] = IF v = w THEN r ELSE th[v]
  BY <1>1
<1>3. QED
  BY <1>1, <1>2 DEF TypeInv

\* The idle thread satisfies the invariant.
LEMMA IdleThreadOK == IdleThread \in Thread /\ ThreadOK(IdleThread)
BY IdleThreadType
DEF IdleThread, ThreadOK, LabelOfOp, InputOfLabel, TodoFromView, ResultsKnown,
    RefreshLabels, SaveLabels, RefreshOps, EditOps, DeleteOps, CustomOps,
    NoResult, Registered

\* A thread that finishes preserves the invariant.
LEMMA FinishStep ==
    ASSUME TypeInv, NEW w \in Workers, Finish(w)
    PROVE  /\ th' \in [Workers -> Thread]
           /\ \A v \in Workers : ThreadOK(th'[v])
BY IdleThreadOK, ThreadsStep DEF Finish

\* Every step of a refresh preserves the invariant.
LEMMA RefreshInv ==
    ASSUME TypeInv, NEW w \in Workers, Refresh(w)
    PROVE  TypeInv'
<1> DEFINE t == th[w]
           ThreadsOK == /\ th' \in [Workers -> Thread]
                        /\ \A v \in Workers : ThreadOK(th'[v])
<1> USE DEF At, SaveLabels, RefreshLabels, RefreshOps, EditOps, DeleteOps,
            CustomOps
<1>1. t \in Thread /\ ThreadOK(t) /\ TypeOK
  BY DEF TypeInv, TypeOK
<1>2. CASE RunUpdate(w)
  <2> DEFINE r == [t EXCEPT !.pc = "readSources"]
  <2>1. r \in Thread
    BY <1>1 DEF Thread
  <2>2. ThreadOK(r)
    BY <1>1, <1>2 DEF Thread, RunUpdate, ThreadOK, LabelOfOp, InputOfLabel,
           TodoFromView, ResultsKnown
  <2>3. ThreadsOK
    BY <1>2, <2>1, <2>2, ThreadsStep, FinishStep DEF RunUpdate
  <2>4. QED
    BY <1>1, <1>2, <2>3, ThreadStepType DEF RunUpdate, TypeInv, TypeOK
<1>3. CASE RefreshReadSources(w)
  <2> DEFINE r == [t EXCEPT !.pc = "readCustom", !.view = sources]
  <2>1. r \in Thread
    BY <1>1 DEF Thread, TypeOK
  <2>2. ThreadOK(r)
    BY <1>1, <1>3 DEF Thread, RefreshReadSources, ThreadOK, LabelOfOp,
           InputOfLabel, TodoFromView, ResultsKnown
  <2>3. ThreadsOK
    BY <1>3, <2>1, <2>2, ThreadsStep DEF RefreshReadSources
  <2>4. QED
    BY <1>1, <1>3, <2>3, ThreadStepType DEF RefreshReadSources, TypeInv, TypeOK
<1>4. CASE RefreshReadCustom(w)
  <2> DEFINE seen == CustomStreams
             e == EnabledIn(t.view)
             l == IF e = {} THEN "writeJson" ELSE "fetch"
             r == [t EXCEPT !.seen = seen, !.todo = e, !.pc = l]
  <2>1. seen \subseteq Streams /\ e \subseteq Ids /\ e \subseteq Registered(t.view)
    BY <1>1, CustomStreamsType DEF EnabledIn, Registered
  <2>2. l \in {"writeJson", "fetch"} /\ (l = "writeJson" => e = {}) /\ Become(w, r)
    BY <1>4 DEF RefreshReadCustom
  <2> HIDE DEF seen, e, l
  <2>3. r \in Thread
    BY <1>1, <2>1, <2>2 DEF Thread
  <2>4. ThreadOK(r)
    BY <1>1, <1>4, <2>1, <2>2 DEF Thread, RefreshReadCustom, ThreadOK, LabelOfOp,
           InputOfLabel, TodoFromView, ResultsKnown
  <2>5. ThreadsOK
    BY <2>2, <2>3, <2>4, ThreadsStep
  <2>6. QED
    BY <1>1, <1>4, <2>5, ThreadStepType DEF RefreshReadCustom, TypeInv, TypeOK
<1>5. ASSUME NEW id \in Ids, FetchLoadCache(w, id)
      PROVE  TypeInv'
  <2> DEFINE c == LoadSourceCacheEntry(id, t.view[id])
             g == [t.got[id] EXCEPT !.status = "loaded"]
             r == [t EXCEPT !.cached[id] = c, !.got[id] = g]
  <2>1. c \in CacheEntry /\ g \in Result
    BY <1>1, LoadType DEF Thread, Result
  <2> HIDE DEF c
  <2>2. r \in Thread
    BY <1>1, <2>1 DEF Thread
  <2>3. ThreadOK(r)
    BY <1>1, <1>5, <2>1 DEF Thread, Result, FetchLoadCache, ThreadOK, LabelOfOp,
           InputOfLabel, TodoFromView, ResultsKnown
  <2>4. Become(w, r)
    BY <1>5 DEF FetchLoadCache, c
  <2>5. ThreadsOK
    BY <2>2, <2>3, <2>4, ThreadsStep
  <2>6. QED
    BY <1>1, <1>5, <2>5, SnapLoadType, ThreadStepType
    DEF FetchLoadCache, TypeInv, TypeOK
<1>6. ASSUME NEW id \in Ids, FetchSource(w, id)
      PROVE  TypeInv'
  <2>1. t.view[id].url \in Urls
    BY <1>1, <1>6 DEF FetchSource, ThreadOK, TodoFromView, Registered, Thread,
           Registry, Source
  <2>2. PICK g \in Validations(t.view[id].url, t.cached[id].hash) :
          Become(w, [t EXCEPT
            !.got[id] = g,
            !.pc = IF \A j \in t.todo \ {id} :
                        t.got[j].status \notin {"none", "loaded"}
                     THEN "commit" ELSE "fetch"])
    BY <1>6 DEF FetchSource
  <2>3. /\ g \in Result
        /\ g.status \notin {"none", "loaded"}
    BY <2>1, ValidationType
  <2> DEFINE l == IF \A j \in t.todo \ {id} :
                        t.got[j].status \notin {"none", "loaded"}
                  THEN "commit" ELSE "fetch"
             r == [t EXCEPT !.got[id] = g, !.pc = l]
  <2>4. ThreadOK(r)
    BY <1>1, <1>6, <2>3 DEF Thread, FetchSource, ThreadOK, LabelOfOp,
           InputOfLabel, TodoFromView, ResultsKnown
  <2>5. l \in {"commit", "fetch"} /\ Become(w, r)
    BY <2>2
  <2> HIDE DEF l
  <2>6. r \in Thread
    BY <1>1, <2>3, <2>5 DEF Thread
  <2>7. ThreadsOK
    BY <2>4, <2>5, <2>6, ThreadsStep
  <2>8. QED
    BY <1>1, <1>6, <2>7, ThreadStepType DEF FetchSource, TypeInv, TypeOK
<1>7. CASE RefreshRaises(w)
  BY <1>1, <1>7, FinishStep, ReleaseType, ThreadStepType
  DEF RefreshRaises, TypeInv, TypeOK
<1>8. ASSUME NEW id \in Ids, CommitSource(w, id)
      PROVE  TypeInv'
  <2> DEFINE o == Outcome(w, id)
             kept == CASE o = "valid" -> t.got[id].channels
                       [] o = "notModified" -> t.cached[id].channels
                       [] OTHER -> IF IsCacheExpired(id, t.view[id], o)
                                     THEN {} ELSE t.cached[id].channels
             good == t.ok \/ o \in {"valid", "notModified"}
             r == [t EXCEPT !.pc = "record", !.merged[id] = kept, !.ok = good]
  <2>1. /\ t.got[id] \in Result /\ t.cached[id] \in CacheEntry
    BY <1>1 DEF Thread
  <2>2. kept \subseteq Streams /\ good \in BOOLEAN /\ Become(w, r)
    BY <1>1, <1>8, <2>1 DEF CommitSource, Result, CacheEntry, Thread
  <2> HIDE DEF o, kept, good
  <2>3. r \in Thread
    BY <1>1, <2>2 DEF Thread
  <2>4. ThreadOK(r)
    BY <1>1, <1>8, <2>2 DEF Thread, CommitSource, Raised, ThreadOK, LabelOfOp,
           InputOfLabel, TodoFromView, ResultsKnown
  <2>5. ThreadsOK
    BY <2>2, <2>3, <2>4, ThreadsStep
  <2>6. snap' \in [Ids -> Snapshot \cup {NoSnap}]
    <3>1. PICK fresh \in SUBSET Streams : fresh = t.got[id].channels
      BY <2>1 DEF Result
    <3>2. {fresh} \in Hash
      BY DEF Hash
    <3>3. [channels |-> fresh, hash |-> {fresh}, at |-> now] \in Snapshot
      BY <1>1, <3>2 DEF TypeOK, Snapshot
    <3>4. \/ UNCHANGED snap
          \/ snap' = [snap EXCEPT ![id] = [channels |-> fresh, hash |-> {fresh},
                                          at |-> now]]
      BY <1>8, <3>1 DEF CommitSource
    <3>5. QED
      BY <1>1, <3>3, <3>4 DEF TypeOK
  <2>7. QED
    BY <1>1, <1>8, <2>5, <2>6, ThreadStepType DEF CommitSource, TypeInv, TypeOK
<1>9. ASSUME NEW id \in Ids, RecordSource(w, id)
      PROVE  TypeInv'
  <2> DEFINE r == [t EXCEPT !.pc = "commit", !.todo = @ \ {id}]
  <2>1. r \in Thread
    BY <1>1 DEF Thread
  <2>2. ThreadOK(r)
    BY <1>1, <1>9 DEF Thread, RecordSource, ThreadOK, LabelOfOp,
           InputOfLabel, TodoFromView, ResultsKnown
  <2>3. ThreadsOK
    BY <1>9, <2>1, <2>2, ThreadsStep DEF RecordSource
  <2>4. t.got[id].status \in {"valid", "notModified", "error", "notFound"}
    BY <1>1, <1>9 DEF RecordSource, Thread, Result, ThreadOK, ResultsKnown
  <2>5. sources' \in Registry
    BY <1>1, <1>9, <2>4, OutcomeType, RecordType DEF RecordSource
  <2>6. QED
    BY <1>1, <1>9, <2>3, <2>5, RegistryStepType DEF RecordSource, TypeInv, TypeOK
<1>10. CASE EndRefresh(w)
  <2> DEFINE r == [t EXCEPT !.pc = "writeJson"]
  <2>1. r \in Thread
    BY <1>1 DEF Thread
  <2>2. ThreadOK(r)
    BY <1>1, <1>10 DEF Thread, EndRefresh, ThreadOK, LabelOfOp,
           InputOfLabel, TodoFromView, ResultsKnown
  <2>3. ThreadsOK
    BY <1>10, <2>1, <2>2, ThreadsStep, FinishStep DEF EndRefresh
  <2>4. refreshLock' \in Workers \cup {Free}
    BY <1>1, <1>10, ReleaseType DEF EndRefresh, TypeOK
  <2>5. QED
    BY <1>1, <1>10, <2>3, <2>4, ThreadStepType DEF EndRefresh, TypeInv, TypeOK
<1>11. QED
  BY <1>2, <1>3, <1>4, <1>5, <1>6, <1>7, <1>8, <1>9, <1>10 DEF Refresh

-----------------------------------------------------------------------------
(* Steps of a rebuild and of a save.                                       *)

\* Every step of a rebuild preserves the invariant.
LEMMA RebuildInv ==
    ASSUME TypeInv, NEW w \in Workers, Rebuild(w)
    PROVE  TypeInv'
<1> DEFINE t == th[w]
           ThreadsOK == /\ th' \in [Workers -> Thread]
                        /\ \A v \in Workers : ThreadOK(th'[v])
<1> USE DEF At, SaveLabels, RefreshLabels, RefreshOps, EditOps, DeleteOps,
            CustomOps
<1>1. t \in Thread /\ ThreadOK(t) /\ TypeOK
  BY DEF TypeInv, TypeOK
<1>2. CASE RebuildReadCustom(w)
  <2> DEFINE seen == CustomStreams
             r == [t EXCEPT !.pc = "rebuildSources", !.seen = seen]
  <2>1. seen \subseteq Streams /\ Become(w, r)
    BY <1>1, <1>2, CustomStreamsType DEF RebuildReadCustom
  <2> HIDE DEF seen
  <2>2. r \in Thread
    BY <1>1, <2>1 DEF Thread
  <2>3. ThreadOK(r)
    BY <1>1, <1>2 DEF Thread, RebuildReadCustom, ThreadOK, LabelOfOp,
           InputOfLabel, TodoFromView, ResultsKnown
  <2>4. ThreadsOK
    BY <2>1, <2>2, <2>3, ThreadsStep
  <2>5. QED
    BY <1>1, <1>2, <2>4, ThreadStepType DEF RebuildReadCustom, TypeInv, TypeOK
<1>3. CASE RebuildReadSources(w)
  <2> DEFINE e == EnabledIn(sources)
             l == IF e = {} THEN "writeJson" ELSE "load"
             r == [t EXCEPT !.view = sources, !.todo = e, !.pc = l]
  <2>1. e \subseteq Ids /\ e \subseteq Registered(sources) /\ sources \in Registry
    BY <1>1 DEF EnabledIn, Registered, TypeOK
  <2>2. l \in {"writeJson", "load"} /\ (l = "writeJson" => e = {}) /\ Become(w, r)
    BY <1>3 DEF RebuildReadSources
  <2> HIDE DEF e, l
  <2>3. r \in Thread
    BY <1>1, <2>1, <2>2 DEF Thread
  <2>4. ThreadOK(r)
    BY <1>1, <1>3, <2>1, <2>2 DEF Thread, RebuildReadSources, ThreadOK, LabelOfOp,
           InputOfLabel, TodoFromView, ResultsKnown
  <2>5. ThreadsOK
    BY <2>2, <2>3, <2>4, ThreadsStep
  <2>6. QED
    BY <1>1, <1>3, <2>5, ThreadStepType DEF RebuildReadSources, TypeInv, TypeOK
<1>4. ASSUME NEW id \in Ids, RebuildLoad(w, id)
      PROVE  TypeInv'
  <2> DEFINE src == t.view[id]
             expired == IsCacheExpired(id, src, src.lastError)
             kept == IF expired THEN {} ELSE LoadSourceCacheEntry(id, src).channels
             l == IF t.todo = {id} THEN "writeJson" ELSE "load"
             r == [t EXCEPT !.merged[id] = kept, !.todo = @ \ {id}, !.pc = l]
  <2>1. kept \subseteq Streams
    BY <1>1, LoadType DEF CacheEntry
  <2>2. /\ l \in {"writeJson", "load"}
        /\ l = "writeJson" => t.todo \ {id} = {}
        /\ Become(w, r)
    BY <1>4 DEF RebuildLoad
  <2> HIDE DEF kept, l
  <2>3. r \in Thread
    BY <1>1, <2>1, <2>2 DEF Thread
  <2>4. ThreadOK(r)
    BY <1>1, <1>4, <2>2 DEF Thread, RebuildLoad, ThreadOK, LabelOfOp,
           InputOfLabel, TodoFromView, ResultsKnown
  <2>5. ThreadsOK
    BY <2>2, <2>3, <2>4, ThreadsStep
  <2>6. snap' \in [Ids -> Snapshot \cup {NoSnap}]
    BY <1>1, <1>4, SnapLoadType DEF RebuildLoad, TypeOK
  <2>7. QED
    BY <1>1, <1>4, <2>5, <2>6, ThreadStepType DEF RebuildLoad, TypeInv, TypeOK
<1>5. QED
  BY <1>2, <1>3, <1>4 DEF Rebuild

\* What follows a save preserves the invariant.
LEMMA AfterSaveInv ==
    ASSUME TypeInv, NEW w \in Workers, AfterSave(w), th[w].pc \in SaveLabels
    PROVE  /\ th' \in [Workers -> Thread]
           /\ \A v \in Workers : ThreadOK(th'[v])
           /\ refreshLock' \in Workers \cup {Free}
<1> DEFINE r == [th[w] EXCEPT !.pc = "accepted"]
<1>1. th[w] \in Thread /\ ThreadOK(th[w])
  BY DEF TypeInv, TypeOK
<1>2. r \in Thread
  BY <1>1 DEF Thread
<1>3. ASSUME th[w].val.status = "valid"
      PROVE  ThreadOK(r)
  BY <1>1, <1>3 DEF Thread, ThreadOK, LabelOfOp, InputOfLabel, TodoFromView,
         ResultsKnown, SaveLabels, RefreshLabels, RefreshOps, EditOps, DeleteOps,
         CustomOps
<1>4. QED
  BY <1>2, <1>3, ThreadsStep, FinishStep, ReleaseType DEF AfterSave, TypeInv

\* Every step of a save, a failing one too, preserves the invariant.
LEMMA SaveInv ==
    ASSUME TypeInv, NEW w \in Workers, Save(w) \/ SaveFails(w)
    PROVE  TypeInv'
<1> DEFINE t == th[w]
           merge == MergeSourceSnapshots(t.seen, t.merged, t.view)
           ThreadsOK == /\ th' \in [Workers -> Thread]
                        /\ \A v \in Workers : ThreadOK(th'[v])
<1>1. t \in Thread /\ ThreadOK(t) /\ TypeOK
  BY DEF TypeInv, TypeOK
<1>2. merge \subseteq Entry /\ RenderDirectM3u(merge) \subseteq Streams
  BY <1>1, MergeType, RenderType
<1>3. CASE SaveJson(w)
  <2> DEFINE r == [t EXCEPT !.pc = "writeM3u"]
  <2>1. r \in Thread
    BY <1>1 DEF Thread, SaveLabels
  <2>2. ThreadOK(r)
    BY <1>1, <1>3 DEF Thread, SaveJson, At, ThreadOK, LabelOfOp, InputOfLabel,
           TodoFromView, ResultsKnown, SaveLabels, RefreshLabels, RefreshOps,
           EditOps, DeleteOps, CustomOps
  <2>3. ThreadsOK
    BY <1>3, <2>1, <2>2, ThreadsStep DEF SaveJson
  <2>4. QED
    BY <1>1, <1>2, <1>3, <2>3 DEF SaveJson, TypeInv, TypeOK, registries, bounds
<1>4. CASE SaveM3u(w)
  <2>1. ThreadsOK /\ refreshLock' \in Workers \cup {Free}
    BY <1>4, AfterSaveInv DEF SaveM3u, At, SaveLabels
  <2>2. QED
    BY <1>1, <1>2, <1>4, <2>1 DEF SaveM3u, TypeInv, TypeOK, registries, bounds
<1>5. CASE SaveFails(w)
  <2>1. ThreadsOK /\ refreshLock' \in Workers \cup {Free}
    BY <1>5, AfterSaveInv DEF SaveFails
  <2>2. QED
    BY <1>1, <1>5, <2>1 DEF SaveFails, TypeInv, TypeOK, registries, outputs
<1>6. QED
  BY <1>3, <1>4, <1>5 DEF Save

-----------------------------------------------------------------------------
(* Steps of the request handlers.                                          *)

\* Taking up an operation preserves the invariant.
LEMMA BeginInv ==
    ASSUME TypeInv, NEW w \in Workers, BeginOperation(w)
    PROVE  TypeInv'
<1>1. ASSUME NEW r, Begin(w, r), r \in Thread, ThreadOK(r)
      PROVE  TypeInv'
  BY <1>1, ThreadsStep DEF Begin, TypeInv, TypeOK, registries, outputs
<1>2. CASE BeginRefresh(w)
  <2>1. PICK op \in RefreshOps :
          Begin(w, [IdleThread EXCEPT !.pc = "lock", !.op = op])
    BY <1>2 DEF BeginRefresh, RefreshOps
  <2> DEFINE r == [IdleThread EXCEPT !.pc = "lock", !.op = op]
  <2>2. r \in Thread
    BY IdleThreadType DEF Thread, AllHandlers, RefreshOps
  <2>3. ThreadOK(r)
    BY DEF IdleThread, NoResult, ThreadOK, LabelOfOp, InputOfLabel, TodoFromView,
           ResultsKnown, SaveLabels, RefreshLabels, RefreshOps, EditOps, DeleteOps,
           CustomOps
  <2>4. QED
    BY <1>1, <2>1, <2>2, <2>3
<1>3. CASE BeginView(w)
  <2>1. PICK id \in Ids :
          Begin(w, [IdleThread EXCEPT !.pc = "viewRead", !.op = "view", !.id = id])
    BY <1>3 DEF BeginView
  <2> DEFINE r == [IdleThread EXCEPT !.pc = "viewRead", !.op = "view", !.id = id]
  <2>2. r \in Thread
    BY IdleThreadType DEF Thread, AllHandlers
  <2>3. ThreadOK(r)
    BY DEF IdleThread, NoResult, ThreadOK, LabelOfOp, InputOfLabel, TodoFromView,
           ResultsKnown, SaveLabels, RefreshLabels, RefreshOps, EditOps, DeleteOps,
           CustomOps
  <2>4. QED
    BY <1>1, <2>1, <2>2, <2>3
<1>4. CASE BeginAddSource(w)
  <2>1. PICK url \in Urls, allow \in BOOLEAN :
          Begin(w, [IdleThread EXCEPT !.pc = "validate", !.op = "add",
                                      !.url = url, !.asked = url, !.allow = allow])
    BY <1>4 DEF BeginAddSource
  <2> DEFINE r == [IdleThread EXCEPT !.pc = "validate", !.op = "add",
                                     !.url = url, !.asked = url, !.allow = allow]
  <2>2. r \in Thread
    BY IdleThreadType DEF Thread, AllHandlers
  <2>3. ThreadOK(r)
    BY DEF IdleThread, NoResult, ThreadOK, LabelOfOp, InputOfLabel, TodoFromView,
           ResultsKnown, SaveLabels, RefreshLabels, RefreshOps, EditOps, DeleteOps,
           CustomOps
  <2>4. QED
    BY <1>1, <2>1, <2>2, <2>3
<1>5. CASE BeginUpdateSource(w)
  <2>1. PICK id \in Ids, url \in Urls \cup {NoUrl}, enable \in Switch,
             allow \in BOOLEAN :
          Begin(w, [IdleThread EXCEPT !.pc = "get", !.op = "patch", !.id = id,
                                      !.url = url, !.enable = enable,
                                      !.allow = allow])
    BY <1>5 DEF BeginUpdateSource
  <2> DEFINE r == [IdleThread EXCEPT !.pc = "get", !.op = "patch", !.id = id,
                                     !.url = url, !.enable = enable,
                                     !.allow = allow]
  <2>2. r \in Thread
    BY IdleThreadType DEF Thread, AllHandlers
  <2>3. ThreadOK(r)
    BY DEF IdleThread, NoResult, ThreadOK, LabelOfOp, InputOfLabel, TodoFromView,
           ResultsKnown, SaveLabels, RefreshLabels, RefreshOps, EditOps, DeleteOps,
           CustomOps
  <2>4. QED
    BY <1>1, <2>1, <2>2, <2>3
<1>6. CASE BeginValidateSource(w)
  <2>1. PICK id \in Ids, enable \in {"keep", "on"} :
          Begin(w, [IdleThread EXCEPT !.pc = "get", !.op = "validate", !.id = id,
                                      !.enable = enable, !.allow = TRUE])
    BY <1>6 DEF BeginValidateSource
  <2> DEFINE r == [IdleThread EXCEPT !.pc = "get", !.op = "validate", !.id = id,
                                     !.enable = enable, !.allow = TRUE]
  <2>2. r \in Thread
    BY IdleThreadType DEF Thread, AllHandlers, Switch
  <2>3. ThreadOK(r)
    BY DEF IdleThread, NoResult, ThreadOK, LabelOfOp, InputOfLabel, TodoFromView,
           ResultsKnown, SaveLabels, RefreshLabels, RefreshOps, EditOps, DeleteOps,
           CustomOps
  <2>4. QED
    BY <1>1, <2>1, <2>2, <2>3
<1>7. CASE BeginDeleteSource(w)
  <2>1. ASSUME NEW id \in Ids,
               Begin(w, [IdleThread EXCEPT !.pc = "mutate", !.op = "delete", !.id = id])
        PROVE  TypeInv'
    <3> DEFINE r == [IdleThread EXCEPT !.pc = "mutate", !.op = "delete", !.id = id]
    <3>1. r \in Thread
      BY IdleThreadType DEF Thread, AllHandlers
    <3>2. ThreadOK(r)
      BY DEF IdleThread, NoResult, ThreadOK, LabelOfOp, InputOfLabel, TodoFromView,
             ResultsKnown, SaveLabels, RefreshLabels, RefreshOps, EditOps, DeleteOps,
             CustomOps
    <3>3. QED
      BY <1>1, <2>1, <3>1, <3>2
  <2>2. ASSUME NEW url \in Urls,
               Begin(w, [IdleThread EXCEPT !.pc = "get", !.op = "deleteByUrl",
                                           !.url = url])
        PROVE  TypeInv'
    <3> DEFINE r == [IdleThread EXCEPT !.pc = "get", !.op = "deleteByUrl",
                                       !.url = url]
    <3>1. r \in Thread
      BY IdleThreadType DEF Thread, AllHandlers
    <3>2. ThreadOK(r)
      BY DEF IdleThread, NoResult, ThreadOK, LabelOfOp, InputOfLabel, TodoFromView,
             ResultsKnown, SaveLabels, RefreshLabels, RefreshOps, EditOps, DeleteOps,
             CustomOps
    <3>3. QED
      BY <1>1, <2>2, <3>1, <3>2
  <2>3. QED
    BY <1>7, <2>1, <2>2 DEF BeginDeleteSource
<1>8. CASE BeginCustomChannel(w)
  <2>1. PICK op \in CustomOps, c \in CustomIds, s \in Streams :
          Begin(w, [IdleThread EXCEPT !.pc = "mutateCustom", !.op = op,
                                      !.cid = c, !.stream = s])
    BY <1>8 DEF BeginCustomChannel, CustomOps
  <2> DEFINE r == [IdleThread EXCEPT !.pc = "mutateCustom", !.op = op,
                                     !.cid = c, !.stream = s]
  <2>2. r \in Thread
    BY IdleThreadType DEF Thread, AllHandlers, CustomOps
  <2>3. ThreadOK(r)
    BY DEF IdleThread, NoResult, ThreadOK, LabelOfOp, InputOfLabel, TodoFromView,
           ResultsKnown, SaveLabels, RefreshLabels, RefreshOps, EditOps, DeleteOps,
           CustomOps
  <2>4. QED
    BY <1>1, <2>1, <2>2, <2>3
<1>9. QED
  BY <1>2, <1>3, <1>4, <1>5, <1>6, <1>7, <1>8 DEF BeginOperation

\* Every step of a handler up to its change of a registry preserves the
\* invariant.
LEMMA HandleReadInv ==
    ASSUME TypeInv, NEW w \in Workers,
           \/ ViewReadSource(w) \/ ViewLoadCache(w)
           \/ GetForUpdate(w) \/ GetForValidate(w) \/ GetForDelete(w) \/ Validate(w)
    PROVE  TypeInv'
<1> DEFINE t == th[w]
           ThreadsOK == /\ th' \in [Workers -> Thread]
                        /\ \A v \in Workers : ThreadOK(th'[v])
<1> USE DEF At, SaveLabels, RefreshLabels, RefreshOps, EditOps, DeleteOps,
            CustomOps
<1>1. t \in Thread /\ ThreadOK(t) /\ TypeOK
  BY DEF TypeInv, TypeOK
<1>2. CASE ViewReadSource(w)
  <2> DEFINE r == [t EXCEPT !.pc = "viewLoad", !.view = sources]
  <2>1. r \in Thread
    BY <1>1 DEF Thread, TypeOK
  <2>2. ThreadOK(r)
    BY <1>1, <1>2 DEF Thread, ViewReadSource, ThreadOK, LabelOfOp,
           InputOfLabel, TodoFromView, ResultsKnown
  <2>3. ThreadsOK
    BY <1>2, <2>1, <2>2, ThreadsStep, FinishStep DEF ViewReadSource
  <2>4. QED
    BY <1>1, <1>2, <2>3, ThreadStepType DEF ViewReadSource, TypeInv, TypeOK
<1>3. CASE ViewLoadCache(w)
  <2>1. t.id \in Ids
    BY <1>1, <1>3 DEF ViewLoadCache, ThreadOK, LabelOfOp, InputOfLabel
  <2>2. snap' \in [Ids -> Snapshot \cup {NoSnap}] /\ ThreadsOK
    BY <1>1, <1>3, <2>1, SnapLoadType, FinishStep DEF ViewLoadCache
  <2>3. QED
    BY <1>1, <1>3, <2>2, ThreadStepType DEF ViewLoadCache, TypeInv, TypeOK
<1>4. CASE GetForUpdate(w)
  <2> DEFINE next == IF t.url = NoUrl THEN sources[t.id].url ELSE t.url
             r == [t EXCEPT !.pc = "validate", !.asked = next]
             q == [t EXCEPT !.pc = "mutate"]
  <2>1. t.id \in Ids /\ t.op = "patch"
    BY <1>1, <1>4 DEF GetForUpdate, ThreadOK, InputOfLabel
  <2>2. q \in Thread
    BY <1>1 DEF Thread
  <2>3. ThreadOK(q)
    BY <1>1, <1>4 DEF Thread, GetForUpdate, ThreadOK, LabelOfOp,
           InputOfLabel, TodoFromView, ResultsKnown
  <2>4. CASE sources[t.id] = NoSource
    BY <1>1, <1>4, <2>4, FinishStep, ThreadStepType DEF GetForUpdate, TypeInv, TypeOK
  <2>5. CASE sources[t.id] # NoSource
    <3>1. next \in Urls
      BY <1>1, <2>1, <2>5 DEF Thread, TypeOK, Registry, Source
    <3>2. Become(w, r) \/ Become(w, q)
      BY <1>4, <2>5 DEF GetForUpdate
    <3> HIDE DEF next
    <3>3. r \in Thread
      BY <1>1, <3>1 DEF Thread
    <3>4. ThreadOK(r)
      BY <1>1, <1>4, <3>1 DEF Thread, GetForUpdate, ThreadOK, LabelOfOp,
             InputOfLabel, TodoFromView, ResultsKnown
    <3>5. ThreadsOK
      BY <2>2, <2>3, <3>2, <3>3, <3>4, ThreadsStep
    <3>6. QED
      BY <1>1, <1>4, <3>5, ThreadStepType DEF GetForUpdate, TypeInv, TypeOK
  <2>6. QED
    BY <2>4, <2>5
<1>5. CASE GetForValidate(w)
  <2> DEFINE url == sources[t.id].url
             r == [t EXCEPT !.pc = "validate", !.asked = url]
  <2>1. CASE sources[t.id] = NoSource
    BY <1>1, <1>5, <2>1, FinishStep, ThreadStepType
    DEF GetForValidate, TypeInv, TypeOK
  <2>2. CASE sources[t.id] # NoSource
    <3>1. url \in Urls
      BY <1>1, <1>5, <2>2 DEF GetForValidate, ThreadOK, InputOfLabel, TypeOK,
             Registry, Source
    <3>2. Become(w, r)
      BY <1>5, <2>2 DEF GetForValidate
    <3> HIDE DEF url
    <3>3. r \in Thread
      BY <1>1, <3>1 DEF Thread
    <3>4. ThreadOK(r)
      BY <1>1, <1>5, <3>1 DEF Thread, GetForValidate, ThreadOK, LabelOfOp,
             InputOfLabel, TodoFromView, ResultsKnown
    <3>5. ThreadsOK
      BY <3>2, <3>3, <3>4, ThreadsStep
    <3>6. QED
      BY <1>1, <1>5, <3>5, ThreadStepType DEF GetForValidate, TypeInv, TypeOK
  <2>3. QED
    BY <2>1, <2>2
<1>6. CASE GetForDelete(w)
  <2>1. ASSUME NEW id \in Ids, Become(w, [t EXCEPT !.pc = "mutate", !.id = id])
        PROVE  ThreadsOK
    <3> DEFINE r == [t EXCEPT !.pc = "mutate", !.id = id]
    <3>1. r \in Thread
      BY <1>1 DEF Thread
    <3>2. ThreadOK(r)
      BY <1>1, <1>6 DEF Thread, GetForDelete, ThreadOK, LabelOfOp,
             InputOfLabel, TodoFromView, ResultsKnown
    <3>3. QED
      BY <2>1, <3>1, <3>2, ThreadsStep
  <2>2. ThreadsOK
    BY <1>6, <2>1, FinishStep DEF GetForDelete, Registered
  <2>3. QED
    BY <1>1, <1>6, <2>2, ThreadStepType DEF GetForDelete, TypeInv, TypeOK
<1>7. CASE Validate(w)
  <2>1. t.asked \in Urls
    BY <1>1, <1>7 DEF Validate, ThreadOK, InputOfLabel
  <2>2. ASSUME NEW v \in Validations(t.asked, {}),
               Become(w, [t EXCEPT !.pc = "mutate", !.val = v])
        PROVE  ThreadsOK
    <3> DEFINE r == [t EXCEPT !.pc = "mutate", !.val = v]
    <3>1. v \in Result
      BY <2>1, ValidationType
    <3>2. r \in Thread
      BY <1>1, <3>1 DEF Thread
    <3>3. ThreadOK(r)
      BY <1>1, <1>7, <3>1 DEF Thread, Validate, ThreadOK, LabelOfOp,
             InputOfLabel, TodoFromView, ResultsKnown
    <3>4. QED
      BY <2>2, <3>2, <3>3, ThreadsStep
  <2>3. ThreadsOK
    BY <1>7, <2>2, FinishStep DEF Validate
  <2>4. QED
    BY <1>1, <1>7, <2>3, ThreadStepType DEF Validate, TypeInv, TypeOK
<1>8. QED
  BY <1>2, <1>3, <1>4, <1>5, <1>6, <1>7

\* The change of a registry by a handler preserves the invariant.
LEMMA HandleWriteInv ==
    ASSUME TypeInv, NEW w \in Workers,
           \/ CreateSource(w) \/ UpdateSource(w) \/ DeleteSource(w)
           \/ MutateCustomChannel(w) \/ RecordAccepted(w)
    PROVE  TypeInv'
<1> DEFINE t == th[w]
           ThreadsOK == /\ th' \in [Workers -> Thread]
                        /\ \A v \in Workers : ThreadOK(th'[v])
<1> USE DEF At, SaveLabels, RefreshLabels, RefreshOps, EditOps, DeleteOps,
            CustomOps
<1>1. t \in Thread /\ ThreadOK(t) /\ TypeOK
  BY DEF TypeInv, TypeOK
<1>2. CASE CreateSource(w)
  <2> DEFINE refused == ~UrlFree(t.url, 0) \/ nextId > MaxId
             valid == t.val.status = "valid"
             s == [url |-> t.url, enabled |-> valid, lastOk |-> 0,
                   lastError |-> "none"]
             r == [t EXCEPT !.pc = "snapshot", !.id = nextId]
  <2>1. CASE refused
    <3>1. Finish(w) /\ UNCHANGED <<sources, nextId, custom, snap>>
      BY <1>2, <2>1 DEF CreateSource
    <3>2. QED
      BY <1>1, <1>2, <3>1, FinishStep, RegistryStepType
      DEF CreateSource, TypeInv, TypeOK
  <2>2. CASE ~refused
    <3>1. s \in Source
      BY <1>1, <1>2 DEF CreateSource, ThreadOK, InputOfLabel, Source, Errors
    <3>2. nextId \in Ids
      BY <1>1, <2>2, CatalogAssumption DEF TypeOK, Ids
    <3>3. /\ sources' = [sources EXCEPT ![nextId] = s]
          /\ nextId' = nextId + 1
          /\ IF valid THEN Become(w, r) ELSE Finish(w)
      BY <1>2, <2>2 DEF CreateSource
    <3> HIDE DEF s
    <3>4. r \in Thread
      BY <1>1, <3>2 DEF Thread
    <3>5. valid => ThreadOK(r)
      BY <1>1, <1>2, <3>2 DEF Thread, CreateSource, ThreadOK, LabelOfOp,
             InputOfLabel, TodoFromView, ResultsKnown
    <3>6. ThreadsOK
      BY <3>3, <3>4, <3>5, ThreadsStep, FinishStep
    <3>7. sources' \in Registry /\ nextId' \in Nat \ {0}
      BY <1>1, <3>1, <3>2, <3>3 DEF TypeOK, Registry
    <3>8. QED
      BY <1>1, <1>2, <3>6, <3>7, RegistryStepType DEF CreateSource, TypeInv, TypeOK
  <2>3. QED
    BY <2>1, <2>2
<1>3. CASE UpdateSource(w)
  <2> DEFINE source == sources[t.id]
             next == IF t.url = NoUrl THEN source.url ELSE t.url
             wanted == IF t.enable = "keep" THEN source.enabled
                       ELSE t.enable = "on"
             status == t.val.status
             refused == ~UrlFree(next, t.id)
                        \/ (NeedsValidation(source, next, wanted)
                            /\ status = "none")
             on == wanted /\ status \in {"none", "valid"}
             r == [t EXCEPT !.pc = "snapshot"]
             q == [t EXCEPT !.pc = "rebuildCustom"]
  <2>1. t.id \in Ids /\ t.pc = "mutate" /\ t.op \in {"patch", "validate"}
    BY <1>1, <1>3 DEF UpdateSource, ThreadOK, InputOfLabel
  <2>2. r \in Thread /\ q \in Thread
    BY <1>1 DEF Thread
  <2>3. /\ status = "valid" => ThreadOK(r)
        /\ ThreadOK(q)
    BY <1>1, <2>1 DEF Thread, ThreadOK, LabelOfOp, InputOfLabel, TodoFromView,
           ResultsKnown
  <2>4. CASE source = NoSource \/ refused
    <3>1. Finish(w) /\ UNCHANGED sources
      BY <1>3, <2>4 DEF UpdateSource
    <3>2. QED
      BY <1>1, <1>3, <3>1, FinishStep, RegistryStepType
      DEF UpdateSource, TypeInv, TypeOK
  <2>5. CASE ~(source = NoSource \/ refused)
    <3>1. /\ sources' = [sources EXCEPT ![t.id] =
                           [@ EXCEPT !.url = next, !.enabled = on]]
          /\ IF status = "valid" THEN Become(w, r)
             ELSE IF t.op = "patch" THEN Become(w, q)
             ELSE Finish(w)
      BY <1>3, <2>5 DEF UpdateSource
    <3>2. source \in Source
      BY <1>1, <2>1, <2>5 DEF TypeOK, Registry
    <3>3. next \in Urls /\ on \in BOOLEAN
      BY <1>1, <3>2 DEF Thread, Source
    <3> HIDE DEF next, on
    <3>4. [source EXCEPT !.url = next, !.enabled = on] \in Source
      BY <3>2, <3>3 DEF Source
    <3>5. sources' \in Registry
      BY <1>1, <3>1, <3>4 DEF TypeOK, Registry
    <3>6. ThreadsOK
      BY <2>2, <2>3, <3>1, ThreadsStep, FinishStep
    <3>7. QED
      BY <1>1, <1>3, <3>5, <3>6, RegistryStepType DEF UpdateSource, TypeInv, TypeOK
  <2>6. QED
    BY <2>4, <2>5
<1>4. CASE DeleteSource(w)
  <2> DEFINE r == [t EXCEPT !.pc = "unlink"]
  <2>1. t.id \in Ids
    BY <1>1, <1>4 DEF DeleteSource, ThreadOK, InputOfLabel
  <2>2. r \in Thread
    BY <1>1 DEF Thread
  <2>3. ThreadOK(r)
    BY <1>1, <1>4 DEF Thread, DeleteSource, ThreadOK, LabelOfOp, InputOfLabel,
           TodoFromView, ResultsKnown
  <2>4. ThreadsOK
    BY <1>4, <2>2, <2>3, ThreadsStep, FinishStep DEF DeleteSource
  <2>5. sources' \in Registry
    BY <1>1, <1>4 DEF DeleteSource, TypeOK, Registry
  <2>6. QED
    BY <1>1, <1>4, <2>4, <2>5, RegistryStepType DEF DeleteSource, TypeInv, TypeOK
<1>5. CASE MutateCustomChannel(w)
  <2> DEFINE r == [t EXCEPT !.pc = "rebuildCustom"]
  <2>1. t.cid \in CustomIds /\ t.stream \in Streams
    BY <1>1, <1>5 DEF MutateCustomChannel, ThreadOK, InputOfLabel
  <2>2. r \in Thread
    BY <1>1 DEF Thread
  <2>3. ThreadOK(r)
    BY <1>1, <1>5 DEF Thread, MutateCustomChannel, ThreadOK, LabelOfOp,
           InputOfLabel, TodoFromView, ResultsKnown
  <2>4. ThreadsOK
    BY <1>5, <2>2, <2>3, ThreadsStep, FinishStep DEF MutateCustomChannel
  <2>5. custom' \in [CustomIds -> Streams \cup {NoStream}]
    BY <1>1, <1>5, <2>1 DEF MutateCustomChannel, TypeOK
  <2>6. QED
    BY <1>1, <1>5, <2>4, <2>5, RegistryStepType
    DEF MutateCustomChannel, TypeInv, TypeOK
<1>6. CASE RecordAccepted(w)
  <2>1. t.id \in Ids
    BY <1>1, <1>6 DEF RecordAccepted, ThreadOK, InputOfLabel
  <2>2. sources' \in Registry
    BY <1>1, <1>6, <2>1, RecordType DEF RecordAccepted
  <2>3. QED
    BY <1>1, <1>6, <2>2, FinishStep, RegistryStepType
    DEF RecordAccepted, TypeInv, TypeOK
<1>7. QED
  BY <1>2, <1>3, <1>4, <1>5, <1>6

\* Replacing or deleting a snapshot preserves the invariant.
LEMMA HandleSnapshotInv ==
    ASSUME TypeInv, NEW w \in Workers,
           SaveValidatedSnapshot(w) \/ DeleteSourceSnapshot(w)
    PROVE  TypeInv'
<1> DEFINE t == th[w]
           r == [t EXCEPT !.pc = "rebuildCustom"]
<1>1. t \in Thread /\ ThreadOK(t) /\ TypeOK
  BY DEF TypeInv, TypeOK
<1>2. t.id \in Ids /\ t.val.channels \subseteq Streams /\ now \in Nat
  BY <1>1 DEF SaveValidatedSnapshot, DeleteSourceSnapshot, At, ThreadOK, LabelOfOp,
         InputOfLabel, DeleteOps, Thread, Result, TypeOK
<1>3. snap' \in [Ids -> Snapshot \cup {NoSnap}]
  <2> DEFINE s == [channels |-> t.val.channels, hash |-> {}, at |-> now]
  <2>1. s \in Snapshot
    BY <1>2, NoHash DEF Snapshot
  <2>2. snap' = [snap EXCEPT ![t.id] = s] \/ snap' = [snap EXCEPT ![t.id] = NoSnap]
    BY DEF SaveValidatedSnapshot, DeleteSourceSnapshot
  <2>3. snap \in [Ids -> Snapshot \cup {NoSnap}]
    BY <1>1 DEF TypeOK
  <2> HIDE DEF s, t
  <2>4. QED
    BY <2>1, <2>2, <2>3
<1>4. r \in Thread
  BY <1>1 DEF Thread
<1>5. ThreadOK(r)
  BY <1>1 DEF Thread, SaveValidatedSnapshot, DeleteSourceSnapshot, At, ThreadOK,
         LabelOfOp, InputOfLabel, TodoFromView, ResultsKnown, SaveLabels,
         RefreshLabels, RefreshOps, EditOps, DeleteOps, CustomOps
<1>6. th' \in [Workers -> Thread] /\ \A v \in Workers : ThreadOK(th'[v])
  BY <1>4, <1>5, ThreadsStep DEF SaveValidatedSnapshot, DeleteSourceSnapshot
<1>7. QED
  BY <1>1, <1>3, <1>6, ThreadStepType
  DEF SaveValidatedSnapshot, DeleteSourceSnapshot, TypeInv, TypeOK

-----------------------------------------------------------------------------
(* The invariant.                                                          *)

\* The invariant holds initially.
LEMMA InitInv == Init => TypeInv
<1> SUFFICES ASSUME Init PROVE TypeInv
  OBVIOUS
<1>1. sources \in Registry
  BY CatalogAssumption DEF Init, Registry, Source, Errors, Ids
<1>2. nextId \in Nat \ {0}
  <2>1. PICK k \in 0..MaxId : InitialUrl \in [1..k -> Urls]
    BY CatalogAssumption
  <2>2. DOMAIN InitialUrl = 1..k
    BY <2>1
  <2>3. IsFiniteSet(1..k)
    BY <2>1, FS_Interval
  <2>4. QED
    BY <2>2, <2>3, FS_CardinalityType DEF Init
<1>3. QED
  BY <1>1, <1>2, IdleThreadOK DEF Init, TypeInv, TypeOK

\* Every step preserves the invariant.
LEMMA NextInv == TypeInv /\ [Next]_vars => TypeInv'
<1> SUFFICES ASSUME TypeInv, [Next]_vars
             PROVE  TypeInv'
  OBVIOUS
<1>1. ASSUME NEW w \in Workers, BeginOperation(w)
      PROVE  TypeInv'
  BY <1>1, BeginInv
<1>2. ASSUME NEW w \in Workers, Work(w)
      PROVE  TypeInv'
  BY <1>2, RefreshInv, RebuildInv, SaveInv, HandleReadInv, HandleWriteInv,
     HandleSnapshotInv DEF Work, Handle
<1>3. ASSUME NEW w \in Workers, SaveFails(w)
      PROVE  TypeInv'
  BY <1>3, SaveInv
<1>4. CASE Tick
  BY <1>4 DEF Tick, TypeInv, TypeOK, registries, outputs
<1>5. CASE Crash
  BY <1>5, IdleThreadOK DEF Crash, TypeInv, TypeOK, registries, outputs
<1>6. CASE UNCHANGED vars
  BY <1>6 DEF vars, registries, outputs, bounds, TypeInv, TypeOK
<1>7. QED
  BY <1>1, <1>2, <1>3, <1>4, <1>5, <1>6 DEF Next, Rest

\* Type correctness: in every reachable state of every instance the files and
\* the threads hold what CatalogState says, and no download is ever of a
\* source the thread has no copy of.
THEOREM TypeCorrectness == Spec => []TypeInv
BY InitInv, NextInv, PTL DEF Spec

\* The type invariant the runs check, for every value of the constants.
THEOREM TypeSafety == Spec => []TypeOK
<1>1. TypeInv => TypeOK
  BY DEF TypeInv
<1>2. QED
  BY <1>1, TypeCorrectness, PTL


-----------------------------------------------------------------------------
(* Frames: which steps change a registry, the snapshots or channels.json.  *)

\* Only four requests and the record of a refresh write sources.json.
LEMMA SourcesFrame ==
    ASSUME [Next]_vars
    PROVE  \/ UNCHANGED sources
           \/ \E w \in Workers :
                \/ CreateSource(w) \/ UpdateSource(w) \/ DeleteSource(w)
                \/ RecordAccepted(w)
                \/ \E id \in Ids : RecordSource(w, id)
<1>1. CASE UNCHANGED vars
  BY <1>1 DEF vars, registries
<1>2. CASE \E w \in Workers : BeginOperation(w)
  BY <1>2 DEF BeginOperation, BeginRefresh, BeginView, BeginAddSource,
     BeginUpdateSource, BeginValidateSource, BeginDeleteSource,
     BeginCustomChannel, Begin, registries
<1>3. ASSUME NEW w \in Workers, Refresh(w)
      PROVE  UNCHANGED sources \/ \E id \in Ids : RecordSource(w, id)
  BY <1>3 DEF Refresh, RunUpdate, RefreshReadSources, RefreshReadCustom,
     FetchLoadCache, FetchSource, CommitSource, RefreshRaises, EndRefresh,
     registries
<1>4. ASSUME NEW w \in Workers, Rebuild(w) \/ Save(w) \/ SaveFails(w)
      PROVE  UNCHANGED sources
  BY <1>4 DEF Rebuild, Save, SaveFails, RebuildReadCustom, RebuildReadSources,
     RebuildLoad, SaveJson, SaveM3u, registries
<1>5. ASSUME NEW w \in Workers, Handle(w)
      PROVE  \/ UNCHANGED sources
             \/ CreateSource(w) \/ UpdateSource(w) \/ DeleteSource(w)
             \/ RecordAccepted(w)
  BY <1>5 DEF Handle, ViewReadSource, ViewLoadCache, GetForUpdate,
     GetForValidate, GetForDelete, Validate, SaveValidatedSnapshot,
     DeleteSourceSnapshot, MutateCustomChannel, registries
<1>6. CASE Tick \/ Crash \/ Rest
  BY <1>6, <1>1 DEF Tick, Crash, Rest, registries
<1>7. QED
  BY <1>1, <1>2, <1>3, <1>4, <1>5, <1>6 DEF Next, Work

\* Only the custom channel requests write custom_channels.json.
LEMMA CustomFrame ==
    ASSUME [Next]_vars
    PROVE  UNCHANGED custom \/ \E w \in Workers : MutateCustomChannel(w)
<1>1. CASE UNCHANGED vars
  BY <1>1 DEF vars, registries
<1>2. CASE \E w \in Workers : BeginOperation(w)
  BY <1>2 DEF BeginOperation, BeginRefresh, BeginView, BeginAddSource,
     BeginUpdateSource, BeginValidateSource, BeginDeleteSource,
     BeginCustomChannel, Begin, registries
<1>3. ASSUME NEW w \in Workers, Refresh(w)
      PROVE  UNCHANGED custom
  BY <1>3 DEF Refresh, RunUpdate, RefreshReadSources, RefreshReadCustom,
     FetchLoadCache, FetchSource, CommitSource, RecordSource, RefreshRaises,
     EndRefresh, registries
<1>4. ASSUME NEW w \in Workers, Rebuild(w) \/ Save(w) \/ SaveFails(w)
      PROVE  UNCHANGED custom
  BY <1>4 DEF Rebuild, Save, SaveFails, RebuildReadCustom, RebuildReadSources,
     RebuildLoad, SaveJson, SaveM3u, registries
<1>5. ASSUME NEW w \in Workers, Handle(w)
      PROVE  UNCHANGED custom \/ MutateCustomChannel(w)
  BY <1>5 DEF Handle, ViewReadSource, ViewLoadCache, GetForUpdate,
     GetForValidate, GetForDelete, Validate, CreateSource, UpdateSource,
     DeleteSource, SaveValidatedSnapshot, DeleteSourceSnapshot, RecordAccepted,
     registries
<1>6. CASE Tick \/ Crash \/ Rest
  BY <1>6, <1>1 DEF Tick, Crash, Rest, registries
<1>7. QED
  BY <1>1, <1>2, <1>3, <1>4, <1>5, <1>6 DEF Next, Work

\* Only the first write of a save changes channels.json.
LEMMA ChannelsFrame ==
    ASSUME [Next]_vars
    PROVE  UNCHANGED channels \/ \E w \in Workers : SaveJson(w)
<1>1. CASE UNCHANGED vars
  BY <1>1 DEF vars, outputs
<1>2. CASE \E w \in Workers : BeginOperation(w)
  BY <1>2 DEF BeginOperation, BeginRefresh, BeginView, BeginAddSource,
     BeginUpdateSource, BeginValidateSource, BeginDeleteSource,
     BeginCustomChannel, Begin, outputs
<1>3. ASSUME NEW w \in Workers, Refresh(w)
      PROVE  UNCHANGED channels
  BY <1>3 DEF Refresh, RunUpdate, RefreshReadSources, RefreshReadCustom,
     FetchLoadCache, FetchSource, CommitSource, RecordSource, RefreshRaises,
     EndRefresh, outputs
<1>4. ASSUME NEW w \in Workers, Rebuild(w) \/ Save(w) \/ SaveFails(w)
      PROVE  UNCHANGED channels \/ SaveJson(w)
  BY <1>4 DEF Rebuild, Save, SaveFails, RebuildReadCustom, RebuildReadSources,
     RebuildLoad, SaveM3u, outputs
<1>5. ASSUME NEW w \in Workers, Handle(w)
      PROVE  UNCHANGED channels
  BY <1>5 DEF Handle, ViewReadSource, ViewLoadCache, GetForUpdate,
     GetForValidate, GetForDelete, Validate, CreateSource, UpdateSource,
     DeleteSource, SaveValidatedSnapshot, DeleteSourceSnapshot, RecordAccepted,
     MutateCustomChannel, outputs
<1>6. CASE Tick \/ Crash \/ Rest
  BY <1>6, <1>1 DEF Tick, Crash, Rest, outputs
<1>7. QED
  BY <1>1, <1>2, <1>3, <1>4, <1>5, <1>6 DEF Next, Work

\* Snapshots are written by the loading of a cache entry, the commit of a
\* valid body, the two requests that replace or remove one, and nothing else.
LEMMA SnapFrame ==
    ASSUME [Next]_vars
    PROVE  \/ UNCHANGED snap
           \/ \E id, src : snap' = SnapAfterLoad(id, src)
           \/ \E w \in Workers :
                \/ SaveValidatedSnapshot(w) \/ DeleteSourceSnapshot(w)
                \/ \E id \in Ids : CommitSource(w, id)
<1>1. CASE UNCHANGED vars
  BY <1>1 DEF vars
<1>2. CASE \E w \in Workers : BeginOperation(w)
  BY <1>2 DEF BeginOperation, BeginRefresh, BeginView, BeginAddSource,
     BeginUpdateSource, BeginValidateSource, BeginDeleteSource,
     BeginCustomChannel, Begin
<1>3. ASSUME NEW w \in Workers, Refresh(w)
      PROVE  \/ UNCHANGED snap
             \/ \E id \in Ids : CommitSource(w, id)
             \/ \E id, src : snap' = SnapAfterLoad(id, src)
  <2>1. ASSUME NEW id \in Ids, FetchLoadCache(w, id)
        PROVE  snap' = SnapAfterLoad(id, th[w].view[id])
    BY <2>1 DEF FetchLoadCache
  <2>2. \/ UNCHANGED snap
        \/ \E id \in Ids : FetchLoadCache(w, id) \/ CommitSource(w, id)
    BY <1>3 DEF Refresh, RunUpdate, RefreshReadSources, RefreshReadCustom,
       FetchSource, RecordSource, RefreshRaises, EndRefresh
  <2>3. QED
    BY <2>1, <2>2
<1>4. ASSUME NEW w \in Workers, Rebuild(w) \/ Save(w) \/ SaveFails(w)
      PROVE  UNCHANGED snap \/ \E id, src : snap' = SnapAfterLoad(id, src)
  <2>1. ASSUME NEW id \in Ids, RebuildLoad(w, id)
        PROVE  UNCHANGED snap \/ snap' = SnapAfterLoad(id, th[w].view[id])
    BY <2>1 DEF RebuildLoad
  <2>2. UNCHANGED snap \/ \E id \in Ids : RebuildLoad(w, id)
    BY <1>4 DEF Rebuild, Save, SaveFails, RebuildReadCustom,
       RebuildReadSources, SaveJson, SaveM3u
  <2>3. QED
    BY <2>1, <2>2
<1>5. ASSUME NEW w \in Workers, Handle(w)
      PROVE  \/ UNCHANGED snap
             \/ SaveValidatedSnapshot(w) \/ DeleteSourceSnapshot(w)
             \/ \E id, src : snap' = SnapAfterLoad(id, src)
  <2>1. ASSUME ViewLoadCache(w)
        PROVE  snap' = SnapAfterLoad(th[w].id, th[w].view[th[w].id])
    BY <2>1 DEF ViewLoadCache
  <2>2. \/ UNCHANGED snap
        \/ ViewLoadCache(w) \/ SaveValidatedSnapshot(w)
        \/ DeleteSourceSnapshot(w)
    BY <1>5 DEF Handle, ViewReadSource, GetForUpdate, GetForValidate,
       GetForDelete, Validate, CreateSource, UpdateSource, DeleteSource,
       RecordAccepted, MutateCustomChannel
  <2>3. QED
    BY <2>1, <2>2
<1>6. CASE Tick \/ Crash \/ Rest
  BY <1>6, <1>1 DEF Tick, Crash, Rest
<1>7. QED
  BY <1>1, <1>2, <1>3, <1>4, <1>5, <1>6 DEF Next, Work

-----------------------------------------------------------------------------
(* The URLs of the sources and the identities of the custom channels.      *)

\* The record of a refresh keeps the registered sources, their URLs and their
\* switches.
LEMMA RecordKeepsEdits ==
    ASSUME TypeOK, NEW id \in Ids,
           NEW status \in {"valid", "notModified", "error", "notFound"},
           RecordRefresh(id, status)
    PROVE  /\ Registered(sources') = Registered(sources)
           /\ \A i \in Registered(sources) :
                /\ sources'[i].url = sources[i].url
                /\ sources'[i].enabled = sources[i].enabled
<1>1. CASE sources[id] = NoSource
  BY <1>1 DEF RecordRefresh
<1>2. CASE sources[id] # NoSource
  <2> DEFINE r == sources'[id]
  <2>1. /\ sources' \in Registry
        /\ \A i \in Ids \ {id} : sources'[i] = sources[i]
    BY <1>2, RecordType DEF TypeOK, RecordRefresh, Registry
  <2>2. /\ sources[id] \in Source
        /\ r \in {[sources[id] EXCEPT !.lastOk = now, !.lastError = "none"],
                  [sources[id] EXCEPT !.lastError = status]}
    BY <1>2 DEF TypeOK, RecordRefresh, Registry
  <2>3. r.url = sources[id].url /\ r.enabled = sources[id].enabled
    BY <2>2 DEF Source
  <2>4. r # NoSource
    <3>1. status \in Errors \/ r = [sources[id] EXCEPT !.lastOk = now,
                                                      !.lastError = "none"]
      BY <1>2 DEF TypeOK, RecordRefresh, Registry, Errors
    <3>2. r \in Source
      BY <2>2, <3>1 DEF Source, Errors, TypeOK
    <3>3. QED
      BY <3>2, NullAssumption
  <2>5. QED
    BY <1>2, <2>1, <2>3, <2>4 DEF Registered
<1>3. QED
  BY <1>1, <1>2

\* Every step keeps the URLs of the registered sources distinct.
LEMMA UrlsUniqueStep ==
    ASSUME TypeInv, UrlsUnique, [Next]_vars
    PROVE  UrlsUnique'
<1>1. TypeOK /\ \A w \in Workers : ThreadOK(th[w])
  BY DEF TypeInv
<1>2. CASE UNCHANGED sources
  BY <1>2 DEF UrlsUnique, Registered
<1>3. ASSUME NEW w \in Workers, CreateSource(w)
      PROVE  UrlsUnique'
  <2>1. CASE ~UrlFree(th[w].url, 0) \/ nextId > MaxId
    BY <1>2, <1>3, <2>1 DEF CreateSource
  <2>2. CASE UrlFree(th[w].url, 0) /\ nextId <= MaxId
    <3>1. nextId \in Ids
      BY <1>1, <2>2, CatalogAssumption DEF TypeOK, Ids
    <3>2. sources' = [sources EXCEPT ![nextId] =
            [url |-> th[w].url, enabled |-> th[w].val.status = "valid",
             lastOk |-> 0, lastError |-> "none"]]
      BY <1>1, <1>3, <2>2, <3>1, CatalogAssumption DEF CreateSource, Ids
    <3>3. \A i \in Registered(sources) : sources[i].url # th[w].url
      BY <2>2 DEF UrlFree, Registered, Ids
    <3>4. /\ Registered(sources') \subseteq Registered(sources) \cup {nextId}
          /\ sources'[nextId].url = th[w].url
          /\ \A i \in Ids \ {nextId} : sources'[i] = sources[i]
      BY <1>1, <3>1, <3>2 DEF TypeOK, Registry, Registered
    <3>5. QED
      BY <3>3, <3>4 DEF UrlsUnique, Registered
  <2>3. QED
    BY <1>1, <2>1, <2>2, CatalogAssumption DEF TypeOK
<1>4. ASSUME NEW w \in Workers, UpdateSource(w)
      PROVE  UrlsUnique'
  <2> DEFINE id == th[w].id
             next == IF th[w].url = NoUrl THEN sources[id].url ELSE th[w].url
  <2>1. CASE UNCHANGED sources
    BY <1>2, <2>1
  <2>2. CASE ~UNCHANGED sources
    <3>1. UrlFree(next, id) /\ sources[id] # NoSource
      BY <1>4, <2>2 DEF UpdateSource
    <3>2. PICK on : sources' = [sources EXCEPT ![id] =
                      [@ EXCEPT !.url = next, !.enabled = on]]
      BY <1>4, <2>2 DEF UpdateSource
    <3>3. id \in Ids /\ sources[id] \in Source
      BY <1>1, <1>4, <3>1 DEF UpdateSource, ThreadOK, InputOfLabel, At, TypeOK,
         Registry
    <3> HIDE DEF id, next
    <3>4. /\ sources'[id].url = next
          /\ \A i \in Ids \ {id} : sources'[i] = sources[i]
      BY <1>1, <3>2, <3>3 DEF TypeOK, Registry, Source
    <3>5. \A i \in Registered(sources) \ {id} : sources[i].url # next
      BY <3>1 DEF UrlFree
    <3>6. QED
      BY <3>4, <3>5 DEF UrlsUnique, Registered
  <2>3. QED
    BY <2>1, <2>2
<1>5. ASSUME NEW w \in Workers, DeleteSource(w)
      PROVE  UrlsUnique'
  <2>1. UNCHANGED sources \/ sources' = [sources EXCEPT ![th[w].id] = NoSource]
    BY <1>5 DEF DeleteSource
  <2>2. QED
    BY <1>1, <1>2, <2>1 DEF TypeOK, Registry, UrlsUnique, Registered
<1>6. ASSUME NEW w \in Workers, RecordAccepted(w)
      PROVE  UrlsUnique'
  <2>1. th[w].id \in Ids /\ RecordRefresh(th[w].id, "valid")
    BY <1>1, <1>6 DEF RecordAccepted, ThreadOK, InputOfLabel, At
  <2>2. QED
    BY <1>1, <2>1, RecordKeepsEdits DEF UrlsUnique
<1>7. ASSUME NEW w \in Workers, NEW id \in Ids, RecordSource(w, id)
      PROVE  UrlsUnique'
  <2>1. /\ RecordRefresh(id, Outcome(w, id))
        /\ th[w].got[id].status \in {"valid", "notModified", "error", "notFound"}
    BY <1>1, <1>7 DEF RecordSource, ThreadOK, ResultsKnown, At, TypeOK, Thread,
       Result
  <2>2. QED
    BY <1>1, <2>1, OutcomeType, RecordKeepsEdits DEF UrlsUnique
<1>8. QED
  BY <1>2, <1>3, <1>4, <1>5, <1>6, <1>7, SourcesFrame

\* The registry never has two sources with one URL: create_source and
\* update_source compare with the whole registry in the critical section that
\* writes it, whatever was read before the downloads they waited for.
THEOREM UrlsUniqueCorrect == Spec => []UrlsUnique
<1>1. Init => UrlsUnique
  BY CatalogAssumption DEF Init, UrlsUnique, Registered
<1>2. UrlsUnique /\ TypeInv /\ [Next]_vars => UrlsUnique'
  BY UrlsUniqueStep
<1>3. QED
  BY <1>1, <1>2, TypeCorrectness, PTL DEF Spec

\* No two custom channels ever have one identity: create and update compare
\* with every other custom channel in the critical section that writes.
THEOREM CustomUniqueCorrect == Spec => []CustomUnique
<1>1. Init => CustomUnique
  BY DEF Init, CustomUnique
<1>2. CustomUnique /\ TypeInv /\ [Next]_vars => CustomUnique'
  <2> SUFFICES ASSUME CustomUnique, TypeInv, [Next]_vars
               PROVE  CustomUnique'
    OBVIOUS
  <2>1. CASE UNCHANGED custom
    BY <2>1 DEF CustomUnique
  <2>2. ASSUME NEW w \in Workers, MutateCustomChannel(w), ~UNCHANGED custom
        PROVE  CustomUnique'
    <3> DEFINE c == th[w].cid
               s == IF th[w].op = "customDelete" THEN NoStream ELSE th[w].stream
    <3>1. /\ custom' = [custom EXCEPT ![c] = s]
          /\ s # NoStream => ~StreamTaken(s, c)
      BY <2>2 DEF MutateCustomChannel
    <3>2. c \in CustomIds /\ custom \in [CustomIds -> Streams \cup {NoStream}]
      BY <2>2 DEF MutateCustomChannel, At, TypeInv, ThreadOK, InputOfLabel, TypeOK
    <3> HIDE DEF c, s
    <3>3. custom'[c] = s /\ \A d \in CustomIds \ {c} : custom'[d] = custom[d]
      BY <3>1, <3>2
    <3>4. s # NoStream => \A d \in CustomIds \ {c} : custom[d] # s
      BY <3>1 DEF StreamTaken
    <3>5. QED
      BY <3>3, <3>4 DEF CustomUnique
  <2>3. QED
    BY <2>1, <2>2, CustomFrame
<1>3. QED
  BY <1>1, <1>2, TypeCorrectness, PTL DEF Spec

-----------------------------------------------------------------------------
(* The published channels.                                                 *)

\* A merge lists a stream once: a custom channel excludes the snapshots, and
\* of two snapshots the one of the lower id excludes the other.
LEMMA MergeListsOnce ==
    ASSUME NEW t \in Thread,
           NEW e \in MergeSourceSnapshots(t.seen, t.merged, t.view),
           NEW f \in MergeSourceSnapshots(t.seen, t.merged, t.view),
           e.stream = f.stream
    PROVE  e = f
<1> DEFINE Owned(g, id) ==
             /\ id \in Registered(t.view)
             /\ g.stream \in t.merged[id] \ t.seen
             /\ \A j \in Registered(t.view) : j < id => g.stream \notin t.merged[j]
             /\ g = [stream |-> g.stream, id |-> id, url |-> t.view[id].url]
           IsCustom(g) ==
             /\ g.stream \in t.seen
             /\ g = [stream |-> g.stream, id |-> CustomOwner, url |-> NoUrl]
<1>1. \A g \in MergeSourceSnapshots(t.seen, t.merged, t.view) :
        IsCustom(g) \/ \E id \in Registered(t.view) : Owned(g, id)
  BY DEF MergeSourceSnapshots
<1>2. Registered(t.view) \subseteq Nat
  BY DEF Registered, Ids
<1>3. ASSUME NEW i \in Registered(t.view), NEW j \in Registered(t.view),
             Owned(e, i), Owned(f, j)
      PROVE  i = j
  BY <1>2, <1>3
<1>4. QED
  BY <1>1, <1>3

\* channels.json never lists a stream twice, whatever snapshots, stand-ins and
\* custom channels the thread that wrote it had collected, and when.
THEOREM PublishedOnceCorrect == Spec => []PublishedOnce
<1>1. Init => PublishedOnce
  BY DEF Init, PublishedOnce
<1>2. PublishedOnce /\ TypeInv /\ [Next]_vars => PublishedOnce'
  <2> SUFFICES ASSUME PublishedOnce, TypeInv, [Next]_vars
               PROVE  PublishedOnce'
    OBVIOUS
  <2>1. CASE UNCHANGED channels
    BY <2>1 DEF PublishedOnce
  <2>2. ASSUME NEW w \in Workers, SaveJson(w)
        PROVE  PublishedOnce'
    <3>1. /\ th[w] \in Thread
          /\ channels' = MergeSourceSnapshots(th[w].seen, th[w].merged, th[w].view)
      BY <2>2 DEF SaveJson, TypeInv, TypeOK
    <3>2. QED
      BY <3>1, MergeListsOnce DEF PublishedOnce
  <2>3. QED
    BY <2>1, <2>2, ChannelsFrame
<1>3. QED
  BY <1>1, <1>2, TypeCorrectness, PTL DEF Spec

-----------------------------------------------------------------------------
(* The snapshots.                                                          *)

\* A snapshot never has the hash of another body, so a refresh that is answered
\* not_modified publishes the body that was hashed.
THEOREM SnapshotsSoundCorrect == Spec => []SnapshotsSound
<1>1. Init => SnapshotsSound
  BY DEF Init, SnapshotsSound
<1>2. SnapshotsSound /\ TypeInv /\ [Next]_vars => SnapshotsSound'
  <2> SUFFICES ASSUME SnapshotsSound, TypeInv, [Next]_vars
               PROVE  SnapshotsSound'
    OBVIOUS
  <2> USE DEF SnapshotsSound
  <2>1. /\ snap \in [Ids -> Snapshot \cup {NoSnap}]
        /\ \A w \in Workers : th[w] \in Thread /\ ThreadOK(th[w])
    BY DEF TypeInv, TypeOK
  <2>2. CASE UNCHANGED snap
    BY <2>2
  <2>3. ASSUME NEW id, NEW src, snap' = SnapAfterLoad(id, src)
        PROVE  SnapshotsSound'
    BY <2>1, <2>3 DEF SnapAfterLoad
  <2>4. ASSUME NEW w \in Workers, SaveValidatedSnapshot(w)
        PROVE  SnapshotsSound'
    <3>1. snap' = [snap EXCEPT ![th[w].id] =
            [channels |-> th[w].val.channels, hash |-> {}, at |-> now]]
      BY <2>4 DEF SaveValidatedSnapshot
    <3>2. QED
      BY <2>1, <3>1
  <2>5. ASSUME NEW w \in Workers, DeleteSourceSnapshot(w)
        PROVE  SnapshotsSound'
    BY <2>1, <2>5 DEF DeleteSourceSnapshot
  <2>6. ASSUME NEW w \in Workers, NEW id \in Ids, CommitSource(w, id)
        PROVE  SnapshotsSound'
    <3>1. PICK fresh : fresh = th[w].got[id].channels
      OBVIOUS
    <3>2. \/ UNCHANGED snap
          \/ snap' = [snap EXCEPT ![id] = [channels |-> fresh, hash |-> {fresh},
                                          at |-> now]]
      BY <2>6, <3>1 DEF CommitSource
    <3>3. QED
      BY <2>1, <3>2
  <2>7. QED
    BY <2>2, <2>3, <2>4, <2>5, <2>6, SnapFrame
<1>3. QED
  BY <1>1, <1>2, TypeCorrectness, PTL DEF Spec

-----------------------------------------------------------------------------
(* What a step does to the operation of its thread.                        *)

\* A thread is a record with an operation and a label.
LEMMA ThreadFields ==
    ASSUME NEW t \in Thread
    PROVE  /\ "op" \in DOMAIN t /\ "pc" \in DOMAIN t
           /\ t = [x \in DOMAIN t |-> t[x]]
BY DEF Thread

\* A thread that finishes has no operation.
LEMMA FinishOp ==
    ASSUME TypeOK, NEW w \in Workers, Finish(w)
    PROVE  th'[w].op = "none"
BY DEF TypeOK, Finish, Become, IdleThread

\* A thread keeps its operation until it finishes: in a refresh, ...
LEMMA RefreshKeepsOp ==
    ASSUME TypeOK, NEW w \in Workers, th[w] \in Thread, NEW id \in Ids,
           \/ RefreshReadSources(w) \/ RefreshReadCustom(w)
           \/ FetchLoadCache(w, id) \/ FetchSource(w, id)
           \/ CommitSource(w, id) \/ RecordSource(w, id)
    PROVE  th'[w].op = th[w].op /\ th'[w].pc # "lock"
<1> USE ThreadFields DEF TypeOK, Become
<1>1. CASE RefreshReadSources(w)
  BY <1>1 DEF RefreshReadSources
<1>2. CASE RefreshReadCustom(w)
  BY <1>2 DEF RefreshReadCustom
<1>3. CASE FetchLoadCache(w, id)
  BY <1>3 DEF FetchLoadCache, At
<1>4. CASE FetchSource(w, id)
  <2>1. PICK r, l : /\ l # "lock"
                    /\ Become(w, [th[w] EXCEPT !.got[id] = r, !.pc = l])
    BY <1>4, Zenon DEF FetchSource
  <2>2. QED
    BY <2>1
<1>5. CASE CommitSource(w, id)
  BY <1>5 DEF CommitSource
<1>6. CASE RecordSource(w, id)
  BY <1>6 DEF RecordSource
<1>7. QED
  BY <1>1, <1>2, <1>3, <1>4, <1>5, <1>6

\* ... in a rebuild, ...
LEMMA RebuildKeepsOp ==
    ASSUME TypeOK, NEW w \in Workers, th[w] \in Thread, Rebuild(w)
    PROVE  th'[w].op = th[w].op
<1> USE ThreadFields DEF TypeOK, Become
<1>1. CASE RebuildReadCustom(w)
  BY <1>1 DEF RebuildReadCustom
<1>2. CASE RebuildReadSources(w)
  BY <1>2 DEF RebuildReadSources
<1>3. ASSUME NEW id \in Ids, RebuildLoad(w, id)
      PROVE  th'[w].op = th[w].op
  BY <1>3 DEF RebuildLoad
<1>4. QED
  BY <1>1, <1>2, <1>3 DEF Rebuild

\* ... and in a request.
LEMMA HandleKeepsOp ==
    ASSUME TypeOK, NEW w \in Workers, th[w] \in Thread, Handle(w)
    PROVE  th'[w].op \in {th[w].op, "none"}
<1> DEFINE Kept == th'[w].op \in {th[w].op, "none"}
<1>1. CASE Finish(w)
  BY <1>1, FinishOp
<1>2. ASSUME ~Finish(w), ViewReadSource(w)
      PROVE  Kept
  <2>1. Become(w, [th[w] EXCEPT !.pc = "viewLoad", !.view = sources])
    BY <1>2 DEF ViewReadSource
  <2>2. QED
    BY <2>1, ThreadFields DEF TypeOK, Become
<1>3. ASSUME ~Finish(w), GetForUpdate(w)
      PROVE  Kept
  <2>1. \/ \E u : Become(w, [th[w] EXCEPT !.pc = "validate", !.asked = u])
        \/ Become(w, [th[w] EXCEPT !.pc = "mutate"])
    BY <1>3 DEF GetForUpdate
  <2>2. ASSUME NEW u, Become(w, [th[w] EXCEPT !.pc = "validate", !.asked = u])
        PROVE  Kept
    BY <2>2, ThreadFields DEF TypeOK, Become
  <2>3. CASE Become(w, [th[w] EXCEPT !.pc = "mutate"])
    BY <2>3, ThreadFields DEF TypeOK, Become
  <2>4. QED
    BY <2>1, <2>2, <2>3
<1>4. ASSUME ~Finish(w), GetForValidate(w)
      PROVE  Kept
  <2>1. PICK u : Become(w, [th[w] EXCEPT !.pc = "validate", !.asked = u])
    BY <1>4 DEF GetForValidate
  <2>2. QED
    BY <2>1, ThreadFields DEF TypeOK, Become
<1>5. ASSUME ~Finish(w), GetForDelete(w)
      PROVE  Kept
  <2>1. PICK id : Become(w, [th[w] EXCEPT !.pc = "mutate", !.id = id])
    BY <1>5 DEF GetForDelete
  <2>2. QED
    BY <2>1, ThreadFields DEF TypeOK, Become
<1>6. ASSUME ~Finish(w), Validate(w)
      PROVE  Kept
  <2>1. PICK r : Become(w, [th[w] EXCEPT !.pc = "mutate", !.val = r])
    BY <1>6 DEF Validate
  <2>2. QED
    BY <2>1, ThreadFields DEF TypeOK, Become
<1>7. ASSUME ~Finish(w), CreateSource(w)
      PROVE  Kept
  <2>1. Become(w, [th[w] EXCEPT !.pc = "snapshot", !.id = nextId])
    BY <1>7 DEF CreateSource
  <2>2. QED
    BY <2>1, ThreadFields DEF TypeOK, Become
<1>8. ASSUME ~Finish(w), UpdateSource(w)
      PROVE  Kept
  BY <1>8, ThreadFields DEF TypeOK, Become, UpdateSource
<1>9. ASSUME ~Finish(w), DeleteSource(w)
      PROVE  Kept
  BY <1>9, ThreadFields DEF TypeOK, Become, DeleteSource
<1>10. ASSUME ~Finish(w), SaveValidatedSnapshot(w) \/ DeleteSourceSnapshot(w)
       PROVE  Kept
  BY <1>10, ThreadFields
  DEF TypeOK, Become, SaveValidatedSnapshot, DeleteSourceSnapshot
<1>11. ASSUME ~Finish(w), MutateCustomChannel(w)
       PROVE  Kept
  BY <1>11, ThreadFields DEF TypeOK, Become, MutateCustomChannel
<1>12. QED
  BY <1>1, <1>2, <1>3, <1>4, <1>5, <1>6, <1>7, <1>8, <1>9, <1>10, <1>11
  DEF Handle, ViewLoadCache, RecordAccepted

\* A thread moves itself only.
LEMMA OthersKept ==
    ASSUME TypeOK, NEW w \in Workers, Work(w)
    PROVE  \A v \in Workers \ {w} : th'[v] = th[v]
<1> SUFFICES ASSUME NEW v \in Workers \ {w} PROVE th'[v] = th[v]
  OBVIOUS
<1> USE DEF Become, Finish, TypeOK
<1>1. CASE Refresh(w)
  BY <1>1 DEF Refresh, RunUpdate, RefreshReadSources, RefreshReadCustom,
     FetchLoadCache, FetchSource, CommitSource, RecordSource, RefreshRaises,
     EndRefresh
<1>2. CASE Rebuild(w) \/ Save(w)
  BY <1>2 DEF Rebuild, RebuildReadCustom, RebuildReadSources, RebuildLoad, Save,
     SaveJson, SaveM3u, AfterSave
<1>3. CASE Handle(w)
  BY <1>3 DEF Handle, ViewReadSource, ViewLoadCache, GetForUpdate,
     GetForValidate, GetForDelete, Validate, CreateSource, UpdateSource,
     DeleteSource, SaveValidatedSnapshot, DeleteSourceSnapshot, RecordAccepted,
     MutateCustomChannel
<1>4. QED
  BY <1>1, <1>2, <1>3 DEF Work

-----------------------------------------------------------------------------
(* The refresh locks.                                                      *)

\* The thread is between the acquisition and the release of the locks.
InsideRefresh(t) == t.op \in RefreshOps /\ t.pc \notin {"idle", "lock"}

\* Taking a state leaves the other threads alone.
LEMMA BecomeOnly ==
    ASSUME TypeOK, NEW w \in Workers, NEW r, Become(w, r)
    PROVE  th'[w] = r /\ \A v \in Workers \ {w} : th'[v] = th[v]
BY DEF TypeOK, Become

\* A thread that stays inside or outside leaves the locks with their holder.
LEMMA StayStep ==
    ASSUME LockHeldByRefresh, NEW w \in Workers,
           \A v \in Workers \ {w} : th'[v] = th[v],
           InsideRefresh(th'[w]) <=> InsideRefresh(th[w]),
           UNCHANGED refreshLock
    PROVE  LockHeldByRefresh'
BY DEF LockHeldByRefresh, InsideRefresh

\* A thread that finishes releases the locks exactly if it holds them.
LEMMA LeaveStep ==
    ASSUME TypeOK, LockHeldByRefresh, NEW w \in Workers, Finish(w),
           ReleaseIfHeld(w)
    PROVE  LockHeldByRefresh'
BY CatalogAssumption
DEF TypeOK, LockHeldByRefresh, Finish, Become, ReleaseIfHeld, IdleThread,
    RefreshOps

\* A thread outside a refresh that finishes leaves the locks alone.
LEMMA FinishOutsideStep ==
    ASSUME TypeOK, LockHeldByRefresh, NEW w \in Workers, Finish(w),
           ~InsideRefresh(th[w]), UNCHANGED refreshLock
    PROVE  LockHeldByRefresh'
BY DEF TypeOK, LockHeldByRefresh, InsideRefresh, Finish, Become, IdleThread,
   RefreshOps

\* What follows a save releases the locks of a refresh only.
LEMMA AfterSaveStep ==
    ASSUME TypeInv, LockHeldByRefresh, NEW w \in Workers,
           th[w].pc \in SaveLabels, AfterSave(w)
    PROVE  LockHeldByRefresh'
<1>1. TypeOK /\ th[w] \in Thread /\ ThreadOK(th[w])
  BY DEF TypeInv, TypeOK
<1>2. CASE Finish(w)
  BY <1>1, <1>2, LeaveStep DEF AfterSave
<1>3. CASE ~Finish(w)
  <2> DEFINE r == [th[w] EXCEPT !.pc = "accepted"]
  <2>1. /\ Become(w, r) /\ UNCHANGED refreshLock
        /\ th[w].val.status = "valid"
    BY <1>3 DEF AfterSave, ReleaseIfHeld
  <2>2. th[w].op \in EditOps /\ r.op = th[w].op
    BY <1>1, <2>1 DEF ThreadOK, ResultsKnown, Thread
  <2>3. ~InsideRefresh(r) /\ ~InsideRefresh(th[w])
    BY <2>2 DEF InsideRefresh, RefreshOps, EditOps
  <2>4. th'[w] = r /\ \A v \in Workers \ {w} : th'[v] = th[v]
    BY <1>1, <2>1, BecomeOnly
  <2>5. QED
    BY <2>1, <2>3, <2>4, StayStep
<1>4. QED
  BY <1>2, <1>3

\* Every step of a refresh keeps the locks with the thread inside it.
LEMMA RefreshLockStep ==
    ASSUME TypeInv, LockHeldByRefresh, NEW w \in Workers, Refresh(w)
    PROVE  LockHeldByRefresh'
<1> DEFINE t == th[w]
<1>1. TypeOK /\ t \in Thread /\ LabelOfOp(t)
  BY DEF TypeInv, TypeOK, ThreadOK
<1>2. CASE RunUpdate(w)
  <2>1. t.op \in RefreshOps /\ refreshLock = Free /\ t.pc = "lock"
    BY <1>1, <1>2 DEF RunUpdate, At, LabelOfOp
  <2>2. CASE Finish(w) /\ UNCHANGED refreshLock
    BY <1>1, <2>1, <2>2, FinishOutsideStep DEF InsideRefresh
  <2>3. CASE refreshLock' = w /\ Become(w, [t EXCEPT !.pc = "readSources"])
    <3>1. th' = [th EXCEPT ![w] = [t EXCEPT !.pc = "readSources"]]
      BY <2>3 DEF Become
    <3>2. /\ th'[w].op \in RefreshOps /\ th'[w].pc = "readSources"
          /\ \A v \in Workers \ {w} : th'[v] = th[v]
      BY <1>1, <2>1, <3>1 DEF TypeOK, Thread
    <3>3. \A v \in Workers : refreshLock # v
      BY <2>1, CatalogAssumption
    <3>4. QED
      BY <2>3, <3>2, <3>3 DEF LockHeldByRefresh
  <2>4. QED
    BY <1>2, <2>2, <2>3 DEF RunUpdate
<1>3. CASE \/ RefreshReadSources(w) \/ RefreshReadCustom(w)
           \/ \E id \in Ids : \/ FetchLoadCache(w, id) \/ FetchSource(w, id)
                              \/ CommitSource(w, id) \/ RecordSource(w, id)
  <2>1. t.op \in RefreshOps /\ t.pc \in RefreshLabels
    BY <1>1, <1>3 DEF RefreshReadSources, RefreshReadCustom, FetchLoadCache,
       FetchSource, CommitSource, RecordSource, At, LabelOfOp, RefreshLabels
  <2>2. th'[w].op = t.op /\ th'[w].pc # "lock"
    <3>1. PICK id \in Ids :
            \/ RefreshReadSources(w) \/ RefreshReadCustom(w)
            \/ FetchLoadCache(w, id) \/ FetchSource(w, id)
            \/ CommitSource(w, id) \/ RecordSource(w, id)
      <4>1. 1 \in Ids
        BY CatalogAssumption DEF Ids
      <4>2. QED
        BY <1>3, <4>1
    <3>2. QED
      BY <1>1, <3>1, RefreshKeepsOp
  <2>3. LabelOfOp(th'[w])
    BY RefreshInv DEF TypeInv, ThreadOK
  <2>4. InsideRefresh(th'[w]) /\ InsideRefresh(t)
    BY <2>1, <2>2, <2>3 DEF InsideRefresh, LabelOfOp, RefreshLabels, RefreshOps
  <2>5. UNCHANGED refreshLock
    BY <1>3 DEF RefreshReadSources, RefreshReadCustom, FetchLoadCache,
       FetchSource, CommitSource, RecordSource
  <2>6. QED
    BY <1>1, <2>4, <2>5, OthersKept, StayStep DEF Work
<1>4. CASE RefreshRaises(w)
  BY <1>1, <1>4, LeaveStep DEF RefreshRaises
<1>5. CASE EndRefresh(w)
  <2>1. t.op \in RefreshOps /\ t.pc = "commit"
    BY <1>1, <1>5 DEF EndRefresh, At, LabelOfOp, RefreshLabels
  <2>2. CASE Finish(w) /\ ReleaseIfHeld(w)
    BY <1>1, <2>2, LeaveStep
  <2>3. CASE Become(w, [t EXCEPT !.pc = "writeJson"]) /\ UNCHANGED refreshLock
    <3>1. InsideRefresh([t EXCEPT !.pc = "writeJson"]) /\ InsideRefresh(t)
      BY <1>1, <2>1 DEF InsideRefresh, Thread
    <3>2. QED
      BY <1>1, <2>3, <3>1, BecomeOnly, StayStep
  <2>4. QED
    BY <1>5, <2>2, <2>3 DEF EndRefresh
<1>6. QED
  BY <1>2, <1>3, <1>4, <1>5 DEF Refresh

\* Every step of a rebuild or of a request handler is outside a refresh.
LEMMA OutsideLockStep ==
    ASSUME TypeInv, LockHeldByRefresh, NEW w \in Workers,
           Rebuild(w) \/ Handle(w)
    PROVE  LockHeldByRefresh'
<1> DEFINE t == th[w]
<1>1. TypeOK /\ t \in Thread /\ LabelOfOp(t)
  BY DEF TypeInv, TypeOK, ThreadOK
<1>2. UNCHANGED refreshLock
  BY DEF Rebuild, RebuildReadCustom, RebuildReadSources, RebuildLoad, Handle,
     ViewReadSource, ViewLoadCache, GetForUpdate, GetForValidate, GetForDelete,
     Validate, CreateSource, UpdateSource, DeleteSource, SaveValidatedSnapshot,
     DeleteSourceSnapshot, RecordAccepted, MutateCustomChannel
<1>3. t.op \notin RefreshOps
  <2>1. t.pc \notin {"lock"} \cup RefreshLabels \cup SaveLabels
    BY DEF Rebuild, RebuildReadCustom, RebuildReadSources, RebuildLoad, Handle,
       ViewReadSource, ViewLoadCache, GetForUpdate, GetForValidate, GetForDelete,
       Validate, CreateSource, UpdateSource, DeleteSource, SaveValidatedSnapshot,
       DeleteSourceSnapshot, RecordAccepted, MutateCustomChannel, At,
       RefreshLabels, SaveLabels
  <2>2. QED
    BY <1>1, <2>1 DEF LabelOfOp
<1>4. CASE Finish(w)
  BY <1>1, <1>2, <1>3, <1>4, FinishOutsideStep DEF InsideRefresh
<1>5. CASE ~Finish(w)
  <2>1. th'[w].op \in {t.op, "none"}
    BY <1>1, RebuildKeepsOp, HandleKeepsOp
  <2>2. ~InsideRefresh(th'[w]) /\ ~InsideRefresh(t)
    BY <1>3, <2>1 DEF InsideRefresh, RefreshOps
  <2>3. QED
    BY <1>1, <1>2, <2>2, OthersKept, StayStep DEF Work
<1>6. QED
  BY <1>4, <1>5

\* Every step of a save keeps the locks of a refresh until the last write.
LEMMA SaveLockStep ==
    ASSUME TypeInv, LockHeldByRefresh, NEW w \in Workers,
           Save(w) \/ SaveFails(w)
    PROVE  LockHeldByRefresh'
<1>1. CASE SaveJson(w)
  <2>1. TypeOK /\ th[w] \in Thread /\ th[w].pc = "writeJson"
    BY <1>1 DEF SaveJson, At, TypeInv, TypeOK
  <2>2. /\ Become(w, [th[w] EXCEPT !.pc = "writeM3u"])
        /\ UNCHANGED refreshLock
    BY <1>1 DEF SaveJson
  <2>3. InsideRefresh([th[w] EXCEPT !.pc = "writeM3u"]) <=> InsideRefresh(th[w])
    BY <2>1 DEF InsideRefresh, Thread
  <2>4. QED
    BY <2>1, <2>2, <2>3, BecomeOnly, StayStep
<1>2. CASE SaveM3u(w) \/ SaveFails(w)
  BY <1>2, AfterSaveStep DEF SaveM3u, SaveFails, At, SaveLabels
<1>3. QED
  BY <1>1, <1>2 DEF Save

\* Taking up an operation leaves the locks alone.
LEMMA BeginLockStep ==
    ASSUME TypeInv, LockHeldByRefresh, NEW w \in Workers, BeginOperation(w)
    PROVE  LockHeldByRefresh'
<1>1. TypeOK
  BY DEF TypeInv
<1>2. PICK r : Begin(w, r) /\ ~InsideRefresh(r)
  <2>1. ASSUME BeginRefresh(w)
        PROVE  \E r : Begin(w, r) /\ ~InsideRefresh(r)
    <3>1. PICK op : Begin(w, [IdleThread EXCEPT !.pc = "lock", !.op = op])
      BY <2>1 DEF BeginRefresh
    <3>2. ~InsideRefresh([IdleThread EXCEPT !.pc = "lock", !.op = op])
      BY DEF InsideRefresh, IdleThread
    <3>3. QED
      BY <3>1, <3>2
  <2>2. ASSUME BeginView(w)
        PROVE  \E r : Begin(w, r) /\ ~InsideRefresh(r)
    <3>1. PICK id : Begin(w, [IdleThread EXCEPT !.pc = "viewRead", !.op = "view",
                                                !.id = id])
      BY <2>2 DEF BeginView
    <3>2. ~InsideRefresh([IdleThread EXCEPT !.pc = "viewRead", !.op = "view",
                                            !.id = id])
      BY DEF InsideRefresh, IdleThread, RefreshOps
    <3>3. QED
      BY <3>1, <3>2
  <2>3. ASSUME BeginAddSource(w)
        PROVE  \E r : Begin(w, r) /\ ~InsideRefresh(r)
    <3>1. PICK url, allow :
            Begin(w, [IdleThread EXCEPT !.pc = "validate", !.op = "add",
                                        !.url = url, !.asked = url,
                                        !.allow = allow])
      BY <2>3 DEF BeginAddSource
    <3>2. ~InsideRefresh([IdleThread EXCEPT !.pc = "validate", !.op = "add",
                                        !.url = url, !.asked = url,
                                        !.allow = allow])
      BY DEF InsideRefresh, IdleThread, RefreshOps
    <3>3. QED
      BY <3>1, <3>2
  <2>4. ASSUME BeginUpdateSource(w)
        PROVE  \E r : Begin(w, r) /\ ~InsideRefresh(r)
    <3>1. PICK id, url, enable, allow :
            Begin(w, [IdleThread EXCEPT !.pc = "get", !.op = "patch", !.id = id,
                                        !.url = url, !.enable = enable,
                                        !.allow = allow])
      BY <2>4 DEF BeginUpdateSource
    <3>2. ~InsideRefresh([IdleThread EXCEPT !.pc = "get", !.op = "patch",
                                        !.id = id, !.url = url,
                                        !.enable = enable, !.allow = allow])
      BY DEF InsideRefresh, IdleThread, RefreshOps
    <3>3. QED
      BY <3>1, <3>2
  <2>5. ASSUME BeginValidateSource(w)
        PROVE  \E r : Begin(w, r) /\ ~InsideRefresh(r)
    <3>1. PICK id, enable :
            Begin(w, [IdleThread EXCEPT !.pc = "get", !.op = "validate",
                                        !.id = id, !.enable = enable,
                                        !.allow = TRUE])
      BY <2>5 DEF BeginValidateSource
    <3>2. ~InsideRefresh([IdleThread EXCEPT !.pc = "get", !.op = "validate",
                                        !.id = id, !.enable = enable,
                                        !.allow = TRUE])
      BY DEF InsideRefresh, IdleThread, RefreshOps
    <3>3. QED
      BY <3>1, <3>2
  <2>6. ASSUME BeginDeleteSource(w)
        PROVE  \E r : Begin(w, r) /\ ~InsideRefresh(r)
    <3>1. ASSUME NEW id, Begin(w, [IdleThread EXCEPT !.pc = "mutate",
                                      !.op = "delete", !.id = id])
          PROVE  \E r : Begin(w, r) /\ ~InsideRefresh(r)
      <4>1. ~InsideRefresh([IdleThread EXCEPT !.pc = "mutate", !.op = "delete",
                                              !.id = id])
        BY DEF InsideRefresh, IdleThread, RefreshOps
      <4>2. QED
        BY <3>1, <4>1
    <3>2. ASSUME NEW url, Begin(w, [IdleThread EXCEPT !.pc = "get",
                                      !.op = "deleteByUrl", !.url = url])
          PROVE  \E r : Begin(w, r) /\ ~InsideRefresh(r)
      <4>1. ~InsideRefresh([IdleThread EXCEPT !.pc = "get", !.op = "deleteByUrl",
                                              !.url = url])
        BY DEF InsideRefresh, IdleThread, RefreshOps
      <4>2. QED
        BY <3>2, <4>1
    <3>3. QED
      BY <2>6, <3>1, <3>2 DEF BeginDeleteSource
  <2>7. ASSUME BeginCustomChannel(w)
        PROVE  \E r : Begin(w, r) /\ ~InsideRefresh(r)
    <3>1. PICK op \in {"customCreate", "customUpdate", "customDelete"},
               c \in CustomIds, s \in Streams :
            Begin(w, [IdleThread EXCEPT !.pc = "mutateCustom", !.op = op,
                                        !.cid = c, !.stream = s])
      BY <2>7 DEF BeginCustomChannel
    <3>2. ~InsideRefresh([IdleThread EXCEPT !.pc = "mutateCustom", !.op = op,
                                        !.cid = c, !.stream = s])
      BY DEF InsideRefresh, IdleThread, RefreshOps
    <3>3. QED
      BY <3>1, <3>2
  <2>8. QED
    BY <2>1, <2>2, <2>3, <2>4, <2>5, <2>6, <2>7 DEF BeginOperation
<1>3. Become(w, r) /\ UNCHANGED refreshLock /\ ~InsideRefresh(th[w])
  BY <1>2 DEF Begin, At, InsideRefresh
<1>4. QED
  BY <1>1, <1>2, <1>3, BecomeOnly, StayStep

\* The refresh locks are held by exactly the thread inside a refresh: no early
\* return or exception of a refresh keeps them, and no rebuild, request or
\* second refresh is ever taken for their holder.
THEOREM LockHeldByRefreshCorrect == Spec => []LockHeldByRefresh
<1>1. Init => LockHeldByRefresh
  BY CatalogAssumption DEF Init, LockHeldByRefresh, IdleThread, RefreshOps
<1>2. LockHeldByRefresh /\ TypeInv /\ [Next]_vars => LockHeldByRefresh'
  <2> SUFFICES ASSUME LockHeldByRefresh, TypeInv, [Next]_vars
               PROVE  LockHeldByRefresh'
    OBVIOUS
  <2>1. ASSUME NEW w \in Workers, BeginOperation(w)
        PROVE  LockHeldByRefresh'
    BY <2>1, BeginLockStep
  <2>2. ASSUME NEW w \in Workers, Work(w) \/ SaveFails(w)
        PROVE  LockHeldByRefresh'
    BY <2>2, RefreshLockStep, OutsideLockStep, SaveLockStep DEF Work
  <2>3. CASE Tick
    BY <2>3 DEF Tick, LockHeldByRefresh
  <2>4. CASE Crash
    BY <2>4, CatalogAssumption
    DEF Crash, LockHeldByRefresh, IdleThread, RefreshOps
  <2>5. CASE UNCHANGED vars
    BY <2>5 DEF vars, LockHeldByRefresh
  <2>6. QED
    BY <2>1, <2>2, <2>3, <2>4, <2>5 DEF Next, Rest
<1>3. QED
  BY <1>1, <1>2, TypeCorrectness, PTL DEF Spec

-----------------------------------------------------------------------------
(* What a refresh leaves alone.                                            *)

\* A refresh never undoes an edit made while it was downloading: its writes to
\* sources.json go through the current registry, not through its copy.
THEOREM RefreshKeepsEditsCorrect == Spec => RefreshKeepsEdits
<1> DEFINE Edits == /\ Registered(sources') = Registered(sources)
                    /\ \A id \in Registered(sources) :
                         /\ sources'[id].url = sources[id].url
                         /\ sources'[id].enabled = sources[id].enabled
           Kept == \A w \in Workers :
                     th[w].op \in RefreshOps /\ th'[w] # th[w] => Edits
<1>1. TypeInv /\ [Next]_vars => Kept
  <2> SUFFICES ASSUME TypeInv, [Next]_vars PROVE Kept
    OBVIOUS
  <2>1. TypeOK /\ \A w \in Workers : th[w] \in Thread /\ ThreadOK(th[w])
    BY DEF TypeInv, TypeOK
  <2>2. CASE UNCHANGED sources
    BY <2>2
  <2>3. ASSUME NEW w \in Workers,
               \/ CreateSource(w) \/ UpdateSource(w) \/ DeleteSource(w)
               \/ RecordAccepted(w)
        PROVE  Kept
    <3>1. th[w].op \notin RefreshOps
      BY <2>1, <2>3 DEF CreateSource, UpdateSource, DeleteSource, RecordAccepted,
         At, ThreadOK, LabelOfOp, EditOps, RefreshOps
    <3>2. \A v \in Workers \ {w} : th'[v] = th[v]
      BY <2>1, <2>3, OthersKept DEF Work, Handle
    <3>3. QED
      BY <3>1, <3>2
  <2>4. ASSUME NEW w \in Workers, NEW id \in Ids, RecordSource(w, id)
        PROVE  Edits
    <3>1. /\ RecordRefresh(id, Outcome(w, id))
          /\ th[w].got[id].status \in {"valid", "notModified", "error", "notFound"}
      BY <2>1, <2>4 DEF RecordSource, ThreadOK, ResultsKnown, At, Thread, Result
    <3>2. QED
      BY <2>1, <3>1, OutcomeType, RecordKeepsEdits
  <2>5. QED
    BY <2>2, <2>3, <2>4, SourcesFrame
<1>2. TypeInv /\ [Next]_vars => [Kept]_vars
  BY <1>1
<1>3. QED
  BY <1>2, TypeCorrectness, PTL DEF Spec, RefreshKeepsEdits
=============================================================================
