--------------------------- MODULE CatalogRefresh ---------------------------
(***************************************************************************)
(* channel_manager.py: the refresh of every enabled source under the       *)
(* refresh locks, the rebuild of the outputs from the snapshots, and the   *)
(* save both end with.                                                     *)
(***************************************************************************)
EXTENDS CatalogState

-----------------------------------------------------------------------------
(* A refresh: _run_update and _update_channels_locked.                     *)

IsUpdateDue == channelsAt = 0 \/ now >= channelsAt + Interval

\* Both locks are free: take them and go on, unless a scheduled refresh finds
\* channels.json young enough, which releases them at once.
RunUpdate(w) ==
    /\ At(w, "lock")
    /\ refreshLock = Free
    /\ IF th[w].op = "refresh" \/ IsUpdateDue
         THEN /\ refreshLock' = w
              /\ Become(w, [th[w] EXCEPT !.pc = "readSources"])
         ELSE Finish(w) /\ UNCHANGED refreshLock
    /\ UNCHANGED <<snap, registries, outputs, bounds>>

RefreshReadSources(w) ==
    /\ At(w, "readSources")
    /\ Become(w, [th[w] EXCEPT !.pc = "readCustom", !.view = sources])
    /\ UNCHANGED <<snap, refreshLock, registries, outputs, bounds>>

\* With no enabled source only the custom channels are published.
RefreshReadCustom(w) ==
    /\ At(w, "readCustom")
    /\ LET enabled == EnabledIn(th[w].view)
       IN  Become(w, [th[w] EXCEPT !.seen = CustomStreams, !.todo = enabled,
                        !.pc = IF enabled = {} THEN "writeJson" ELSE "fetch"])
    /\ UNCHANGED <<snap, refreshLock, registries, outputs, bounds>>

\* _fetch_source of one source, in any order: first its cache entry, ...
FetchLoadCache(w, id) ==
    /\ At(w, "fetch")
    /\ id \in th[w].todo
    /\ th[w].got[id].status = "none"
    /\ Become(w, [th[w] EXCEPT
                    !.cached[id] = LoadSourceCacheEntry(id, th[w].view[id]),
                    !.got[id] = [@ EXCEPT !.status = "loaded"]])
    /\ snap' = SnapAfterLoad(id, th[w].view[id])
    /\ UNCHANGED <<refreshLock, registries, outputs, bounds>>

\* ... then the download.  The pool is left once every download has ended.
FetchSource(w, id) ==
    /\ At(w, "fetch")
    /\ id \in th[w].todo
    /\ th[w].got[id].status = "loaded"
    /\ \E r \in Validations(th[w].view[id].url, th[w].cached[id].hash) :
        Become(w, [th[w] EXCEPT
            !.got[id] = r,
            !.pc = IF \A j \in th[w].todo \ {id} :
                        th[w].got[j].status \notin {"none", "loaded"}
                     THEN "commit" ELSE "fetch"])
    /\ UNCHANGED <<snap, refreshLock, registries, outputs, bounds>>

Raised(w) == \E id \in Ids : th[w].got[id].status = "raised"

\* The handler of an unexpected exception builds its result with
\* source_validator.ValidationResult, an attribute of the module that the
\* instance of that name does not have: the refresh ends with an exception.
RefreshRaises(w) ==
    /\ At(w, "commit")
    /\ Raised(w)
    /\ Finish(w)
    /\ ReleaseIfHeld(w)
    /\ UNCHANGED <<snap, registries, outputs, bounds>>

\* Mutant: an empty response counts like any other.
OutcomeAsIs(w, id) == th[w].got[id].status

\* What the result of a source counts as: a response that is valid but empty
\* must not replace channels that were cached.
Outcome(w, id) ==
    LET r == th[w].got[id]
    IN  IF r.status = "valid" /\ r.channels = {} /\ th[w].cached[id].channels # {}
          THEN "error" ELSE r.status

\* The next result in registry order: a fresh body replaces the snapshot, an
\* unmodified one reuses the cached channels, a failure keeps them unless the
\* snapshot has expired.
CommitSource(w, id) ==
    /\ At(w, "commit")
    /\ ~Raised(w)
    /\ id \in th[w].todo
    /\ \A j \in th[w].todo : id <= j
    /\ LET fresh == th[w].got[id].channels
           src == th[w].view[id]
           outcome == Outcome(w, id)
           kept == CASE outcome = "valid" -> fresh
                     [] outcome = "notModified" -> th[w].cached[id].channels
                     [] OTHER -> IF IsCacheExpired(id, src, outcome)
                                   THEN {} ELSE th[w].cached[id].channels
       IN  /\ Become(w, [th[w] EXCEPT
                !.pc = "record",
                !.merged[id] = kept,
                !.ok = @ \/ outcome \in {"valid", "notModified"}])
           /\ snap' = IF outcome = "valid"
                        THEN [snap EXCEPT ![id] = [channels |-> fresh,
                                                   hash |-> {fresh},
                                                   at |-> now]]
                        ELSE snap
    /\ UNCHANGED <<refreshLock, registries, outputs, bounds>>

\* Mutant: the copy read before the downloads is written back.
RecordSourceStale(w, id) ==
    /\ At(w, "record")
    /\ id \in th[w].todo
    /\ \A j \in th[w].todo : id <= j
    /\ sources' = th[w].view
    /\ Become(w, [th[w] EXCEPT !.pc = "commit", !.todo = @ \ {id}])
    /\ UNCHANGED <<nextId, custom, snap, refreshLock, outputs, bounds>>

RecordSource(w, id) ==
    /\ At(w, "record")
    /\ id \in th[w].todo
    /\ \A j \in th[w].todo : id <= j
    /\ RecordRefresh(id, Outcome(w, id))
    /\ Become(w, [th[w] EXCEPT !.pc = "commit", !.todo = @ \ {id}])
    /\ UNCHANGED <<nextId, custom, snap, refreshLock, outputs, bounds>>

\* Every result is committed.  If all failed and some snapshot is within its
\* TTL (computed without the error), channels.json is preserved.
EndRefresh(w) ==
    /\ At(w, "commit")
    /\ ~Raised(w)
    /\ th[w].todo = {}
    /\ LET allExpired == \A id \in EnabledIn(th[w].view) :
                            IsCacheExpired(id, th[w].view[id], "none")
       IN  IF ~th[w].ok /\ ~allExpired /\ channelsAt # 0
             THEN Finish(w) /\ ReleaseIfHeld(w)
             ELSE /\ Become(w, [th[w] EXCEPT !.pc = "writeJson"])
                  /\ UNCHANGED refreshLock
    /\ UNCHANGED <<snap, registries, outputs, bounds>>

-----------------------------------------------------------------------------
(* rebuild_from_cache, which takes no lock across its steps.               *)

\* Mutant: the rebuild merges the source snapshots only.
RebuildForgetCustom(w) ==
    /\ At(w, "rebuildCustom")
    /\ Become(w, [th[w] EXCEPT !.pc = "rebuildSources"])
    /\ UNCHANGED <<snap, refreshLock, registries, outputs, bounds>>

RebuildReadCustom(w) ==
    /\ At(w, "rebuildCustom")
    /\ Become(w, [th[w] EXCEPT !.pc = "rebuildSources", !.seen = CustomStreams])
    /\ UNCHANGED <<snap, refreshLock, registries, outputs, bounds>>

RebuildReadSources(w) ==
    /\ At(w, "rebuildSources")
    /\ LET enabled == EnabledIn(sources)
       IN  Become(w, [th[w] EXCEPT
                        !.view = sources, !.todo = enabled,
                        !.pc = IF enabled = {} THEN "writeJson" ELSE "load"])
    /\ UNCHANGED <<snap, refreshLock, registries, outputs, bounds>>

\* The next enabled source: skipped when its snapshot has expired.  The
\* expiry check and the load are one step.
RebuildLoad(w, id) ==
    /\ At(w, "load")
    /\ id \in th[w].todo
    /\ \A j \in th[w].todo : id <= j
    /\ LET src == th[w].view[id]
           expired == IsCacheExpired(id, src, src.lastError)
       IN  /\ Become(w, [th[w] EXCEPT
                !.merged[id] = IF expired THEN {}
                               ELSE LoadSourceCacheEntry(id, src).channels,
                !.todo = @ \ {id},
                !.pc = IF th[w].todo = {id} THEN "writeJson" ELSE "load"])
           /\ snap' = IF expired THEN snap ELSE SnapAfterLoad(id, src)
    /\ UNCHANGED <<refreshLock, registries, outputs, bounds>>

-----------------------------------------------------------------------------
(* _save_global_outputs, at the end of a refresh and of a rebuild.         *)

\* What follows the save: a refresh releases its locks; a request that
\* accepted a validation still records it.
AfterSave(w) ==
    /\ ReleaseIfHeld(w)
    /\ IF refreshLock # w /\ th[w].val.status = "valid"
         THEN Become(w, [th[w] EXCEPT !.pc = "accepted"])
         ELSE Finish(w)

SaveJson(w) ==
    /\ At(w, "writeJson")
    /\ channels' = MergeSourceSnapshots(th[w].seen, th[w].merged, th[w].view)
    /\ channelsAt' = now
    /\ Become(w, [th[w] EXCEPT !.pc = "writeM3u"])
    /\ UNCHANGED <<snap, m3u, refreshLock, registries, bounds>>

SaveM3u(w) ==
    /\ At(w, "writeM3u")
    /\ m3u' = RenderDirectM3u(MergeSourceSnapshots(th[w].seen, th[w].merged,
                                                   th[w].view))
    /\ AfterSave(w)
    /\ UNCHANGED <<snap, channels, channelsAt, registries, bounds>>

\* Either write fails; the exception is caught and False returned.
SaveFails(w) ==
    /\ th[w].pc \in SaveLabels
    /\ faults < MaxFaults
    /\ faults' = faults + 1
    /\ AfterSave(w)
    /\ UNCHANGED <<snap, now, ops, registries, outputs>>
=============================================================================
