-------------------------- MODULE CatalogHandlers --------------------------
(***************************************************************************)
(* The request handlers of routes.py that change the catalogue, with the   *)
(* critical sections of source_manager.py and custom_channel_manager.py    *)
(* they go through.  Each ends in the rebuild of CatalogRefresh (labels    *)
(* rebuildCustom ... writeM3u), which hands back to RecordAccepted.        *)
(***************************************************************************)
EXTENDS CatalogState

-----------------------------------------------------------------------------
(* Requests arrive.                                                        *)

\* An idle thread takes up an operation.
Begin(w, r) ==
    /\ At(w, "idle")
    /\ r.op \in Handlers[w]
    /\ ops < MaxOps
    /\ ops' = ops + 1
    /\ Become(w, r)
    /\ UNCHANGED <<snap, refreshLock, now, faults, registries, outputs>>

\* POST /api/sources/refresh, a stale GET /api/channels, or the scheduler.
BeginRefresh(w) ==
    \E op \in {"refresh", "scheduled"} :
        Begin(w, [IdleThread EXCEPT !.pc = "lock", !.op = op])

BeginView(w) ==
    \E id \in Ids :
        Begin(w, [IdleThread EXCEPT !.pc = "viewRead", !.op = "view", !.id = id])

BeginAddSource(w) ==
    \E url \in Urls, allow \in BOOLEAN :
        Begin(w, [IdleThread EXCEPT !.pc = "validate", !.op = "add",
                                    !.url = url, !.asked = url, !.allow = allow])

BeginUpdateSource(w) ==
    \E id \in Ids, url \in Urls \cup {NoUrl}, enable \in Switch, allow \in BOOLEAN :
        Begin(w, [IdleThread EXCEPT !.pc = "get", !.op = "patch", !.id = id,
                                    !.url = url, !.enable = enable,
                                    !.allow = allow])

BeginValidateSource(w) ==
    \E id \in Ids, enable \in {"keep", "on"} :
        Begin(w, [IdleThread EXCEPT !.pc = "get", !.op = "validate", !.id = id,
                                    !.enable = enable, !.allow = TRUE])

BeginDeleteSource(w) ==
    \/ \E id \in Ids :
        Begin(w, [IdleThread EXCEPT !.pc = "mutate", !.op = "delete", !.id = id])
    \/ \E url \in Urls :
        Begin(w, [IdleThread EXCEPT !.pc = "get", !.op = "deleteByUrl",
                                    !.url = url])

BeginCustomChannel(w) ==
    \E op \in {"customCreate", "customUpdate", "customDelete"}, c \in CustomIds,
       s \in Streams :
        Begin(w, [IdleThread EXCEPT !.pc = "mutateCustom", !.op = op,
                                    !.cid = c, !.stream = s])

-----------------------------------------------------------------------------
(* The request handlers.                                                   *)

\* GET /api/channels?source=<id> and GET /api/sources: read the registry,
\* then load the cache of a source of that copy.
ViewReadSource(w) ==
    /\ At(w, "viewRead")
    /\ IF sources[th[w].id] = NoSource
         THEN Finish(w)
         ELSE Become(w, [th[w] EXCEPT !.pc = "viewLoad", !.view = sources])
    /\ UNCHANGED <<snap, refreshLock, registries, outputs, bounds>>

ViewLoadCache(w) ==
    /\ At(w, "viewLoad")
    /\ snap' = SnapAfterLoad(th[w].id, th[w].view[th[w].id])
    /\ Finish(w)
    /\ UNCHANGED <<refreshLock, registries, outputs, bounds>>

\* Mutant: enabling asks for no validation.
NeedsValidationOfUrl(source, next, wanted) == next # source.url

NeedsValidation(source, next, wanted) ==
    next # source.url \/ (wanted /\ ~source.enabled)

\* get_source of PATCH: a new URL, or enabling a disabled source, asks for a
\* validation of the URL the source will have.
GetForUpdate(w) ==
    /\ At(w, "get") /\ th[w].op = "patch"
    /\ LET current == sources[th[w].id]
           next == IF th[w].url = NoUrl THEN current.url ELSE th[w].url
       IN  IF current = NoSource THEN Finish(w)
           ELSE IF NeedsValidation(current, next, th[w].enable = "on")
           THEN Become(w, [th[w] EXCEPT !.pc = "validate", !.asked = next])
           ELSE Become(w, [th[w] EXCEPT !.pc = "mutate"])
    /\ UNCHANGED <<snap, refreshLock, registries, outputs, bounds>>

GetForValidate(w) ==
    /\ At(w, "get") /\ th[w].op = "validate"
    /\ IF sources[th[w].id] = NoSource
         THEN Finish(w)
         ELSE Become(w, [th[w] EXCEPT !.pc = "validate",
                                      !.asked = sources[th[w].id].url])
    /\ UNCHANGED <<snap, refreshLock, registries, outputs, bounds>>

\* delete_source_by_url finds the id first and deletes by id afterwards.
GetForDelete(w) ==
    /\ At(w, "get") /\ th[w].op = "deleteByUrl"
    /\ \/ /\ \A id \in Registered(sources) : sources[id].url # th[w].url
          /\ Finish(w)
       \/ \E id \in Registered(sources) :
            /\ sources[id].url = th[w].url
            /\ Become(w, [th[w] EXCEPT !.pc = "mutate", !.id = id])
    /\ UNCHANGED <<snap, refreshLock, registries, outputs, bounds>>

\* The download of a handler.  An exception answers 500; an invalid source is
\* refused unless the request allows keeping it disabled.
Validate(w) ==
    /\ At(w, "validate")
    /\ \E r \in Validations(th[w].asked, {}) :
        IF r.status = "raised" \/ (r.status # "valid" /\ ~th[w].allow)
          THEN Finish(w)
          ELSE Become(w, [th[w] EXCEPT !.pc = "mutate", !.val = r])
    /\ UNCHANGED <<snap, refreshLock, registries, outputs, bounds>>

\* create_source: the new source is appended, enabled iff it validated.  The
\* bound MaxId is met by refusing one more.
CreateSource(w) ==
    /\ At(w, "mutate") /\ th[w].op = "add"
    /\ IF ~UrlFree(th[w].url, 0) \/ nextId > MaxId
         THEN Finish(w) /\ UNCHANGED <<sources, nextId>>
         ELSE LET valid == th[w].val.status = "valid" IN
              /\ sources' = [sources EXCEPT ![nextId] =
                    [url |-> th[w].url, enabled |-> valid, lastOk |-> 0,
                     lastError |-> "none"]]
              /\ nextId' = nextId + 1
              /\ IF valid
                   THEN Become(w, [th[w] EXCEPT !.pc = "snapshot", !.id = nextId])
                   ELSE Finish(w)
    /\ UNCHANGED <<custom, snap, refreshLock, outputs, bounds>>

\* update_source: everything is decided again on the registry as it is now,
\* except that the validation in hand is of the URL read before.
UpdateSource(w) ==
    /\ At(w, "mutate") /\ th[w].op \in {"patch", "validate"}
    /\ LET id == th[w].id
           source == sources[id]
           next == IF th[w].url = NoUrl THEN source.url ELSE th[w].url
           wanted == IF th[w].enable = "keep" THEN source.enabled
                     ELSE th[w].enable = "on"
           status == th[w].val.status
           needed == NeedsValidation(source, next, wanted)
           refused == ~UrlFree(next, id) \/ (needed /\ status = "none")
       IN  IF source = NoSource \/ refused
             THEN Finish(w) /\ UNCHANGED sources
             ELSE /\ sources' = [sources EXCEPT ![id] =
                        [@ EXCEPT !.url = next,
                                  !.enabled = wanted /\ status \in {"none", "valid"}]]
                  /\ IF status = "valid"
                       THEN Become(w, [th[w] EXCEPT !.pc = "snapshot"])
                     ELSE IF th[w].op = "patch"
                       THEN Become(w, [th[w] EXCEPT !.pc = "rebuildCustom"])
                     ELSE Finish(w)
    /\ UNCHANGED <<nextId, custom, snap, refreshLock, outputs, bounds>>

DeleteSource(w) ==
    /\ At(w, "mutate") /\ th[w].op \in {"delete", "deleteByUrl"}
    /\ IF sources[th[w].id] = NoSource
         THEN Finish(w) /\ UNCHANGED sources
         ELSE /\ sources' = [sources EXCEPT ![th[w].id] = NoSource]
              /\ Become(w, [th[w] EXCEPT !.pc = "unlink"])
    /\ UNCHANGED <<nextId, custom, snap, refreshLock, outputs, bounds>>

\* Mutant: the hash of the previous body is kept.
SaveSnapshotKeepingHash(w) ==
    /\ At(w, "snapshot")
    /\ snap' = [snap EXCEPT ![th[w].id] =
         [channels |-> th[w].val.channels, at |-> now,
          hash |-> IF snap[th[w].id] = NoSnap THEN {} ELSE snap[th[w].id].hash]]
    /\ Become(w, [th[w] EXCEPT !.pc = "rebuildCustom"])
    /\ UNCHANGED <<refreshLock, registries, outputs, bounds>>

\* Mutant: the outputs are rebuilt from the previous snapshot.
SkipSnapshot(w) ==
    /\ At(w, "snapshot")
    /\ Become(w, [th[w] EXCEPT !.pc = "rebuildCustom"])
    /\ UNCHANGED <<snap, refreshLock, registries, outputs, bounds>>

\* accept_validated_source: the snapshot is replaced, without a hash, then the
\* outputs are rebuilt.
SaveValidatedSnapshot(w) ==
    /\ At(w, "snapshot")
    /\ snap' = [snap EXCEPT ![th[w].id] = [channels |-> th[w].val.channels,
                                           hash |-> {}, at |-> now]]
    /\ Become(w, [th[w] EXCEPT !.pc = "rebuildCustom"])
    /\ UNCHANGED <<refreshLock, registries, outputs, bounds>>

\* Mutant: the snapshot file is left behind.
KeepSourceSnapshot(w) ==
    /\ At(w, "unlink")
    /\ Become(w, [th[w] EXCEPT !.pc = "rebuildCustom"])
    /\ UNCHANGED <<snap, refreshLock, registries, outputs, bounds>>

DeleteSourceSnapshot(w) ==
    /\ At(w, "unlink")
    /\ snap' = [snap EXCEPT ![th[w].id] = NoSnap]
    /\ Become(w, [th[w] EXCEPT !.pc = "rebuildCustom"])
    /\ UNCHANGED <<refreshLock, registries, outputs, bounds>>

RecordAccepted(w) ==
    /\ At(w, "accepted")
    /\ RecordRefresh(th[w].id, "valid")
    /\ Finish(w)
    /\ UNCHANGED <<nextId, custom, snap, refreshLock, outputs, bounds>>

StreamTaken(stream, c) == \E d \in CustomIds \ {c} : custom[d] = stream

\* create, update and delete of a custom channel.  Refused: a stream another
\* custom channel has, an unknown id (and a create whose id is not fresh).
MutateCustomChannel(w) ==
    /\ At(w, "mutateCustom")
    /\ LET c == th[w].cid
           creating == th[w].op = "customCreate"
       IN  IF \/ th[w].op # "customDelete" /\ StreamTaken(th[w].stream, c)
              \/ creating # (custom[c] = NoStream)
             THEN Finish(w) /\ UNCHANGED custom
             ELSE /\ custom' = [custom EXCEPT ![c] =
                       IF th[w].op = "customDelete" THEN NoStream ELSE th[w].stream]
                  /\ Become(w, [th[w] EXCEPT !.pc = "rebuildCustom"])
    /\ UNCHANGED <<sources, nextId, snap, refreshLock, outputs, bounds>>
=============================================================================
