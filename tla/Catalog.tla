------------------------------ MODULE Catalog ------------------------------
(***************************************************************************)
(* The catalogue as a whole: refreshes, rebuilds and request handlers of   *)
(* several threads over the same files, with a clock, crashes and failed   *)
(* writes; and what must be true of it.                                    *)
(***************************************************************************)
EXTENDS CatalogRefresh, CatalogHandlers

Init ==
    /\ sources = [id \in Ids |->
                    IF id \in DOMAIN InitialUrl
                      THEN [url |-> InitialUrl[id], enabled |-> TRUE,
                            lastOk |-> 0, lastError |-> "none"]
                      ELSE NoSource]
    /\ nextId = Cardinality(DOMAIN InitialUrl) + 1
    /\ custom = [c \in CustomIds |-> NoStream]
    /\ snap = [id \in Ids |-> NoSnap]
    /\ channels = {}
    /\ channelsAt = 0
    /\ m3u = {}
    /\ refreshLock = Free
    /\ th = [w \in Workers |-> IdleThread]
    /\ now = 1
    /\ ops = 0
    /\ faults = 0

-----------------------------------------------------------------------------
(* The environment.                                                        *)

Tick ==
    /\ now < MaxTime
    /\ now' = now + 1
    /\ UNCHANGED <<snap, refreshLock, th, ops, faults, registries, outputs>>

\* The process dies and is restarted: the files stay as they are (each write
\* is a rename), every thread and both refresh locks are gone.
Crash ==
    /\ faults < MaxFaults
    /\ faults' = faults + 1
    /\ refreshLock' = Free
    /\ th' = [w \in Workers |-> IdleThread]
    /\ UNCHANGED <<snap, now, ops, registries, outputs>>

\* Nobody asks for anything: the only way the system may stand still.
Rest == (\A w \in Workers : At(w, "idle")) /\ UNCHANGED vars

BeginOperation(w) ==
    \/ BeginRefresh(w) \/ BeginView(w) \/ BeginAddSource(w)
    \/ BeginUpdateSource(w) \/ BeginValidateSource(w) \/ BeginDeleteSource(w)
    \/ BeginCustomChannel(w)

Refresh(w) ==
    \/ RunUpdate(w) \/ RefreshReadSources(w) \/ RefreshReadCustom(w)
    \/ \E id \in Ids : FetchLoadCache(w, id) \/ FetchSource(w, id)
                       \/ CommitSource(w, id) \/ RecordSource(w, id)
    \/ RefreshRaises(w) \/ EndRefresh(w)

Rebuild(w) ==
    \/ RebuildReadCustom(w) \/ RebuildReadSources(w)
    \/ \E id \in Ids : RebuildLoad(w, id)

Save(w) == SaveJson(w) \/ SaveM3u(w)

Handle(w) ==
    \/ ViewReadSource(w) \/ ViewLoadCache(w)
    \/ GetForUpdate(w) \/ GetForValidate(w) \/ GetForDelete(w) \/ Validate(w)
    \/ CreateSource(w) \/ UpdateSource(w) \/ DeleteSource(w)
    \/ SaveValidatedSnapshot(w) \/ DeleteSourceSnapshot(w) \/ RecordAccepted(w)
    \/ MutateCustomChannel(w)

\* What a started thread does of its own accord.
Work(w) == Refresh(w) \/ Rebuild(w) \/ Save(w) \/ Handle(w)

Next ==
    \/ \E w \in Workers : BeginOperation(w) \/ Work(w) \/ SaveFails(w)
    \/ Tick
    \/ Crash
    \/ Rest

Spec == Init /\ [][Next]_vars

-----------------------------------------------------------------------------
(* What must be true of the catalogue.                                     *)

Quiet == \A w \in Workers : At(w, "idle")

\* Nor has a crash or a failed write left an operation half done.
Undisturbed == Quiet /\ faults = 0

RefreshOps == {"refresh", "scheduled"}

Published == {e.stream : e \in channels}

Owners == {e.id : e \in channels} \ {CustomOwner}

\* The sources that may contribute channels.
Active == {id \in Ids : sources[id] # NoSource /\ sources[id].enabled}

\* The refresh locks are held by exactly the thread inside a refresh, through
\* every early return and exception: _run_update never leaks or shares them.
LockHeldByRefresh ==
    \A w \in Workers :
        refreshLock = w <=>
            th[w].op \in RefreshOps /\ th[w].pc \notin {"idle", "lock"}

\* No two registered sources have the same URL, however create_source and
\* update_source calls interleave with the downloads they wait for.
UrlsUnique ==
    \A i, j \in Registered(sources) : sources[i].url = sources[j].url => i = j

\* No two custom channels have the same identity, however create and update
\* requests interleave.
CustomUnique ==
    \A c, d \in CustomIds :
        custom[c] = custom[d] /\ custom[c] # NoStream => c = d

\* channels.json lists each stream once, whatever mixture of snapshots,
\* stand-ins and custom channels the thread that wrote it had collected.
PublishedOnce ==
    \A e, f \in channels : e.stream = f.stream => e = f

\* The content_hash of a snapshot, when it has one, is that of the body its
\* channels came from: a stale hash would make every later refresh answer
\* not_modified and pin the wrong channels.
SnapshotsSound ==
    \A id \in Ids : snap[id] # NoSnap =>
        snap[id].hash \in {{}, {snap[id].channels}}

\* A refresh never replaces a snapshot that has channels by one without,
\* whatever the sources answer, and whichever of its own steps it is at.
EmptyNeverReplaces ==
    [][\A w \in Workers : th[w].op \in RefreshOps /\ th'[w] # th[w] =>
         \A id \in Ids : snap[id] # NoSnap /\ snap[id].channels # {} =>
             snap'[id] # NoSnap /\ snap'[id].channels # {}]_vars

\* A refresh never undoes an edit: its writes to sources.json leave the set
\* of sources, their URLs and their switches as the last request left them,
\* although it works from a copy of the registry read before its downloads.
RefreshKeepsEdits ==
    [][\A w \in Workers : th[w].op \in RefreshOps /\ th'[w] # th[w] =>
         /\ Registered(sources') = Registered(sources)
         /\ \A id \in Registered(sources) :
              /\ sources'[id].url = sources[id].url
              /\ sources'[id].enabled = sources[id].enabled]_vars

\* A source is enabled only by a thread holding a successful validation of
\* the URL the source then has.
EnabledOnlyAfterValidation ==
    [][\A id \in Active' \ Active :
         \E w \in Workers : /\ th[w].val.status = "valid"
                            /\ th[w].asked = sources'[id].url]_vars

\* A channel published under a URL was really listed by that URL, also after
\* the URL of a source was edited, unless the edit was cut short between the
\* registry and the snapshot.
EntriesServed ==
    faults = 0 => \A e \in channels : e.id # CustomOwner => e.stream \in Serves[e.url]

\* No TTL has run out for something dated at.
WithinTTL(at) == now <= at + TTL /\ now <= at + TTL404

\* With no operation under way or half done, the channels of an enabled source
\* whose snapshot is within both TTLs are published, whatever downloads failed.
\* This is of operations one after the other: rebuild_from_cache takes no lock,
\* and one that has loaded an old snapshot may save after a refresh has
\* committed a newer one.
FreshSourcesPublished ==
    Undisturbed => \A id \in Active :
        snap[id] # NoSnap /\ WithinTTL(snap[id].at)
            => snap[id].channels \subseteq Published

\* With no operation under way or half done, only enabled sources have
\* channels published.
DisabledNotPublished == Undisturbed => Owners \subseteq Active

\* With no operation under way or half done, the custom channels published
\* are those of custom_channels.json.
CustomPublished ==
    Undisturbed /\ channelsAt # 0 =>
        {e.stream : e \in {f \in channels : f.id = CustomOwner}} = CustomStreams

\* With no operation under way or half done, ace_hls.m3u lists what
\* channels.json does.
OutputsAgree == Undisturbed => m3u = Published

\* With no operation under way or half done, every snapshot belongs to a
\* source.
NoOrphanSnapshot ==
    Undisturbed => \A id \in Ids : snap[id] # NoSnap => id \in Registered(sources)

\* A save that completes repairs what a crash or a failed write between two
\* files left: both outputs agree, and only enabled sources are in them.
SaveRepairsOutputs ==
    [][\A w \in Workers :
         At(w, "writeM3u") /\ ~At(w, "writeM3u")' /\ faults' = faults =>
            /\ m3u' = Published'
            /\ Owners' \subseteq Active']_vars

\* A refresh that leaves its commit phase without saving throws away no body
\* it downloaded.
GoodBodyNotDropped ==
    [][\A w \in Workers :
         At(w, "commit") /\ At(w, "idle")' /\ faults' = faults =>
            \A id \in Ids : Outcome(w, id) # "valid"]_vars

\* Every operation ends.
OperationsEnd == \A w \in Workers : ~At(w, "idle") ~> At(w, "idle")
=============================================================================
