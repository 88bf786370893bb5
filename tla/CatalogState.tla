---------------------------- MODULE CatalogState ----------------------------
(***************************************************************************)
(* The channel catalogue of AceHLS: the source registry (sources.json),    *)
(* the custom channels (custom_channels.json), one snapshot file per       *)
(* source (source_cache/<id>.json) and the published outputs               *)
(* (channels.json, ace_hls.m3u), as channel_manager.py, source_manager.py, *)
(* custom_channel_manager.py and the routes in routes.py read and write    *)
(* them.                                                                   *)
(*                                                                         *)
(* A thread is a Gunicorn request thread, the scheduler thread or a        *)
(* refresh thread spawned by GET /api/channels.  Every step of a thread is *)
(* one critical section of a registry, one file read or written, or one    *)
(* download, so the steps of two threads interleave wherever the code      *)
(* holds no lock across them.                                              *)
(***************************************************************************)
EXTENDS Naturals, FiniteSets

CONSTANTS
    Workers,      \* the threads
    Urls,         \* the upstream playlist URLs
    Streams,      \* channel identities <<identifier_type, stream_id>>
    CustomIds,    \* ids of custom channels
    MaxId,        \* bound on the number of sources ever registered
    InitialUrl,   \* URL of each source registered at start, [1..k -> Urls]
    Serves,       \* the channels an upstream URL may ever list
    Pastes,       \* the URLs that may be valid and list nothing
    TTL,          \* SOURCE_CACHE_TTL
    TTL404,       \* SOURCE_CACHE_404_TTL
    Interval,     \* PLAYLIST_REFRESH_INTERVAL
    Handlers,     \* the operations each thread may take up in this instance
    MaxTime,      \* bound on the clock
    MaxOps,       \* bound on the operations started
    MaxFaults,    \* bound on crashes and failed writes
    NoSource, NoSnap, NoUrl, NoStream, Free     \* null markers

AllHandlers ==
    {"refresh", "scheduled", "view", "add", "patch", "validate", "delete",
     "deleteByUrl", "customCreate", "customUpdate", "customDelete"}

Ids == 1..MaxId

\* The source_id of a custom channel ("custom"), below every source's so
\* that the order of ids is the order in which snapshots are merged.
CustomOwner == 0

ASSUME CatalogAssumption ==
    /\ MaxId \in Nat \ {0}
    /\ \E k \in 0..MaxId : InitialUrl \in [1..k -> Urls]
    /\ \A i, j \in DOMAIN InitialUrl : InitialUrl[i] = InitialUrl[j] => i = j
    /\ Serves \in [Urls -> SUBSET Streams] /\ Pastes \subseteq Urls
    /\ TTL \in Nat /\ TTL404 \in Nat /\ Interval \in Nat
    /\ Handlers \in [Workers -> SUBSET AllHandlers]
    /\ MaxTime \in Nat /\ MaxOps \in Nat /\ MaxFaults \in Nat
    /\ NoUrl \notin Urls /\ NoStream \notin Streams /\ Free \notin Workers

VARIABLES
    sources,      \* sources.json: the registered source of each id
    nextId,       \* the next fresh id; the registry lists ids in this order
    custom,       \* custom_channels.json: the stream of each custom channel
    snap,         \* source_cache/<id>.json
    channels,     \* the entries of channels.json
    channelsAt,   \* its modification time, 0 while the file does not exist
    m3u,          \* the streams listed in ace_hls.m3u
    refreshLock,  \* the holder of _update_lock and channels.refresh.lock
    th,           \* the state of each thread
    now,          \* the clock
    ops,          \* operations started
    faults        \* crashes and failed writes so far

registries == <<sources, nextId, custom>>
outputs == <<channels, channelsAt, m3u>>
bounds == <<now, ops, faults>>
vars == <<registries, snap, outputs, refreshLock, th, bounds>>

-----------------------------------------------------------------------------
(* The values the files and the threads hold.                              *)

Errors == {"none", "error", "notFound"}

\* An element of sources.json: what the catalogue reads of it.
Source == [url: Urls, enabled: BOOLEAN, lastOk: Nat, lastError: Errors]

Registry == [Ids -> Source \cup {NoSource}]

\* The body of a playlist is abstracted to the set b of channels it parses to;
\* its SHA-256 is {b}, and {} is the hash None.
Hash == {{}} \cup {{b} : b \in SUBSET Streams}

Snapshot == [channels: SUBSET Streams, hash: Hash, at: Nat]

\* The mark of an id that is not registered is no source, and that of a
\* missing file no snapshot.
ASSUME NullAssumption == NoSource \notin Source /\ NoSnap \notin Snapshot

Entry == [stream: Streams, id: Ids \cup {CustomOwner}, url: Urls \cup {NoUrl}]

\* A ValidationResult, or "none" before there is one, "loaded" once the cache
\* entry is read and "raised" for an exception validate() does not catch.
Result == [status: {"none", "loaded", "valid", "notModified", "error",
                    "notFound", "raised"},
           channels: SUBSET Streams]

NoResult == [status |-> "none", channels |-> {}]

CacheEntry == [channels: SUBSET Streams, hash: Hash]

NoCacheEntry == [channels |-> {}, hash |-> {}]

NoCopy == [id \in Ids |-> NoSource]

\* What a request says of the switch of a source.
Switch == {"keep", "on", "off"}

RefreshLabels == {"readSources", "readCustom", "fetch", "commit", "record"}
SaveLabels == {"writeJson", "writeM3u"}

Thread ==
    [pc: {"idle", "lock", "viewRead", "viewLoad", "get", "validate", "mutate",
          "mutateCustom", "snapshot", "unlink", "rebuildCustom",
          "rebuildSources", "load", "accepted"} \cup RefreshLabels
         \cup SaveLabels,
     op: AllHandlers \cup {"none"},
     id: Ids \cup {0},                       \* source_id of the request
     url: Urls \cup {NoUrl},                 \* "url" of the request body
     enable: Switch,                         \* "enabled" or "enable" of it
     allow: BOOLEAN,                         \* allow_invalid_disabled
     cid: CustomIds \cup {0},                \* custom channel id
     stream: Streams \cup {NoStream},        \* its stream_id
     asked: Urls \cup {NoUrl},               \* URL given to validate()
     val: Result,                            \* validation in hand
     view: Registry,                         \* copy of the registry
     seen: SUBSET Streams,                   \* copy of the custom channels
     cached: [Ids -> CacheEntry],            \* cache entries of a refresh
     got: [Ids -> Result],                   \* its results
     merged: [Ids -> SUBSET Streams],        \* snapshots to merge
     todo: SUBSET Ids,                       \* sources still to process
     ok: BOOLEAN]                            \* successful_sources > 0

IdleThread ==
    [pc |-> "idle", op |-> "none", id |-> 0, url |-> NoUrl, enable |-> "keep",
     allow |-> FALSE, cid |-> 0, stream |-> NoStream, asked |-> NoUrl,
     val |-> NoResult, view |-> NoCopy, seen |-> {},
     cached |-> [id \in Ids |-> NoCacheEntry],
     got |-> [id \in Ids |-> NoResult], merged |-> [id \in Ids |-> {}],
     todo |-> {}, ok |-> FALSE]

TypeOK ==
    /\ sources \in Registry
    /\ nextId \in Nat \ {0}
    /\ custom \in [CustomIds -> Streams \cup {NoStream}]
    /\ snap \in [Ids -> Snapshot \cup {NoSnap}]
    /\ channels \subseteq Entry
    /\ channelsAt \in Nat
    /\ m3u \subseteq Streams
    /\ refreshLock \in Workers \cup {Free}
    /\ th \in [Workers -> Thread]
    /\ now \in Nat /\ ops \in Nat /\ faults \in Nat

-----------------------------------------------------------------------------
(* Reading the registries and the cache.                                   *)

Registered(reg) == {id \in Ids : reg[id] # NoSource}

\* Mutant: the switch is forgotten.
RegisteredOnly(reg) == Registered(reg)

EnabledIn(reg) == {id \in Registered(reg) : reg[id].enabled}

CustomStreams == {custom[c] : c \in CustomIds} \ {NoStream}

\* Mutant: disabled sources are left out of the duplicate check.
UrlFreeAmongEnabled(url, id) ==
    \A other \in EnabledIn(sources) \ {id} : sources[other].url # url

\* No other source of the registry has this URL.
UrlFree(url, id) ==
    \A other \in Registered(sources) \ {id} : sources[other].url # url

\* When the cached channels of a source date from; 0 is None.
SourceCacheUpdatedAt(id, src) ==
    IF snap[id] # NoSnap THEN snap[id].at
    ELSE IF src.lastOk # 0 THEN src.lastOk
    ELSE channelsAt

CacheTTL(error) == IF error = "notFound" THEN TTL404 ELSE TTL

\* Mutant: a snapshot expires on reaching its TTL, not beyond it.
IsCacheExpiredAtTTL(id, src, error) ==
    LET at == SourceCacheUpdatedAt(id, src)
    IN  at # 0 /\ now >= at + CacheTTL(error)

IsCacheExpired(id, src, error) ==
    LET at == SourceCacheUpdatedAt(id, src)
    IN  at # 0 /\ now > at + CacheTTL(error)

\* Channels of channels.json recorded under this source's id or URL: what
\* stands in for a missing snapshot file.
LegacyChannels(id, src) ==
    {e.stream : e \in {f \in channels : f.id = id \/ f.url = src.url}}

LoadSourceCacheEntry(id, src) ==
    IF snap[id] # NoSnap
      THEN [channels |-> snap[id].channels, hash |-> snap[id].hash]
      ELSE [channels |-> LegacyChannels(id, src), hash |-> {}]

\* Loading an entry writes the stand-in back as a snapshot.
SnapAfterLoad(id, src) ==
    IF snap[id] = NoSnap /\ LegacyChannels(id, src) # {}
      THEN [snap EXCEPT ![id] = [channels |-> LegacyChannels(id, src),
                                 hash |-> {}, at |-> now]]
      ELSE snap

\* What a URL may serve and be valid: a playlist without channels is refused,
\* but the root of a MylinkPaste may hold a scalar, and then nothing is listed.
Bodies(url) == (SUBSET Serves[url]) \ (IF url \in Pastes THEN {} ELSE {{}})

\* What validate(url, cached_hash) may return.  A body that differs from the
\* one hashed may list the same channels; not_modified needs a hash.
Validations(url, hash) ==
    {[status |-> "valid", channels |-> b] : b \in Bodies(url)}
    \cup {[status |-> s, channels |-> {}] : s \in {"error", "notFound", "raised"}}
    \cup {[status |-> "notModified", channels |-> {}] : b \in hash \cap Bodies(url)}

\* The identity-deduplicated union: custom channels first, then the sources
\* in registry order; the first snapshot that lists a stream owns it.
MergeSourceSnapshots(seen, merged, reg) ==
    {[stream |-> s, id |-> CustomOwner, url |-> NoUrl] : s \in seen}
    \cup UNION {{[stream |-> s, id |-> id, url |-> reg[id].url] :
                   s \in {t \in merged[id] \ seen :
                            \A j \in Registered(reg) : j < id => t \notin merged[j]}} :
                id \in Registered(reg)}

\* Mutant: custom channels get no line.
CustomLinesLost(entries) ==
    {e.stream : e \in {f \in entries : f.id # CustomOwner}}

\* _render_direct_m3u: one line per channel.
RenderDirectM3u(entries) == {e.stream : e \in entries}

\* record_refresh: the registry is read again under its lock, and a source
\* deleted in the meantime is left deleted.
RecordRefresh(id, status) ==
    sources' =
        IF sources[id] = NoSource THEN sources
        ELSE IF status \in {"valid", "notModified"}
          THEN [sources EXCEPT ![id].lastOk = now, ![id].lastError = "none"]
        ELSE [sources EXCEPT ![id].lastError = status]

-----------------------------------------------------------------------------
(* Control of a thread.                                                    *)

At(w, label) == th[w].pc = label

Become(w, r) == th' = [th EXCEPT ![w] = r]

\* The thread answers its request, or its refresh returns.
Finish(w) == Become(w, IdleThread)

\* Mutant: the locks are not released.
KeepLock(w) == UNCHANGED refreshLock

ReleaseIfHeld(w) ==
    refreshLock' = IF refreshLock = w THEN Free ELSE refreshLock
=============================================================================
