------------------------------- MODULE Agenda -------------------------------
(***************************************************************************)
(* The agenda service: requests of several threads for the agenda, its     *)
(* playlist or its XMLTV guide are answered from a document kept in memory *)
(* and in agenda_cache.json, both for AGENDA_CACHE_TTL, downloaded again   *)
(* under one lock when neither is fresh, and answered from an old copy     *)
(* when the download fails.                                                *)
(***************************************************************************)
EXTENDS AgendaGuide

CONSTANTS
    Threads,      \* request threads
    Catalogs,     \* the contents channels.json may have
    FirstWorlds,  \* the page and the catalogue there may be at the start
    TTL,          \* AGENDA_CACHE_TTL in minutes
    Instants,     \* the minutes at which something happens
    MaxRequests,  \* bound on the requests
    MaxChanges,   \* bound on new pages and new catalogues
    MaxFaults,    \* bound on crashes and failed file accesses
    NoDoc, Free   \* null markers

ASSUME AgendaAssumption ==
    /\ TTL \in Nat \ {0}
    /\ Instants \subseteq Nat /\ Instants # {}
    /\ Catalogs \subseteq SUBSET Streams
    /\ FirstWorlds \subseteq Pages \X Catalogs
    /\ MaxRequests \in Nat /\ MaxChanges \in Nat /\ MaxFaults \in Nat
    /\ Free \notin Threads

VARIABLES
    site,         \* the page futbolenlatv.es serves
    catalog,      \* the streams in channels.json
    disk, diskAt, \* agenda_cache.json and its modification time
    mem, memAt,   \* _memory_cache and _memory_cache_time
    lock,         \* the holder of _lock
    th,           \* the state of each thread
    now,          \* the clock, in minutes
    requests, changes, faults   \* counted against their bounds

world == <<site, catalog>>
cache == <<disk, diskAt, mem, memAt>>
bounds == <<requests, changes, faults>>
vars == <<world, cache, lock, th, now, bounds>>

Documents == {ParseAgenda(page) : page \in Pages}

ASSUME NoDocAssumption == NoDoc \notin Documents

Thread ==
    [pc: {"idle", "wait", "fetch", "store", "cross", "answered"},
     force: BOOLEAN,                 \* force_refresh
     asked: Nat,                     \* the time read on entry
     catalog: Catalogs \cup {{}},    \* catalog_channels
     page: Documents \cup {NoDoc},   \* the document just downloaded
     doc: Documents \cup {NoDoc},    \* cached_payload
     at: Nat]                        \* when the document was crossed

IdleThread ==
    [pc |-> "idle", force |-> FALSE, asked |-> 0,
     catalog |-> {}, page |-> NoDoc, doc |-> NoDoc, at |-> 0]

TypeOK ==
    /\ site \in Pages
    /\ catalog \in Catalogs
    /\ disk \in Documents \cup {NoDoc} /\ diskAt \in Nat
    /\ mem \in Documents \cup {NoDoc} /\ memAt \in Nat
    /\ lock \in Threads \cup {Free}
    /\ th \in [Threads -> Thread]
    /\ now \in Nat
    /\ requests \in Nat /\ changes \in Nat /\ faults \in Nat

Init ==
    /\ \E w \in FirstWorlds : site = w[1] /\ catalog = w[2]
    /\ disk = NoDoc /\ diskAt = 0
    /\ mem = NoDoc /\ memAt = 0
    /\ lock = Free
    /\ th = [t \in Threads |-> IdleThread]
    /\ now \in Instants /\ \A m \in Instants : now <= m
    /\ requests = 0 /\ changes = 0 /\ faults = 0

-----------------------------------------------------------------------------
(* The environment.                                                        *)

\* The clock moves on to the next instant.
Tick ==
    /\ \E m \in Instants :
         /\ m > now
         /\ \A k \in Instants : k > now => m <= k
         /\ now' = m
    /\ UNCHANGED <<world, cache, lock, th, bounds>>

\* The site publishes another page, or the catalogue another channel list.
Change ==
    /\ changes < MaxChanges
    /\ changes' = changes + 1
    /\ \/ site' \in Pages \ {site} /\ UNCHANGED catalog
       \/ catalog' \in Catalogs \ {catalog} /\ UNCHANGED site
    /\ UNCHANGED <<cache, lock, th, now, requests, faults>>

Fault == faults < MaxFaults /\ faults' = faults + 1

\* The process dies and restarts: only the file is left.
Crash ==
    /\ Fault
    /\ mem' = NoDoc /\ memAt' = 0
    /\ lock' = Free
    /\ th' = [t \in Threads |-> IdleThread]
    /\ UNCHANGED <<world, disk, diskAt, now, requests, changes>>

-----------------------------------------------------------------------------
(* A request.                                                              *)

At(t, label) == th[t].pc = label

Become(t, r) == th' = [th EXCEPT ![t] = r]

\* A request for the agenda, its live events, its playlist or its XMLTV guide:
\* the route reads channels.json, then get_agenda the time, both before the
\* lock.  All are answered from the document; the first may ask for a new one.
Request(t) ==
    /\ At(t, "idle")
    /\ requests < MaxRequests
    /\ requests' = requests + 1
    /\ \E force \in BOOLEAN :
         Become(t, [IdleThread EXCEPT !.pc = "wait", !.force = force,
                                      !.asked = now, !.catalog = catalog])
    /\ UNCHANGED <<world, cache, lock, now, changes, faults>>

\* A copy this request may be answered from.
Fresh(t, doc, at) == ~th[t].force /\ doc # NoDoc /\ th[t].asked - at < TTL

\* The lock is free and the memory copy fresh: the request takes it along.
UseMemory(t) ==
    /\ At(t, "wait") /\ lock = Free
    /\ Fresh(t, mem, memAt)
    /\ Become(t, [th[t] EXCEPT !.pc = "cross", !.doc = mem])
    /\ UNCHANGED <<world, cache, lock, now, bounds>>

\* Mutant: the memory copy counts as new.
UseDiskAsNew(t) ==
    /\ At(t, "wait") /\ lock = Free
    /\ ~Fresh(t, mem, memAt)
    /\ Fresh(t, disk, diskAt)
    /\ mem' = disk /\ memAt' = now
    /\ Become(t, [th[t] EXCEPT !.pc = "cross", !.doc = disk])
    /\ UNCHANGED <<world, disk, diskAt, lock, now, bounds>>

\* Only the file is fresh: it becomes the memory copy, with its age.
UseDisk(t) ==
    /\ At(t, "wait") /\ lock = Free
    /\ ~Fresh(t, mem, memAt)
    /\ Fresh(t, disk, diskAt)
    /\ mem' = disk /\ memAt' = diskAt
    /\ Become(t, [th[t] EXCEPT !.pc = "cross", !.doc = disk])
    /\ UNCHANGED <<world, disk, diskAt, lock, now, bounds>>

\* No fresh copy, or the file cannot be read: the lock is kept to download.
StartFetch(t) ==
    /\ At(t, "wait") /\ lock = Free
    /\ ~Fresh(t, mem, memAt)
    /\ IF Fresh(t, disk, diskAt) THEN Fault ELSE UNCHANGED faults
    /\ lock' = t
    /\ Become(t, [th[t] EXCEPT !.pc = "fetch"])
    /\ UNCHANGED <<world, cache, now, requests, changes>>

\* The page is downloaded and parsed.
FetchPage(t) ==
    /\ At(t, "fetch")
    /\ Become(t, [th[t] EXCEPT !.pc = "store", !.page = ParseAgenda(site)])
    /\ UNCHANGED <<world, cache, lock, now, bounds>>

\* Mutant: the document is kept in memory only.
StoreInMemory(t) ==
    /\ At(t, "store")
    /\ mem' = th[t].page /\ memAt' = th[t].asked
    /\ lock' = Free
    /\ Become(t, [th[t] EXCEPT !.pc = "cross", !.doc = th[t].page, !.page = NoDoc])
    /\ UNCHANGED <<world, disk, diskAt, now, bounds>>

\* The file is replaced, then the memory copy, which dates from the time the
\* request came in.
Store(t) ==
    /\ At(t, "store")
    /\ disk' = th[t].page /\ diskAt' = now
    /\ mem' = th[t].page /\ memAt' = th[t].asked
    /\ lock' = Free
    /\ Become(t, [th[t] EXCEPT !.pc = "cross", !.doc = th[t].page, !.page = NoDoc])
    /\ UNCHANGED <<world, now, bounds>>

\* Mutant: a failure leaves the lock held.
FallbackLocked(t) ==
    /\ UNCHANGED lock
    /\ Become(t, [th[t] EXCEPT !.pc = "cross", !.page = NoDoc,
                               !.doc = IF mem # NoDoc THEN mem ELSE disk])

\* Mutant: only the memory copy stands in.
FallbackToMemory(t) ==
    /\ lock' = Free
    /\ Become(t, [th[t] EXCEPT !.pc = "cross", !.doc = mem, !.page = NoDoc])

\* After a failure an old copy will do, the memory one first; with neither,
\* the answer is the error and no events.
Fallback(t) ==
    /\ lock' = Free
    /\ Become(t, [th[t] EXCEPT !.pc = "cross", !.page = NoDoc,
                               !.doc = IF mem # NoDoc THEN mem ELSE disk])

\* The download fails or times out.
FetchFails(t) ==
    /\ At(t, "fetch")
    /\ Fallback(t)
    /\ UNCHANGED <<world, cache, now, bounds>>

\* The file cannot be written: the new document is dropped.
StoreFails(t) ==
    /\ At(t, "store")
    /\ Fault
    /\ Fallback(t)
    /\ UNCHANGED <<world, cache, now, requests, changes>>

\* The old file cannot be read either: the request ends with status 500.
FallbackFails(t) ==
    /\ th[t].pc \in {"fetch", "store"}
    /\ mem = NoDoc /\ disk # NoDoc
    /\ Fault
    /\ lock' = Free
    /\ Become(t, IdleThread)
    /\ UNCHANGED <<world, cache, now, requests, changes>>

\* Outside the lock the document is crossed with the catalogue read on entry;
\* how it was asked for no longer matters.
Cross(t) ==
    /\ At(t, "cross")
    /\ Become(t, [th[t] EXCEPT !.pc = "answered", !.at = now,
                               !.force = FALSE, !.asked = 0])
    /\ UNCHANGED <<world, cache, lock, now, bounds>>

\* The answer is sent.
Reply(t) ==
    /\ At(t, "answered")
    /\ Become(t, IdleThread)
    /\ UNCHANGED <<world, cache, lock, now, bounds>>

Enter(t) == UseMemory(t) \/ UseDisk(t) \/ StartFetch(t)

Download(t) == FetchPage(t) \/ Store(t) \/ FetchFails(t) \/ StoreFails(t) \/ FallbackFails(t)

Rest == (\A t \in Threads : At(t, "idle")) /\ UNCHANGED vars

Next ==
    \/ \E t \in Threads : Request(t) \/ Enter(t) \/ Download(t) \/ Cross(t) \/ Reply(t)
    \/ Tick \/ Change \/ Crash \/ Rest

Spec == Init /\ [][Next]_vars

\* A thread runs, its download ends one way or the other (urlopen has a
\* timeout), and a thread waiting for the lock gets it in the end.
Fairness ==
    \A t \in Threads :
        WF_vars(Download(t) \/ Cross(t) \/ Reply(t)) /\ SF_vars(Enter(t))

FairSpec == Spec /\ Fairness

-----------------------------------------------------------------------------
(* What must be true of the agenda.                                        *)

\* The document in memory is the one in the file, and never counts as younger
\* than it: whatever the order of downloads, failed writes and restarts.
MemoryIsDisk == mem # NoDoc => mem = disk /\ memAt <= diskAt

Takes(t) == At(t, "wait") /\ At(t, "cross")'

\* A request that does not download is given the stored document, and one
\* that was stored less than a TTL before the request came in.
AnswersFresh ==
    [][\A t \in Threads : Takes(t) =>
         th'[t].doc = disk /\ disk # NoDoc /\ th[t].asked - diskAt < TTL]_vars

\* An error is the last resort.  The answer without events is given only when
\* no document was ever stored: a failed download falls back to the old one.
\* And a request ends without an answer only when nothing is in memory and an
\* access to the file failed (or the process died).
ErrorIsLastResort ==
    [][\A t \in Threads :
         /\ At(t, "cross")' /\ ~At(t, "cross") /\ th'[t].doc = NoDoc => disk = NoDoc
         /\ ~At(t, "answered") /\ ~At(t, "idle") /\ At(t, "idle")' =>
              mem' = NoDoc /\ faults' > faults]_vars

\* The threads that have an answer in hand, with its document.
Answered == {t \in Threads : At(t, "answered") /\ th[t].doc # NoDoc}

\* The windows of the agenda, of its playlist and of the XMLTV guide differ,
\* but an event that is live and has streams is in all three; the guide, which
\* reads the hour by itself, may lack it only when it cannot.
LiveEventsListed ==
    \A t \in Answered :
        LET r == th[t]
        IN  \A i \in DOMAIN r.doc : \A s \in StreamsOf(r.doc[i], r.catalog) :
              IsLive(r.doc[i], r.at) =>
                /\ i \in LiveEvents(r.doc, r.at)
                /\ <<i, s>> \in AgendaM3u(r.doc, r.at, r.catalog, TRUE)
                /\ r.doc[i].printed # NoTime =>
                     <<i, s>> \in Programmes(r.doc, r.at, r.catalog)

\* Every entry of /agenda.m3u, which carries the stream id as its tvg-id, has
\* its programme in /epg.xml when the guide can read the hour of its event.
PlaylistHasGuide ==
    \A t \in Answered :
        LET r == th[t]
        IN  \A entry \in AgendaM3u(r.doc, r.at, r.catalog, FALSE) :
              r.doc[entry[1]].printed # NoTime =>
                entry \in Programmes(r.doc, r.at, r.catalog)

\* Every request ends, also when every download fails and all of them queue.
RequestsEnd == \A t \in Threads : ~At(t, "idle") ~> At(t, "idle")

\* Memory, file and lock together behave as one stored document.
Guide == INSTANCE GuideStore WITH
            Readers <- Threads, None <- NoDoc, doc <- disk,
            held <- [t \in Threads |-> th[t].doc]

\* The service implements the store: what a request is given is the document
\* stored at that moment, no crash or failed download loses it, and only a
\* completed download replaces it.
ImplementsGuideStore == Guide!Spec
=============================================================================
