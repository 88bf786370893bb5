# AceHLS: a verification project

TLA+ models of AceHLS, the TLC runs that check them and the theorems TLAPS
proves about them. Paths such as `channel_manager.py:65` are relative to
`src/app/services/` of the repository, except `routes.py` (`src/app/`) and
`script.js` (`src/app/static/`).

1. [The system](#the-system)
2. [The modules and the code](#the-modules-and-the-code)
3. [The runs](#the-runs)
4. [The proofs](#the-proofs)
5. [What disagrees with the documentation](#what-disagrees-with-the-documentation)
6. [What is not modelled](#what-is-not-modelled)
7. [Plan](#plan)

## The system

AceHLS is one Flask process (Gunicorn, one worker, four request threads) that
keeps a catalogue of AceStream channels and plays them as HLS through FFmpeg.

| component | state | operations | hard because |
|---|---|---|---|
| **channel manager** `channel_manager.py` | `source_cache/<id>.json` (a snapshot per source: channels, content hash, time), `channels.json`, `ace_hls.m3u`, two refresh locks | refresh (parallel downloads, one commit per source, save), rebuild from the snapshots, accept a validated source | rebuilds run outside the locks; refreshes and rebuilds publish from copies; TTLs; partial failure; two output files |
| **source manager** `source_manager.py` | `sources.json` | create, update, delete, record a refresh, v1 migration | decisions taken on a copy read before a download are applied later |
| **custom channel manager** `custom_channel_manager.py` | `custom_channels.json` | create, update, delete | duplicate check against concurrent requests |
| **source validator** `source_validator.py` | none | validate a URL: download, parse, follow Mylinkpaste lists | recursion with a visited set and a depth bound, two resolvers, lists edited meanwhile |
| **catalogue routes** `routes.py:187-599` | none | the HTTP handlers that string the managers' calls together | several critical sections and a download per request |
| **refresh scheduler** `refresh_scheduler.py` | a thread, the last result | refresh when due, sleep until due | sleeps on a time others move; competes for the refresh locks |
| **HLS manager** `hls_manager.py` | FFmpeg processes, activity, start times, validated sessions, one directory per session | start, stop, reuse, monitor, reap | one lock held through sleeps; a monitor that decides before it acts; dead processes; zombies |
| **playback routes** `routes.py:640-1223` | none | start with retries, wait for a manifest, serve, stop, proxy | two viewers of one session; retries that kill; manifests left by earlier runs |
| **settings, statistics** `settings_manager.py`, `stats_manager.py` | a JSON file each | read, rename, merge, save; count | lost updates, truncated files, files of older versions |
| **agenda** `agenda_service.py` | a document in memory and in a file | download, match, playlist, XMLTV | a lock held through a download, fallback to old copies, time windows |
| **browser player** `static/script.js` | engines, timers, a generation counter | play, fail over, recover, close | stale timers and promises |

The components interact through files and direct calls. The routes call the
managers; the scheduler and the routes call `channel_manager.update_channels`;
the channel manager reads both registries and writes the outputs the playlist
routes serve; the playback routes call the HLS manager, which calls the
statistics manager; the player in the browser calls the playback routes.

What makes each component correct:

* catalogue: unique URLs and identities; each stream published once; snapshots
  whose hash is of their own channels; refreshes that do not undo edits; locks
  that are always released; and, with no operation under way, outputs that agree
  with the registries and with each other;
* playback: every live FFmpeg is a registered one and is eventually stopped;
  every request ends; the manifest a request reports is not of an earlier run;
* browser player: only the playback the viewer asked for last has an engine, a
  timeout or a request that counts; a closed player stays closed; no preparation
  goes on for ever;
* settings, statistics, registry: no interleaving and no fault changes what nobody
  asked to change, and an upgrade loses nothing;
* scheduler: it never sleeps past the moment a refresh is due and never stops;
* validator: walks end and are complete, and a hash confirms only what was read;
* agenda: one document behind memory, file and lock, and no live event missing
  from one of the outputs.

## The modules and the code

### The catalogue

| module | models |
|---|---|
| `CatalogState` | the files and the state of a thread; reading registries and cache, expiry, merging, what a validation returns |
| `CatalogRefresh` | a refresh, a rebuild, and the save both end with |
| `CatalogHandlers` | the request handlers and the critical sections of the two registries |
| `Catalog` | Init, Next, clock, crash, and the properties |
| `RefreshScheduler` | the scheduler's thread beside the request threads of `Catalog` |
| `CatalogSerial` | what holds inside an operation while operations do not overlap |
| `MCCatalog`, `MCScheduler` | small instances for TLC |
| `CatalogProofs`, `CatalogSerialProofs`, `SchedulerProofs` | the theorems |

`sources`, `custom`, `snap`, `channels`/`channelsAt` and `m3u` are the contents of
the files; `refreshLock` stands for the thread lock and the file lock, which
`_run_update` takes and releases together; `th[w]` is the state of thread `w`: where
it is in its handler (`pc`), the request, and every copy the code holds in a local
variable (`view`, `seen`, `cached`, `got`, `merged`). A thread is a Gunicorn
request thread, the scheduler thread or the refresh thread of a stale
`GET /api/channels`.

One action is one critical section of a registry, one file read or written, or
one download. The registries are locked and written by rename, so each of their
operations is one action that reads the file again, as the code does. Between
two actions any other thread may move; this is where copies become stale.

Data is abstracted to what the properties tell apart. A playlist is the set b of
channels it parses to, its SHA-256 is `{b}` (`{}` for none). A URL may list any
non-empty part of `Serves[url]`, a different one at each download; a body may be
answered as valid although its channels are those already known, which renews the
age of the snapshot. A URL in `Pastes` may also be valid and list nothing: the root
of a Mylinkpaste reference that decodes to a scalar leaves `parse_mylinkpaste` before
the check that something was found (`source_validator.py:332`). Then `Outcome` counts
the result as an error if channels were cached (`channel_manager.py:113`), and else an
empty snapshot is saved; a request that validates such a source saves it without
comparing. The order of ids is the order of the registry. Errors are kept as the
code distinguishes them: 404 or any other. "raised" is an exception that `validate`
does not catch.

Loading a cache entry (`FetchLoadCache`, `RebuildLoad`, `ViewLoadCache`) is one action, although it
may read the snapshot, then `channels.json`, then write the stand-in
(`channel_manager.py:240`-`261`), and the expiry check of a rebuild belongs to it.

The outcome of an operation is modelled whole: `CommitSource` is the snapshot
write and the choice of the channels to merge, `RecordSource` is the
`record_refresh` that follows, `AfterSave` is the release of the locks or the
return to `accept_validated_source`.

`RefreshScheduler` composes the catalogue with `_run`: `RunOnce` is the call of
`update_channels_if_due`, which is the operation "scheduled" on a thread of its own,
`RunStep` any step of it and, with the last, `last_result`; `Sleep` computes
`_seconds_until_due` from the time `channels.json` has by then; `Wake` is the end of the
wait. `Restart` is a crash after which `create_app` starts the thread anew; `stop` is
called by no code of the application. Time is whole instants, so the minimal sleep of
one second is one instant.

### The validator

| module | models |
|---|---|
| `Mylinkpaste` | `fetch_dns_txt_record` and `parse_mylinkpaste`: the resolvers, the walk over lists of lists, the publishers who edit them |
| `M3uPlaylist` | `parse_m3u`, line by line |
| `SourceValidator` | `validate` again and again for one source, and the snapshot that keeps its result with the hash |
| `MCValidator` | small instances for TLC |
| `ValidatorProofs` | the theorems |

The recursion is a stack of frames (`frames`, `top`): the items of each open record not
yet looked at, and the streams found; `visited` is the set all calls share. The items
of a record are a set: the streams a walk finds, the queries it asks and whether it
ends do not depend on their order, and TLC takes them in any. One query is one action,
between which a publisher may edit any record. A hash is the record, or the
playlist, it is of. A record whose items are those of `Scalar` decodes to something that is no
list: as the root it ends the walk with no stream and no error (`CloseRoot`,
`source_validator.py:332`). An exception `validate` does not catch (an unknown encoding, say)
ends a download (`DownloadRaises`). A line of a playlist is its kind with its stream or title;
`#EXTINF` attributes are one title. `Keep` is the refresh or the request that saves the
result: with its hash, or, when the request gave none, with or without.

### The agenda

| module | models |
|---|---|
| `AgendaGuide` | parsing to rows, matching with the catalogue, the windows, the playlist and the XMLTV guide, as operators |
| `Agenda` | `get_agenda` under its lock: memory, file, download, fallbacks, and the routes around it |
| `GuideStore` | the abstract specification: one stored document |
| `MCAgenda` | small instances for TLC |
| `AgendaProofs` | the theorems |

`mem`/`memAt` and `disk`/`diskAt` are `_memory_cache`, `_memory_cache_time`, the cache file and
its modification time; a thread holds what it read before the lock: the time (`asked`)
and `channels.json` (`catalog`). `UseMemory` and `UseDisk` take and release the lock in one
step; `StartFetch` keeps it until `Store` or a fallback. A file that cannot be read counts
as absent in `UseDisk` and raises in `FallbackFails`, as in the code.

Under `doc <- disk` and `held <- ` what each thread was given, `Agenda` implements
`GuideStore`: a reader is given the stored document or the new one it brought, only a
completed download replaces it, and no crash or failure loses it.

Time is in minutes and a day and hour are one number. The hour of an event is read by two
parsers, which may disagree: `when` is what `_calculate_live_status` makes of it
(`agenda_service.py:432`), `printed` what `generate_xmltv` does (742). A name is the words and the
dial number `canonical_tokens` leaves. Left out: the HTML itself, a table without a date
(whose events have no status, but a programme today), the order of streams and
events, `probe_candidate_streams`, which keeps nothing.

### The stores

| module | models |
|---|---|
| `ServerThreads` | the threads, starts and crashes, and the file accesses that fail |
| `Settings`, `Statistics`, `SourceMigration` | one manager each |
| `Stores` | the three together |
| `MCStores` | small instances for TLC |
| `StoresProofs` | the theorems |

The three share the process: a crash drops every lock and every thread at once. `save`
of the settings is two steps, since nothing is held from its read to its write;
`_save_stats` is two, since opening a file for writing empties it; `_with_document` is one
step per file it writes. A file of settings has the values under the current names
and those under the names of older versions. `MigrationLosesNothing` compares the
registry with `edited`, the sources of the first registry with every edit whose
request succeeded. A list of sources is the number of records of each URL, since a
version 1 list may repeat one. `Blank` stands for an item without a URL. A start that cannot read
`stats.json` (`StartStats`) has no counters while the file keeps them: `behind` says that the file
need not be what memory holds, `lossy` that memory need not have every update. What the edits check is the catalogue's part.

### Playback

| module | models |
|---|---|
| `HlsSessions` | the HLS manager with its monitor and analyzer threads, the request handlers, FFmpeg and the clock |
| `Broadcasts` | the abstract specification: processes, playlists and waits, without books, lock, monitor or clock |
| `MCHls` | small instances for TLC |
| `HlsProofs` | the theorems |

| state | code |
|---|---|
| `reg`, `idle`, `age`, `validated` | `processes`, `activity`, `start_times` (both as the time since then), `validated_sessions` |
| `os`, `owner` | what the operating system knows of each FFmpeg ever started: running, exited (a zombie), reaped; and for which session |
| `dir`, `written` | the directory of a session: which run wrote there, and whether there is a log only, a manifest, or one with two segments |
| `analyzer`, `counted` | the thread `_analyze_stream` of a run, and the successes counted for it |
| `lock`, `mon`, `th` | `HLSManager.lock` where it is held across two steps, the lists the monitor still works off, the request threads |

| action | code |
|---|---|
| `Probe`, `WaitUpstream`, `Retry` | `_probe_upstream_media`, `_wait_for_upstream_media`, the loop of `_start_hls_with_retries` |
| `StartReuse`, `StartSpawn`, `StartRaises`, `CheckArrival` | `start_stream`: the session is kept; a new FFmpeg; `Popen` raises; the look a second later, the lock still held |
| `PollActivity`, `PollReady`, `PollNotReady`, `PollProcess`, `PollTimeout` | one round of `_wait_for_ready_manifest`: `update_activity` under the lock, the files without it, the process, and the deadline |
| `GiveUp` | an attempt that failed stops the session (`routes.py:859`) |
| `Serve`, `Touch`, `Stop` | `serve_hls`, `stop_hls` |
| `MonitorLooks`, `MonitorCleansDead`, `MonitorStops` | `_monitor_loop`: the look under the lock, then each listed session under the lock again |
| `AnalyzeCount`, `AnalyzeMark` | the two steps of `_analyze_stream` |
| `Segment`, `Exit`, `Tick` | FFmpeg writes or ends; time passes |

`HlsSessions` implements `Broadcasts`, which knows neither books nor lock nor monitor: a
session has one process at most, and only that process writes its playlist; a new one
is launched when the one before has been waited for and its playlist is gone; a
client that waits gets the playlist of the process it waited for or of a later one,
or its session is stopped. `Processes`, `Playlists` and `Waits` map the state of the code to
that of `Broadcasts`.

A cleanup is one action: the lock is held from its first line to its last, and
nothing outside the lock reads what it writes except the files, which go last.
Reaping is taken to succeed: `terminate`, then `kill`, then `wait`. The wait for
upstream media and the probe return anything they may return. `StartSpawn` is one action
from the cleanup of the old session to the registration of the new FFmpeg
(`hls_manager.py:218`-`356`, all under the lock), so the look at `processes` without the lock
(`routes.py:694`, `PollProcess`) never falls between the two, as it could in the code, where
the poll would then give up a session that is just being started anew. Left out: the
command line of FFmpeg, the health and the list of active streams (they only
read), and that the monitor reads the time just before it takes the lock.

Two timing assumptions are in the guard of `Tick`. `RequestPrompt`: the second inside
`start_stream` and the half second between polls are shorter than a tick, which
stands for a large part of a minute. `AnalyzerPrompt`: the analyzer, which counts at
once and then waits for the lock, held for a few seconds at most, is done before
a run is older than the 30 s after which the monitor counts it. `CountedOnce` depends on the second: an analyzer delayed beyond
30 s would count a run the monitor has counted.

### The browser player

| module | models |
|---|---|
| `Player` | the playback of the web page: engines, request, timers, overlay, the tries and the queue of a match |
| `MCPlayer` | a match of two signals |
| `PlayerProofs` | the theorems |

| state | code |
|---|---|
| `channel`, `profile`, `retries`, `signal` | `currentAceId`, `currentProfile`, `playbackRetryCount`, `currentMatchQueueIndex` |
| `engines`, `media`, `suppress` | `mpegtsPlayer`, `hlsInstance`, the `src` of the element; `readyState` 0, loaded, `hasPlayedSuccessfully`; `suppressPlayerErrors` |
| `requests`, `timers` | the pending `fetch` of `/api/hls/start`, the callbacks given to `setTimeout`, each with what its closure holds |
| `status` | the overlay: hidden, preparing, a failure, or the offer of the next signal |
| `platform` | what the browser has: mpegts.js and hls.js, hls.js, HLS of its own, nothing |

| action | code |
|---|---|
| `PlayChannel`, `PlaySignal`, `PlayNextSignal`, `RetryByHand`, `ChangeQuality`, `Close` | `playChannel`, `playAgendaStream`, `proceedToNextMatchStream`, `retryCurrentPlayback`, `changeQuality`, `closePlayer` |
| `Settle` (`Attach`, `Refuse`) | what `startPlayback` does after its `await`: `attachHlsToPlayer`, or one more try, the next signal, the failure |
| `MediaLoads`, `FragmentLoads`, `MediaPlays` | `canplay`, `FRAG_LOADED`, `playing` and `timeupdate` |
| `HlsFails`, `MpegtsFails`, `ElementFails` | the error handlers of hls.js, mpegts.js and the element |
| `FireLoadMpegts`, `FireLoadHls`, `FireRetry`, `FireRecover`, `FireUnsuppress` | the callbacks of 30 s, 25 s, 2 s, 1.5 s and 0.4 s |

The page has one thread, so an action is one event with everything it calls up
to the next `await`. A closure holds the generation it was made in; the model
keeps instead whether `playbackGeneration` is still that one (`fresh`), which every
start and close takes from all closures at once. Pending callbacks that cannot be
told apart are one. The order of callbacks is free except that the timeouts of
25 and 30 s do not overtake a callback of 2 s or less set before the playback
began (`LongWaitOver`). A request may be answered, refused or fail at any time; a
refusal is always one that may be retried, which is all `routes.py:867` sends.

Left out: the browser's history (a close from the back button is `Close`), the
statistics overlay, audio tracks, gestures, the iOS button, errors hls.js recovers
from by itself (`recoverMediaError`, `startLoad`, which change no variable here),
`play().catch(hidePlayerStatus)` of the native path (`script.js:1290`, `1390`), by which an
older playback may hide the overlay of a newer one, `mpegts.createPlayer` throwing
(`script.js:1410`, `1523`), and the rest of the page.

## The runs

`MCCatalog` has two URLs, of which the second lists a stream the first lists
too, and two ids: one source is registered at the start and one may be added
(two registered ones in `catalog_refresh_raises`), so that duplicate URLs, shared
streams, deletion and reuse of a URL all occur. `WarmSpec` starts after one successful refresh.

| run | question | instance |
|---|---|---|
| `catalog_sequential` | are registries, snapshots and outputs consistent between operations when operations do not overlap, do channels within their TTL stay published, does an empty answer replace nothing, and does a save repair what a crash or a failed write left? | one thread, any three operations, one fault at any step, the first URL may list nothing; a snapshot of instant 1, instants 3 and 4, TTL 2, 404 TTL 1, so that at and beyond both TTLs occur |
| `catalog_concurrent` | what survives every interleaving? | two threads, two operations of any kind, no fault |
| `catalog_scheduled` | does the scheduler refresh when it should, for ever, and does every operation end? | the scheduler and a request thread, restarted with a cache one instant old, up to instant 4, one crash or failed write; interval 2 |
| `hls_pair` | what survives every interleaving of two viewers with the manager, and is all this what `Broadcasts` promises? | two threads that start (forced or not), serve and stop one session; two runs, two operations, two attempts |
| `hls_liveness` | does every request end, and every FFmpeg? | one thread with every operation, under fairness |
| `player` | are late answers, errors and callbacks without effect, and does every preparation end? | four kinds of browser, two channels that are also the two signals of a match, three things the viewer does |
| `agenda` | do requests get fresh answers or the last good one, is every live event in all outputs that can read its hour, and is all this one stored document? | two threads, three requests, one change of the page or the catalogue (of which a stream disappears), two faults, three instants |
| `validator` | do walks end, complete and bounded, does the hash fit the list, and is a playlist parsed to what it announces? | four lists (a cycle, a list met twice, missing and unreadable ones, a scalar instead of a list), two resolvers, depth limit 2, one edit; every playlist of up to four lines |
| `stores` | do settings, counters and registry survive overlapping requests, crashes, failed accesses and an upgrade? | two threads, four calls, two faults, from new, old, hand-edited and unreadable files |
| `catalog_disable_race`, `catalog_refresh_raises`, `paste_pinned` | a documented promise the code breaks | [see below](#what-disagrees-with-the-documentation) |

Properties that are proved for every instance are not all repeated by the runs: the
type invariants of `Catalog`, `RefreshScheduler`, `HlsSessions`, `Player`, `Agenda` and `Stores`, and
`CustomUnique`, `PublishedOnce`, `OutputsAgree`, `LiveHasDirectory`, `MemoryIsDisk`,
`PlaylistHasGuide`, `SerialSavesKept` and `UnreadableRegistryKept` are left to
[the proofs](#the-proofs).

Bounds of the catalogue: `MaxOps` operations in a behaviour, `MaxTime` instants,
`MaxFaults` crashes or failed writes (the properties of quiet states are about
behaviours without one; `SaveRepairsOutputs` is about what follows one), `MaxId` sources ever registered. Two concurrent
operations suffice for the races: each property relates two pieces of state, and
a third operation only adds behaviours between operations that
`catalog_sequential` covers with three. `FreshSourcesPublished` is of operations one after the
other: a rebuild outside the locks (`channel_manager.py:318`) that has loaded an old snapshot
and saves after a refresh committed a newer one leaves the new channels unpublished
until the next save, and no run is about that overlap. Workers are interchangeable in
`catalog_concurrent`, hence the symmetry; the scheduler is not a worker like another.

Bounds of playback: `MaxRuns` FFmpeg processes, beyond which `Popen` can only raise;
`MaxOps` operations; `Polls` polls of a manifest and `Attempts` tries of a start; ages
stop at `Oldest`, beyond every threshold. One session is enough because no
property relates two sessions and no code does, apart from the lock, for which
two threads on one session compete as well. Two runs are the one a property is
about and the one that replaces it. `ValidAge` 0, `YoungAge` 1, `FreshAge` 1 and
`IdleTimeout` 1 with `Oldest` 2 put every age below, at and beyond each threshold
and keep the order of the code (`ValidAge`, 30 s, below `YoungAge`, 60 s).

Bounds of the player: `MaxOps` things the viewer does; nothing else is bounded, since
`fresh` replaces the generation. Three are a playback, its replacement and its
end or a return to the first channel, which is where a late callback could
mistake one playback for another; two channels are one and another.

Bounds of the agenda: the instants 1260, 1289 and 1290 with a TTL of 30 put a document
below and at its TTL, and the events of the page, in minutes, on both sides of each
window: -180, -135, 5 and 120, with one live at an hour only the first parser reads
and one at an hour only the guide reads. The first world (`FirstWorlds`) is the full page with
both streams; the change may empty the page or take a stream away. Three requests are one that stores, one that reads and
one that is forced in between; two faults are a restart and a file that then cannot
be read. The windows and the matching are proved for every page.

Bounds of the validator: one edit between any two queries is enough to make a record
read before differ from one read after; a depth limit of 2 (10 in the code) is passed
by a chain of four lists, which the edit can make. Four lines after the header contain
two announcements and anything between or around them.

Bounds of the stores: four calls in two threads are two that overlap and two that
follow; two faults are one inside a write and a second while the first is repaired.
The calls of a behaviour are bounded, so the run may stop and does not check for
deadlock.

`Rest` lets the catalogue and the agenda stand still when no thread has work; every other
standstill is a deadlock TLC would report. Playback may stand still when the
bounds are used up, so its runs do not check for deadlock; that nothing waits
for ever is what `RequestsEnd` says. A page may do nothing for ever.

Fairness of `catalog_scheduled`: each thread goes on (`WF` of its steps), which the
operating system provides, downloads end, which their timeouts provide, and the clock
goes on. `SF` of `RunUpdate` says that a thread waiting for the refresh locks gets them if
they are released again and again: `threading.Lock` promises no order among waiters,
but no thread holds on to the lock and takes it again in a loop without a wait (the
scheduler sleeps, requests come from outside). `KeepsRefreshing` is about a wait that ends
within the bound of the clock.

Fairness of the agenda: a download ends (`urlopen` has a timeout), a thread that holds an
answer sends it, and a thread waiting for the lock gets it in the end (`SF_vars(Enter(t))`,
for the same reason). Fairness of the validator: every query and download has a
timeout. The stores state safety only.

Fairness of playback: each request thread, the analyzer threads, the two halves
of the monitor and the clock go on. Nothing is assumed of clients and nothing of
FFmpeg, which may hang, write or end. Weak fairness is enough although the lock
is contended: operations and runs are bounded, the monitor alone takes the lock
for ever, and it never holds it across two steps.

Fairness of the player: the browser runs callbacks when they are due, and requests
end (`WF_vars(Fires)`, `WF_vars(Settles)`). Nothing is assumed of the viewer, and nothing
of the media, which may stay silent for ever; this is what the timeouts are for.

## The proofs

Eight modules of theorems; `PROJECT.json` names those a reader should know of.

### The catalogue

Every theorem is about `Spec` for all values of the constants, under
`CatalogAssumption` (the initial URLs are distinct, the null markers are not
values) and `NullAssumption`.

The first part of `CatalogProofs` proves `TypeInv`, from which `TypeOK` follows. `TypeOK` alone is not
inductive: nothing in it says that the source a refresh is about to download is
in the copy of the registry it works from, that a request about to write has an
id, or which results a thread may hold where. `TypeInv` adds these to each
thread: `LabelOfOp` (an operation visits only its own labels), `InputOfLabel` (the
inputs a label reads are there), `TodoFromView` (the sources still to process are
in the copy) and `ResultsKnown` (which results are known where). The step proof
has one case per action; each shows that the new thread state is well typed
and satisfies `ThreadOK`, and `ThreadsStep` lifts this to all threads.

The second part uses `TypeInv` as its invariant. Four frame lemmas say which
actions write each file; each theorem then has to look at those only:

| theorem | argument |
|---|---|
| `UrlsUniqueCorrect` | create and update compare with the registry they write; recording a refresh keeps URLs (`RecordKeepsEdits`) |
| `CustomUniqueCorrect` | the same for the custom channels |
| `PublishedOnceCorrect` | `MergeListsOnce`: the merge of any snapshots lists a stream once, because of two owners one has the lower id |
| `SnapshotsSoundCorrect` | a stand-in is written without a hash, a valid body with its own, an accepted one with none (`SnapFrame` says that nothing else is written) |
| `LockHeldByRefreshCorrect` | a thread keeps its operation until it finishes (`RefreshKeepsOp`, `RebuildKeepsOp`, `HandleKeepsOp`), so it stays inside or outside a refresh until the step that takes or releases the locks |
| `RefreshKeepsEditsCorrect` | the only write of a refresh to the registry is `RecordSource` |

`CatalogSerialProofs` proves what `catalog_sequential` checks, for any number of threads of
which one at most is inside an operation at a time: its theorems have the form
`Spec /\ []OneAtATime => []P`. The hypothesis is what the properties are about, since
`catalog_disable_race` shows that they fail when operations overlap; a single thread
always satisfies it (`OneThread`), and so does one user at a time. None of the
properties is inductive, because all of them look at the state between operations
only. `SerialInv` (in `CatalogSerial`) says what holds inside one, label by label:

| part | says |
|---|---|
| `CopiesCurrent` | the copies of the registries a thread works from are as the files are |
| `MergedFromView` | what is merged is of enabled sources; nothing is merged before the first commit |
| `RequestCurrent` | the source a request is about is as it was read, and what was validated is the URL it gets |
| `MergeCovers`, `MergeServed` | what is merged is no less than a snapshot within its TTL, and no more than the URL lists |
| `HalfSaved`, `OutputsRendered` | between the two writes of a save, `channels.json` is what is about to be rendered |
| `SnapshotsOwned`, `CustomListed`, `DuePublished`, `ServedByUrl` | the property itself, or the label of a thread that is about to restore it |

The last group is about behaviours without a fault; a crash or a failed write may
stop an operation anywhere, after which only `SaveRepairsOutputs` is promised.
`EmptyNeverReplacesCorrect` rests on `MergeCovers`: until a refresh commits a source, the cache
entry it read is what the snapshot holds, so comparing the answer with the one is
comparing it with the other. With two threads a request may save a snapshot in
between, and an empty answer may then replace it. The runs start from `WarmSpec`, after one refresh; the theorems are about
`Spec`, which starts with an empty cache, and so cover how that state is reached.

`SchedulerProofs` is about `SchedulerSpec`. `CatalogStep` shows that a step of the scheduler is a
step of the catalogue or keeps its invariant, so `TypeInv` carries over. `NeverSleepsPastDue`
becomes inductive with two facts: `channelsAt` is never in the future, and while the
scheduler sleeps, `slept` is not either. A save then only moves the due time later
(`SavesNow`), and what `Sleep` computes is right at the moment it does (`SleepStep`).

### Playback

The theorems are about `Spec` of `HlsSessions` for any threads, sessions, number of
runs, operations, attempts and polls and any time limits, under `HlsAssumption`
(the limits are below the age at which ages stop, `None` is no thread and no
session).

The inductive invariant `IInv` has four parts:

* `TypeInv`: `TypeOK`, and a thread under way has a session and, at the labels
  between two polls, a poll left (else the count of polls would leave its type);
* `BooksInv`: the dictionaries have the same keys (`BooksAgree`), runs are numbered as
  they were started (`Numbered`), a registered run belongs to its session
  (`Registered`), and none is forgotten (`NoOrphan`). `NoOrphan` alone is not inductive:
  a cleanup reaps the run that is registered, and it takes the other parts to
  know that no other run of that session is alive;
* `LiveHasDirectory`: preserved because a directory is removed only by steps that
  reap the run that writes there;
* `CountInv`: `CountedOnce` with `Counting`, which says who may still count a run.

`InvStep` splits on the actions. `CleanupInv` proves once what all ways out of a
session share; `SpawnInv` is the start of a new run.

`StartSparesPreparingCorrect` needs `IInv` to know that the only running FFmpeg a
start can end is the one registered for its session. `ReadyIsOwnCorrect` needs a
second invariant, `AwaitInv`: from the moment a request is given a run until it is
answered, the session's registered run and the run that wrote its manifest are
not older. `StepChanges` says what any step does to a session (its run is kept,
dropped or replaced by the newest; its directory is kept, emptied or written by
the registered run), and `WaitingStep` what any step does to a waiting thread.

`Implementation` is the refinement of `Broadcasts`. The mapping takes for the
processes of a session those started for it that have not been waited for, for its
playlist the run that wrote the manifest that can be read, and for the wait of a
client the run its thread was given, from `starting` to the answer, or to `giveUp`
when it has failed. One lemma for each kind of step says which step of `Broadcasts`
it is: a start is `Launch` or `Join`, a poll `Answer` or `Fail`, a look of the monitor
`Collect`; touching a session, counting it, the clock and the end of a process are
none. The two invariants are needed where an abstract step promises more than the
code checks: `Launch` leaves one process because whatever is not waited for is
registered (`OnlyRegistered`, from `NoOrphan`), so that reaping the registered run
(`ProcessesCleaned`) or polling it (`ProcessesPolled`) empties the session it belongs
to and no other; and `Answer` gives a playlist not older than the wait because
`AwaitInv` says so, where the code only looks for segments.

### The browser player

The theorems are about `Spec` of `Player` for any channels, match, set of browsers
and number of things the viewer does, under `PlayerAssumption` (the signals are
channels, the null marker is none).

`IInv` is `TypeOK`, `OnlyCurrentWorks` and `PreparingEnds` with three facts they rest on:
`TimersKnow` (a callback that compares channels has one), `MediaInv` (nothing is loaded
without an engine; a page that is preparing although something is loaded is about
to recover, so that the timeouts, which then do nothing, are not what its
preparation waits for) and `ClosedInv` (a closed player has no engine and no
request that counts, so errors and answers find nothing). `StartInv` and
`RecoverInv` prove once what ten actions share; `NothingInv` is about a callback that
comes too late. `ClosedStaysClosedCorrect` follows from `ClosedInv`.

### The agenda

The theorems are about `Spec` of `Agenda` for any threads, pages, catalogues, instants and
TTL under `AgendaAssumption` and `GuideAssumption`. `IInv` is `TypeOK` and `MemoryIsDisk` with
`LockHeld` (a thread that downloads owns the lock, so that nobody replaces a copy
meanwhile) and `ThreadOK` (a thread's time is not in the future, and its page is there
when it stores). `MemoryIsDisk` alone is not inductive: that a stored document does not
count as younger than its file takes `asked <= now`. `Given` says what a thread that
reaches "cross" was given, from which both action properties follow.
`LiveEventsListedCorrect` and `PlaylistHasGuideCorrect` are arithmetic on the windows.
`Implementation` maps each step: taking a copy and falling back to `Take` (by `MemoryIsDisk`
the memory copy is the stored document), `Store` to `Replace`, ends to `Drop`, `Crash` to
`Restart`, the rest to stutters.

### The validator

`WalkInv` bounds the queries by what is visited: all resolvers for every visited
reference but the one being asked, and of that one those asked so far; a reference is
asked for only when it enters `visited` (`OneMore`), which has at most as many members as
there are references. For the hash it says that while the root is open, each of its own
streams is in the list found so far or still to be taken, whatever is edited: the walk
reads the root once.

`PlaylistAsAnnouncedCorrect` is about every playlist of any length. `ParseM3u` is a recursive
function over the lines, and `ReadSoFar` is what it has read after n of them: the title
pending, and the channels announced so far, each under the first title and once.
`ReadLineKeeps` is the step. The induction is done without an induction theorem: of
the lines where the claim would fail, there would be a first (`LeastNatural`, from the
well-foundedness of the order of numbers), and the step refutes it.

`ValidIsCompleteCorrect` is about every finite graph of lists. `Walked` says of an undisturbed
walk that

* the open records lie on a path of distinct references met (`OpenOnPath`), so that the
  depth limit never cuts off a walk that `Shallow` allows: a longer path would have
  more references than there are (`PathShort`);
* every item of a reference met is settled, its streams found or its own list met,
  or waits in an open record (`NothingLost`);
* what is found is listed by a reference met (`FoundListed`), and what is met belongs to
  every set that contains the root and all its members refer to (`MetReachable`).

When the root closes nothing waits, so the references met are themselves such a set,
the smallest (`RootComplete`). `CompleteInv` adds that without a refusal or an exception the
first resolver is being asked, so a record counts as missing only if it is. TLC has
checked `CompleteInv` on the instance of `validator`.

### The stores

`StoresProofs` proves three invariants side by side, since each step moves one store and
leaves the others alone (`NextThreads`, `StatsElsewhere`, `MigrationElsewhere`,
`SettingsElsewhere`): that a thread inside a write of the statistics owns the lock and
carries the counters in memory; that a thread inside the document owns the locks, has
read what is in the file, and has the copy complete when it migrates; and what each
value in the settings, and in the copies threads hold, means (`Means`), which renaming
and normalising keep (`NormalizeSound`) and merging preserves (`MergedSound`).

### What is only model-checked

The liveness properties (`RequestsEnd`, `RunsReaped`, `OperationsEnd`, `KeepsRefreshing`, `ValidationEnds`,
`ConcludesWithoutMpegts`), because TLAPS does not reason about fairness and ENABLED. Every
invariant and action property of the passing runs is a theorem.

## What disagrees with the documentation

| run | what happens | documented |
|---|---|---|
| `catalog_disable_race` | a source disabled during a refresh is published again by it (`channel_manager.py:161`) | disabled sources contribute no channels (`docs/sources-v2.md:31`) |
| `catalog_refresh_raises` | an unexpected exception in one download ends the refresh, because its handler raises too (`channel_manager.py:89`) | a failing source falls back to its snapshot (`README.md:144`) |
| `paste_pinned` | both resolvers refuse a nested list, which then counts as missing (`source_validator.py:258`); the shorter list is saved with the hash of the root, and every later refresh finds the source not modified (`source_validator.py:426`) | the hash avoids downloads when the content has not varied (`CHANGELOG.md:158`) |

Met while modelling, and in the models, but without a run of their own:

* a source verified unchanged at each refresh is purged at its first failure after the
  TTL, because not_modified does not renew its snapshot (`channel_manager.py:105`), while
  `CHANGELOG.md:13` purges after the TTL *without successful refreshes*;
* the monitor stops what it found idle or dead a moment ago without looking again, and
  so ends a session that was requested or restarted meanwhile (`hls_manager.py:94`, `106`);
  `docs/configuration.md:70` calls `HLS_IDLE_TIMEOUT` the inactivity before FFmpeg is stopped;
* a stream that never plays in a browser with mpegts.js is tried for ever: falling back
  to HLS resets the tries, and a try of the fallback goes back to MPEG-TS
  (`script.js:1486`), while `script.js:1672` offers the next signal after the tries on the
  current stream. `ConcludesWithoutMpegts` is about the other browsers;
* of two saves of the settings that overlap one is lost, and a save that cannot read the
  file replaces it by what the request carries (`settings_manager.py:77`), while line 76
  says that it merges with what exists. The history variable `asked` singles out these
  cases in `UntouchedSettingsKept` and `SerialSavesKept`;
* a crash while `stats.json` is written loses all counters, and a failed write is only
  logged (`stats_manager.py:26`);
* an event on "DAZN 2" is matched with "DAZN LaLiga 2", since the words of the one are among
  those of the other and the dial is the same (`agenda_service.py:298`, `docs/agenda.md:28`);
* the playlist of the agenda is sorted by hour and minute without the day
  (`agenda_service.py:638`), and the guide has a programme under a tvg-id only for the
  first event that meets it (`agenda_service.py:806`);
* when the download fails and the old file cannot be read, the request ends with 500
  (`agenda_service.py:510`);
* the cleanup of a dead session keeps its files, its last manifest is then served
  from the disk, and a viewer of the playlist gets no new stream until somebody
  calls start or stop (`hls_manager.py:93`, `routes.py:1040`, `CHANGELOG.md:48`);
* a crash after the registry has the new URL of a source and before its snapshot
  is replaced leaves the channels of the old URL published under the new one
  until the next successful refresh (`source_manager.py:225`);
* a recovery set before the viewer zapped restarts the channel he zapped to,
  because its callback compares neither channel nor generation (`script.js:1667`);
* zapping to a channel of the list keeps the queue of the match watched before,
  so its failure offers a signal of that match (`script.js:1127`);
* the next signal of a match is offered, not switched to (`script.js:22`), as
  `CHANGELOG.md:85` says and `docs/agenda.md:83` does not;
* a failed validate request disables the source and leaves its channels published
  (`routes.py:529`, `docs/sources-v2.md:31`) until the next save, whatever that is of
  (`SaveRepairsOutputs`);
* two records of a version 1 registry with one URL get one id (`source_manager.py:58`), and
  a removal drops only the first of them (`source_manager.py:262`);
* a start that cannot read `stats.json` goes on without counters, and the next update
  overwrites those in the file (`stats_manager.py:22`);
* an hour such as `21:5` is read by the agenda and its playlist (`agenda_service.py:432`)
  and not by the guide (`agenda_service.py:742`), which then lacks an event that is live;
* the playlist of the agenda has events from three hours ago to two hours ahead
  (`agenda_service.py:634`), where `CHANGELOG.md:8` says six;
* when all sources fail, channels of a source beyond its 404 TTL are kept, because
  `all_expired` ignores the error (`channel_manager.py:155`, `CHANGELOG.md:12`);
* when all sources fail and all snapshots have expired, `channels.json` is emptied
  (`channel_manager.py:158`, `docs/sources-v2.md:13`);
* two edits can leave a source enabled with a URL nobody validated, because the
  validation is of the URL read before it (`routes.py:481`, `source_manager.py:225`);
* the log of an FFmpeg that was dead on arrival is kept for inspection
  (`hls_manager.py:368`) and removed by the caller right after (`routes.py:859`).

## What is not modelled

In the catalogue: the renaming of cache files named by the hash of the URL, names,
kinds and stored validations of sources, the size of the download pool (downloads
complete in any order), and PATCH storing the URL as given where POST normalises it.
In the validator: the parser of the AceStream API, which is the same loop over JSON,
and the normalisation of URLs. In the agenda: see [above](#the-agenda). In playback: the
stateless proxies of upstream manifests and segments, the direct stream, the parsing
of playback ids. An
exception in the monitor thread (from the statistics, or from removing a
directory) would end it for good (`hls_manager.py:52`); the model takes both to
succeed. In the browser: see [above](#the-browser-player). The
orchestrator client, the configuration and the wiring of the application keep no
state of their own; static assets, container and packaging files are not code of the
system. `PROJECT.json` lists every component with its status.

## Plan

Done, in this order: the catalogue; playback; the browser player; the scheduler, the
stores and the migration; the validator; the agenda with its abstract specification.

Then the proofs: every invariant and action property the passing runs check.

What could follow: for each liveness property the measure that decreases, as an action
property; the manifest rewriting of the proxies.
