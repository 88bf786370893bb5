---------------------------- MODULE HlsSessions ----------------------------
(***************************************************************************)
(* HLS playback: the FFmpeg sessions of hls_manager.py, its inactivity     *)
(* monitor, and the request handlers of routes.py that start a session,    *)
(* wait for its manifest, serve it and stop it.                            *)
(*                                                                         *)
(* A session is a playback id (stream and profile).  A run is one FFmpeg   *)
(* process, numbered in the order of their starts.  A step is what happens *)
(* under one acquisition of HLSManager.lock, or between two of them; the   *)
(* lock is held across two steps only by start_stream, which sleeps for a  *)
(* second inside it.                                                       *)
(***************************************************************************)
EXTENDS Naturals, FiniteSets

CONSTANTS
    Workers,      \* request threads
    Sessions,     \* playback ids
    Original,     \* those of the profile "original"
    Handlers,     \* the operations each thread may take up in this instance
    Attempts,     \* tries of _start_hls_with_retries, per operation
    Polls,        \* polls of a manifest before wait_timeout
    IdleTimeout,  \* HLS_IDLE_TIMEOUT
    ValidAge,     \* 30 s: a run older than this has played
    YoungAge,     \* 60 s: a run younger than this is reused when forced
    FreshAge,     \* 15 s: so is one whose manifest is younger than this
    MaxRuns,      \* bound on the FFmpeg processes started
    MaxOps,       \* bound on the operations started
    Oldest,       \* ages stop here, past every threshold
    None          \* null marker: no holder of the lock, no session

AllOps == {"start", "auto", "serve", "segment", "stop"}
StartOps == {"start", "auto", "serve"}

Runs == 1..MaxRuns
NoRun == 0

\* Ages count ticks.
Ages == 0..Oldest
NoAge == Oldest + 1

ASSUME HlsAssumption ==
    /\ Original \subseteq Sessions
    /\ Handlers \in [Workers -> SUBSET AllOps]
    /\ Attempts \in [StartOps -> Nat \ {0}]
    /\ Polls \in Nat
    /\ {IdleTimeout, ValidAge, YoungAge, FreshAge, MaxRuns, MaxOps, Oldest} \subseteq Nat
    /\ \A limit \in {IdleTimeout, ValidAge, YoungAge, FreshAge} : limit < Oldest
    /\ None \notin Workers \cup Sessions

VARIABLES
    reg,          \* processes: the run registered for each session
    idle,         \* activity: how long ago the last request was
    age,          \* start_times: how long ago the run started
    validated,    \* validated_sessions
    os,           \* what the operating system knows of each run
    owner,        \* the session each run was started for
    dir,          \* the directory of each session: who wrote it, what is in it
    written,      \* how long ago its manifest was written
    analyzer,     \* the thread _analyze_stream of each run
    counted,      \* successes counted for each run
    lock,         \* the holder of HLSManager.lock across steps
    mon,          \* the monitor thread: what it found, what it has yet to do
    th,           \* the request threads
    started,      \* the number of runs started
    ops           \* the number of operations started

books == <<reg, idle, age, validated>>
world == <<os, owner, dir, written>>
stats == <<analyzer, counted>>
bounds == <<started, ops>>
vars == <<books, world, stats, lock, mon, th, bounds>>

\* Files of a session: the log only, a manifest without two segments, or one
\* with two.
Directory == [run: Runs \cup {NoRun}, files: {"none", "log", "listed", "ready"}]

NoDir == [run |-> NoRun, files |-> "none"]

Labels ==
    {"idle", "serve", "probe", "upstream", "start", "starting", "poll", "check",
     "alive", "giveUp", "touch", "stop"}

Thread ==
    [pc: Labels,
     op: AllOps \cup {"none"},
     sid: Sessions \cup {None},
     force: BOOLEAN,
     attempt: Nat,
     polls: 0..Polls,
     run: Runs \cup {NoRun}]     \* the run start_stream returned with

Monitor == [dead: SUBSET Sessions, stale: SUBSET Sessions]

NothingFound == [dead |-> {}, stale |-> {}]

TypeOK ==
    /\ reg \in [Sessions -> Runs \cup {NoRun}]
    /\ idle \in [Sessions -> Ages \cup {NoAge}]
    /\ age \in [Sessions -> Ages \cup {NoAge}]
    /\ validated \subseteq Sessions
    /\ os \in [Runs -> {"unborn", "running", "exited", "reaped"}]
    /\ owner \in [Runs -> Sessions \cup {None}]
    /\ dir \in [Sessions -> Directory]
    /\ written \in [Sessions -> Ages]
    /\ analyzer \in [Runs -> {"none", "count", "mark"}]
    /\ counted \in [Runs -> Nat]
    /\ lock \in Workers \cup {None}
    /\ mon \in Monitor
    /\ th \in [Workers -> Thread]
    /\ started \in 0..MaxRuns
    /\ ops \in 0..MaxOps

NoRequest ==
    [pc |-> "idle", op |-> "none", sid |-> None, force |-> FALSE, attempt |-> 1,
     polls |-> 0, run |-> NoRun]

Init ==
    /\ reg = [s \in Sessions |-> NoRun]
    /\ idle = [s \in Sessions |-> NoAge]
    /\ age = [s \in Sessions |-> NoAge]
    /\ validated = {}
    /\ os = [r \in Runs |-> "unborn"]
    /\ owner = [r \in Runs |-> None]
    /\ dir = [s \in Sessions |-> NoDir]
    /\ written = [s \in Sessions |-> 0]
    /\ analyzer = [r \in Runs |-> "none"]
    /\ counted = [r \in Runs |-> 0]
    /\ lock = None
    /\ mon = NothingFound
    /\ th = [w \in Workers |-> NoRequest]
    /\ started = 0
    /\ ops = 0

-----------------------------------------------------------------------------
(* The processes and the books of the manager.                             *)

Alive(r) == r # NoRun /\ os[r] = "running"

\* Popen.poll() reaps a child that has exited.
AfterPoll(polled) ==
    [r \in Runs |-> IF r \in polled /\ os[r] = "exited" THEN "reaped" ELSE os[r]]

\* Mutant: the process is forgotten without being terminated.
ForgetProcess(s) == os

\* The runs reaped when the session is cleaned up; _reap_process terminates
\* the process, kills it if it must, and waits for it.
AfterReap(s) == [r \in Runs |-> IF r = reg[s] THEN "reaped" ELSE os[r]]

\* _cleanup_stream_locked, up to the directory.
CleanupBooks(s) ==
    /\ idle' = [idle EXCEPT ![s] = NoAge]
    /\ os' = AfterReap(s)
    /\ reg' = [reg EXCEPT ![s] = NoRun]
    /\ age' = [age EXCEPT ![s] = NoAge]
    /\ validated' = validated \ {s}

CleanupKeepingFiles(s) == CleanupBooks(s) /\ UNCHANGED dir

\* ... and with remove_files.  stop_stream.
Cleanup(s) == CleanupBooks(s) /\ dir' = [dir EXCEPT ![s] = NoDir]

\* Mutant: activity is recorded for any session.
TouchAny(s) == idle' = [idle EXCEPT ![s] = 0]

\* update_activity.
UpdateActivity(s) ==
    idle' = IF reg[s] # NoRun THEN [idle EXCEPT ![s] = 0] ELSE idle

\* _session_is_reusable, of a registered session.
IsReusable(s) ==
    \/ age[s] < YoungAge
    \/ dir[s].files \in {"listed", "ready"} /\ written[s] < FreshAge

-----------------------------------------------------------------------------
(* A request: _start_hls_with_retries and the handlers around it.          *)

Goto(w, label) == th' = [th EXCEPT ![w].pc = label]

Answer(w) == th' = [th EXCEPT ![w] = NoRequest]

\* A thread takes up a request.
Begin(w) ==
    /\ th[w].pc = "idle"
    /\ ops < MaxOps
    /\ ops' = ops + 1
    /\ \E op \in Handlers[w], s \in Sessions, force \in BOOLEAN :
        /\ force => op = "start"
        /\ th' = [th EXCEPT ![w] =
             [NoRequest EXCEPT !.op = op, !.sid = s, !.force = force,
                !.pc = CASE op \in {"start", "auto"} -> "probe"
                         [] op = "serve" -> "serve"
                         [] op = "segment" -> "touch"
                         [] op = "stop" -> "stop"]]
    /\ UNCHANGED <<books, world, stats, lock, mon, started>>

\* serve_hls of a manifest: a session is started only if there is no file.
Serve(w) ==
    /\ th[w].pc = "serve"
    /\ Goto(w, IF dir[th[w].sid].files \in {"listed", "ready"}
                 THEN "touch" ELSE "probe")
    /\ UNCHANGED <<books, world, stats, lock, mon, bounds>>

\* _probe_upstream_media: real HLS of the original profile is answered with
\* the proxy; a live stream is started at once, anything else is waited for.
Probe(w) ==
    /\ th[w].pc = "probe"
    /\ \/ th[w].sid \in Original /\ Answer(w)
       \/ Goto(w, "start")
       \/ Goto(w, "upstream")
    /\ UNCHANGED <<books, world, stats, lock, mon, bounds>>

\* The next attempt, or the answer 504.
Retry(w) ==
    IF th[w].attempt < Attempts[th[w].op]
      THEN th' = [th EXCEPT ![w].pc = "upstream", ![w].attempt = @ + 1]
      ELSE Answer(w)

\* _wait_for_upstream_media.
WaitUpstream(w) ==
    /\ th[w].pc = "upstream"
    /\ Goto(w, "start") \/ Retry(w)
    /\ UNCHANGED <<books, world, stats, lock, mon, bounds>>

\* start_stream returned a run: wait for its manifest.
Await(w, r) ==
    th' = [th EXCEPT ![w].pc = "poll", ![w].run = r, ![w].polls = Polls]

Restart(w) == th[w].force \/ th[w].attempt > 1

\* Mutant: a forced start never reuses a session.
ReusesUnlessForced(w) == Alive(reg[th[w].sid]) /\ ~Restart(w)

\* The session is registered, runs, and a restart is not asked for or denied.
Reuses(w) ==
    LET s == th[w].sid
    IN  Alive(reg[s]) /\ (Restart(w) => IsReusable(s))

\* start_stream of a session that is kept.
StartReuse(w) ==
    LET s == th[w].sid IN
    /\ th[w].pc = "start"
    /\ lock = None
    /\ Reuses(w)
    /\ idle' = [idle EXCEPT ![s] = 0]
    /\ Await(w, reg[s])
    /\ UNCHANGED <<reg, age, validated, world, stats, lock, mon, bounds>>

\* Mutant: the directory of the previous run is kept.
KeepFiles(s, r) == IF dir[s] = NoDir THEN [run |-> r, files |-> "log"] ELSE dir[s]

\* The directory start_stream makes for a run, after removing the old one.
FreshDirectory(s, r) == [run |-> r, files |-> "log"]

\* start_stream of any other session: what is left of the last run goes, a new
\* FFmpeg is registered and its _analyze_stream thread started.  The lock is
\* kept for the second that follows.
StartSpawn(w) ==
    LET s == th[w].sid
        r == started + 1
    IN  /\ th[w].pc = "start"
        /\ lock = None
        /\ ~Reuses(w)
        /\ started < MaxRuns
        /\ started' = r
        /\ os' = [AfterReap(s) EXCEPT ![r] = "running"]
        /\ owner' = [owner EXCEPT ![r] = s]
        /\ dir' = [dir EXCEPT ![s] = FreshDirectory(s, r)]
        /\ reg' = [reg EXCEPT ![s] = r]
        /\ idle' = [idle EXCEPT ![s] = 0]
        /\ age' = [age EXCEPT ![s] = 0]
        /\ validated' = validated \ {s}
        /\ analyzer' = [analyzer EXCEPT ![r] = "count"]
        /\ lock' = w
        /\ th' = [th EXCEPT ![w].pc = "starting", ![w].run = r]
        /\ UNCHANGED <<written, counted, mon, ops>>

\* ... or Popen raises, and the request ends with an error.
StartRaises(w) ==
    LET s == th[w].sid IN
    /\ th[w].pc = "start"
    /\ lock = None
    /\ ~Reuses(w)
    /\ IF reg[s] # NoRun THEN CleanupBooks(s) ELSE UNCHANGED <<books, os>>
    /\ dir' = [dir EXCEPT ![s] = FreshDirectory(s, NoRun)]
    /\ Answer(w)
    /\ UNCHANGED <<owner, written, stats, lock, mon, bounds>>

\* Mutant: the lock is kept when FFmpeg was dead on arrival.
CheckKeepingLock(w) ==
    LET s == th[w].sid IN
    /\ th[w].pc = "starting"
    /\ IF Alive(th[w].run)
         THEN Await(w, th[w].run) /\ lock' = None /\ UNCHANGED <<books, os, dir>>
         ELSE Goto(w, "giveUp") /\ CleanupKeepingFiles(s) /\ UNCHANGED lock
    /\ UNCHANGED <<owner, written, stats, mon, bounds>>

\* A second later: an FFmpeg dead on arrival is cleaned up, its log kept.
CheckArrival(w) ==
    LET s == th[w].sid IN
    /\ th[w].pc = "starting"
    /\ lock' = None
    /\ IF Alive(th[w].run)
         THEN Await(w, th[w].run) /\ UNCHANGED <<books, os, dir>>
         ELSE Goto(w, "giveUp") /\ CleanupKeepingFiles(s)
    /\ UNCHANGED <<owner, written, stats, mon, bounds>>

\* _wait_for_ready_manifest: until the deadline, the session is kept active ...
PollActivity(w) ==
    /\ th[w].pc = "poll"
    /\ th[w].polls > 0
    /\ lock = None
    /\ UpdateActivity(th[w].sid)
    /\ Goto(w, "check")
    /\ UNCHANGED <<reg, age, validated, world, stats, lock, mon, bounds>>

\* ... and without the lock the files are looked at ...
PollReady(w) ==
    /\ th[w].pc = "check"
    /\ dir[th[w].sid].files = "ready"
    /\ IF th[w].op = "serve" THEN Goto(w, "touch") ELSE Answer(w)
    /\ UNCHANGED <<books, world, stats, lock, mon, bounds>>

PollNotReady(w) ==
    /\ th[w].pc = "check"
    /\ dir[th[w].sid].files # "ready"
    /\ Goto(w, "alive")
    /\ UNCHANGED <<books, world, stats, lock, mon, bounds>>

\* ... and then the process, until the next poll half a second later.
PollProcess(w) ==
    LET r == reg[th[w].sid] IN
    /\ th[w].pc = "alive"
    /\ th' = [th EXCEPT ![w].polls = @ - 1,
                        ![w].pc = IF Alive(r) THEN "poll" ELSE "giveUp"]
    /\ os' = AfterPoll({r})
    /\ UNCHANGED <<books, owner, dir, written, stats, lock, mon, bounds>>

PollTimeout(w) ==
    /\ th[w].pc = "poll"
    /\ th[w].polls = 0
    /\ Goto(w, "giveUp")
    /\ UNCHANGED <<books, world, stats, lock, mon, bounds>>

\* Mutant: a failed attempt leaves its session to the next one.
GiveUpQuietly(w) ==
    /\ th[w].pc = "giveUp"
    /\ lock = None
    /\ Retry(w)
    /\ UNCHANGED <<books, world, stats, lock, mon, bounds>>

\* The attempt failed: the session is stopped.
GiveUp(w) ==
    /\ th[w].pc = "giveUp"
    /\ lock = None
    /\ Cleanup(th[w].sid)
    /\ Retry(w)
    /\ UNCHANGED <<owner, written, stats, lock, mon, bounds>>

\* serve_hls of a segment, or of a manifest that is there.
Touch(w) ==
    /\ th[w].pc = "touch"
    /\ lock = None
    /\ UpdateActivity(th[w].sid)
    /\ Answer(w)
    /\ UNCHANGED <<reg, age, validated, world, stats, lock, mon, bounds>>

\* stop_hls.
Stop(w) ==
    /\ th[w].pc = "stop"
    /\ lock = None
    /\ Cleanup(th[w].sid)
    /\ Answer(w)
    /\ UNCHANGED <<owner, written, stats, lock, mon, bounds>>

-----------------------------------------------------------------------------
(* The threads of the manager.                                             *)

\* _analyze_stream counts a success without looking at the process ...
AnalyzeCount(r) ==
    /\ analyzer[r] = "count"
    /\ counted' = [counted EXCEPT ![r] = @ + 1]
    /\ analyzer' = [analyzer EXCEPT ![r] = "mark"]
    /\ UNCHANGED <<books, world, lock, mon, th, bounds>>

\* Mutant: the session is not marked.
AnalyzeForgetMark(r) ==
    /\ analyzer[r] = "mark"
    /\ lock = None
    /\ analyzer' = [analyzer EXCEPT ![r] = "none"]
    /\ UNCHANGED <<books, world, counted, lock, mon, th, bounds>>

\* ... and marks the session as counted.
AnalyzeMark(r) ==
    /\ analyzer[r] = "mark"
    /\ lock = None
    /\ validated' = validated \cup {owner[r]}
    /\ analyzer' = [analyzer EXCEPT ![r] = "none"]
    /\ UNCHANGED <<reg, idle, age, world, counted, lock, mon, th, bounds>>

\* What the monitor goes through.
Found == {s \in Sessions : idle[s] # NoAge}

FoundDead == {s \in Found : reg[s] # NoRun /\ ~Alive(reg[s])}

\* Mutant: a session is stopped only if its process is not running.
FoundStaleDead == {s \in Found \ FoundDead : idle[s] > IdleTimeout /\ ~Alive(reg[s])}

FoundStale == {s \in Found \ FoundDead : idle[s] > IdleTimeout}

\* Passive validation: the run has played for 30 s and nobody counted it.
FoundPlaying ==
    {s \in Found \ FoundDead : /\ age[s] # NoAge /\ age[s] > ValidAge
                               /\ s \notin validated
                               /\ Alive(reg[s])}

\* Every 10 s, when it has dealt with what it found, the monitor looks at all
\* sessions under the lock ...
MonitorLooks ==
    /\ mon = NothingFound
    /\ lock = None
    /\ mon' = [dead |-> FoundDead, stale |-> FoundStale]
    /\ validated' = validated \cup FoundPlaying
    /\ counted' = [r \in Runs |->
         IF \E s \in FoundPlaying : reg[s] = r THEN counted[r] + 1 ELSE counted[r]]
    /\ os' = AfterPoll({reg[s] : s \in Found})
    /\ UNCHANGED <<reg, idle, age, owner, dir, written, analyzer, lock, th, bounds>>

\* ... and then, taking it again for each, cleans up those found dead ...
MonitorCleansDead(s) ==
    /\ s \in mon.dead
    /\ lock = None
    /\ CleanupKeepingFiles(s)
    /\ mon' = [mon EXCEPT !.dead = @ \ {s}]
    /\ UNCHANGED <<owner, written, stats, lock, th, bounds>>

\* ... and stops those found idle.
MonitorStops(s) ==
    /\ mon.dead = {}
    /\ s \in mon.stale
    /\ lock = None
    /\ Cleanup(s)
    /\ mon' = [mon EXCEPT !.stale = @ \ {s}]
    /\ UNCHANGED <<owner, written, stats, lock, th, bounds>>

-----------------------------------------------------------------------------
(* FFmpeg and the clock.                                                   *)

\* FFmpeg writes segments and the manifest.
Segment(r) ==
    LET s == owner[r] IN
    /\ os[r] = "running"
    /\ dir[s].files # "none"
    /\ dir' = [dir EXCEPT ![s] = [run |-> r,
                files |-> IF @.files = "log" THEN "listed" ELSE "ready"]]
    /\ written' = [written EXCEPT ![s] = 0]
    /\ UNCHANGED <<books, os, owner, stats, lock, mon, th, bounds>>

\* FFmpeg ends: the upstream is silent or gone, or it crashed.
Exit(r) ==
    /\ os[r] = "running"
    /\ os' = [os EXCEPT ![r] = "exited"]
    /\ UNCHANGED <<books, owner, dir, written, stats, lock, mon, th, bounds>>

Older(a) == IF a < Oldest THEN a + 1 ELSE a

\* What takes less than a tick: the second inside start_stream, the half second
\* between two polls of a manifest ...
RequestPrompt(w) ==
    th[w].pc \in {"starting", "poll", "check", "alive"} =>
        idle[th[w].sid] \in {0, NoAge}

\* ... and the two short things _analyze_stream does, long before the monitor
\* would count the run by itself.
AnalyzerPrompt(r) == analyzer[r] # "none" => age[owner[r]] \notin ValidAge..Oldest

\* Time passes.
Tick ==
    /\ \A w \in Workers : RequestPrompt(w)
    /\ \A r \in Runs : AnalyzerPrompt(r)
    /\ idle' = [s \in Sessions |-> Older(idle[s])]
    /\ age' = [s \in Sessions |-> Older(age[s])]
    /\ written' = [s \in Sessions |-> Older(written[s])]
    /\ UNCHANGED <<reg, validated, os, owner, dir, stats, lock, mon, th, bounds>>

-----------------------------------------------------------------------------
Request(w) ==
    \/ Serve(w) \/ Probe(w) \/ WaitUpstream(w)
    \/ StartReuse(w) \/ StartSpawn(w) \/ StartRaises(w) \/ CheckArrival(w)
    \/ PollActivity(w) \/ PollReady(w) \/ PollNotReady(w) \/ PollProcess(w) \/ PollTimeout(w)
    \/ GiveUp(w) \/ Touch(w) \/ Stop(w)

MonitorWorks == \E s \in Sessions : MonitorCleansDead(s) \/ MonitorStops(s)

Next ==
    \/ \E w \in Workers : Begin(w) \/ Request(w)
    \/ \E r \in Runs : AnalyzeCount(r) \/ AnalyzeMark(r) \/ Segment(r) \/ Exit(r)
    \/ MonitorLooks \/ MonitorWorks
    \/ Tick

Spec == Init /\ [][Next]_vars

\* Every part of the program goes on: a request that can take a step takes it,
\* the daemon threads are scheduled, time passes.  Clients may stop sending
\* requests and FFmpeg may hang or end when it likes.
Fairness ==
    /\ \A w \in Workers : WF_vars(Request(w))
    /\ \A r \in Runs : WF_vars(AnalyzeCount(r) \/ AnalyzeMark(r))
    /\ WF_vars(MonitorLooks) /\ WF_vars(MonitorWorks)
    /\ WF_vars(Tick)

FairSpec == Spec /\ Fairness

-----------------------------------------------------------------------------
(* Safety.                                                                 *)

\* No FFmpeg is ever forgotten: a process that has not been waited for is the
\* one registered for its session, so that a stop, a restart or the monitor
\* finds it.  All ways out of a session go through _reap_process.
NoOrphan ==
    \A r \in Runs : os[r] \in {"running", "exited"} =>
        owner[r] \in Sessions /\ reg[owner[r]] = r

\* The three dictionaries of the manager have the same keys.  An activity
\* without a process would be found idle for ever; a process without one would
\* never be looked at by the monitor, which goes through the activities.
BooksAgree ==
    \A s \in Sessions : /\ reg[s] = NoRun <=> idle[s] = NoAge
                        /\ reg[s] = NoRun <=> age[s] = NoAge

\* The directory FFmpeg writes to is there as long as it runs, and no other
\* run of the session has written there since it was made.
LiveHasDirectory ==
    \A r \in Runs : os[r] = "running" => /\ dir[owner[r]].files # "none"
                                         /\ dir[owner[r]].run = r

\* A run counts as one success of its channel, whether _analyze_stream or the
\* monitor counts it first ("to ensure we count success only once per run").
CountedOnce == \A r \in Runs : counted[r] <= 1

\* A request that waited for a manifest is answered with one of the run it
\* started or of a later one, never with what a dead run left in the directory.
ReadyIsOwn ==
    [][\A w \in Workers :
         th[w].pc = "check" /\ th'[w].pc \in {"idle", "touch"} =>
           dir[th[w].sid].run >= th[w].run]_vars

\* What test_force_request_reuses_preparing_session says of one call holds of
\* every sequence of them: requests that start a session, forced or not, end no
\* FFmpeg that runs and is younger than YoungAge.
StartSparesPreparing ==
    [][\A w \in Workers, r \in Runs :
         th[w].pc = "start" /\ th'[w] # th[w] /\ os[r] = "running" /\ os'[r] # "running" =>
           age[owner[r]] >= YoungAge]_vars

-----------------------------------------------------------------------------
(* The abstract specification.                                             *)

Unreaped(s) == {r \in Runs : owner[r] = s /\ os[r] \in {"running", "exited"}}

Processes == [s \in Sessions |-> Unreaped(s)]

\* The runs whose manifest can be read.
Playlists ==
    [s \in Sessions |->
        IF dir[s].files \in {"listed", "ready"} THEN dir[s].run ELSE NoRun]

\* A request waits for a run until it is answered, or until its attempt has
\* failed and the session is stopped.
Awaits(t) ==
    CASE t.pc \in {"starting", "poll", "check", "alive"} ->
            [session |-> t.sid, run |-> t.run, state |-> "waiting"]
      [] t.pc = "giveUp" -> [session |-> t.sid, run |-> t.run, state |-> "failed"]
      [] OTHER -> [session |-> None, run |-> NoRun, state |-> "none"]

Waits == [w \in Workers |-> Awaits(th[w])]

Broadcast == INSTANCE Broadcasts WITH
    Clients <- Workers, NoSession <- None,
    launched <- started, process <- Processes, playlist <- Playlists, waits <- Waits

\* Books, lock, monitor and files together do what Broadcasts promises: a
\* session has one process at most, which alone writes its playlist; a new one
\* is launched when the one before has been waited for and its playlist is
\* gone; who waits gets the playlist of that process or a later one, or stops
\* the session when the wait fails.
ImplementsBroadcasts == Broadcast!Spec

-----------------------------------------------------------------------------
(* Liveness.                                                               *)

\* Every request is answered: the waits for the upstream and for the manifest
\* end, the retries end, and whoever holds the lock gives it back.
RequestsEnd == \A w \in Workers : th[w].pc # "idle" ~> th[w].pc = "idle"

\* Every FFmpeg is eventually waited for: one that ends is found dead, one that
\* nobody watches is found idle.
RunsReaped == \A r \in Runs : os[r] \in {"running", "exited"} ~> os[r] = "reaped"
=============================================================================
