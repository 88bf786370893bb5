----------------------------- MODULE HlsProofs ------------------------------
(***************************************************************************)
(* The FFmpeg sessions, for every number of threads, sessions and runs and *)
(* every value of the time limits: no process is forgotten, the books of   *)
(* the manager agree, a directory belongs to the run that writes it, a run *)
(* is counted once, and all this together does what Broadcasts promises.   *)
(***************************************************************************)
EXTENDS HlsSessions, TLAPS

-----------------------------------------------------------------------------
(* The inductive invariant.                                                *)

\* A thread that serves a request knows its session, and a poll under way is
\* not one too many.
ThreadOK(t) ==
    /\ t.pc # "idle" => t.sid \in Sessions
    /\ t.pc \in {"check", "alive"} => t.polls > 0

TypeInv == TypeOK /\ \A w \in Workers : ThreadOK(th[w])

\* Runs are numbered in the order of their starts, and a run belongs to the
\* session it was started for.
Numbered ==
    \A r \in Runs :
        IF r <= started
          THEN owner[r] \in Sessions
          ELSE /\ os[r] = "unborn" /\ owner[r] = None
               /\ analyzer[r] = "none" /\ counted[r] = 0

Registered ==
    \A s \in Sessions : reg[s] # NoRun => reg[s] <= started /\ owner[reg[s]] = s

\* Who counts a run: _analyze_stream, which marks the session before the run is
\* old enough for the monitor; a run that is registered and counted is marked.
Counting ==
    \A r \in Runs :
        /\ analyzer[r] = "count" => counted[r] = 0
        /\ analyzer[r] # "none" /\ owner[r] \in Sessions /\ reg[owner[r]] = r =>
             age[owner[r]] <= ValidAge
        /\ counted[r] # 0 /\ analyzer[r] = "none" /\ owner[r] \in Sessions
             /\ reg[owner[r]] = r => owner[r] \in validated

BooksInv == BooksAgree /\ Numbered /\ Registered /\ NoOrphan
CountInv == Counting /\ CountedOnce

IInv == TypeInv /\ BooksInv /\ LiveHasDirectory /\ CountInv

-----------------------------------------------------------------------------
(* Threads.                                                                *)

ThreadsOK == th \in [Workers -> Thread] /\ \A w \in Workers : ThreadOK(th[w])

\* A thread that goes to another label keeps its request.
LEMMA GotoThread ==
    ASSUME ThreadsOK, NEW w \in Workers, NEW l \in Labels, Goto(w, l),
           l # "idle" => th[w].sid \in Sessions,
           l \in {"check", "alive"} => th[w].polls > 0
    PROVE  ThreadsOK'
  <1> DEFINE t == [th[w] EXCEPT !.pc = l]
  <1>1. th' = [th EXCEPT ![w] = t]  BY DEF Goto
  <1>2. t \in Thread /\ t.pc = l /\ t.sid = th[w].sid /\ t.polls = th[w].polls
    BY DEF ThreadsOK, Thread
  <1>3. ThreadOK(t)  BY <1>2 DEF ThreadOK, ThreadsOK
  <1> HIDE DEF t
  <1> QED  BY <1>1, <1>2, <1>3 DEF ThreadsOK

\* A thread that answers forgets it.
LEMMA AnswerThread ==
    ASSUME ThreadsOK, NEW w \in Workers, Answer(w)
    PROVE  ThreadsOK'
  <1>1. NoRequest \in Thread
    BY HlsAssumption DEF NoRequest, Thread, Labels, AllOps
  <1>2. ThreadOK(NoRequest)  BY DEF NoRequest, ThreadOK
  <1> QED  BY <1>1, <1>2 DEF Answer, ThreadsOK

\* A thread that waits for a run begins to poll.
LEMMA AwaitThread ==
    ASSUME ThreadsOK, NEW w \in Workers, th[w].pc # "idle",
           NEW r \in Runs \cup {NoRun}, Await(w, r)
    PROVE  ThreadsOK'
  <1> DEFINE t == [th[w] EXCEPT !.pc = "poll", !.run = r, !.polls = Polls]
  <1>1. th' = [th EXCEPT ![w] = t]  BY DEF Await
  <1>2. t \in Thread /\ t.pc = "poll" /\ t.sid = th[w].sid
    <2>1. Polls \in 0..Polls  BY HlsAssumption
    <2> QED  BY <2>1 DEF ThreadsOK, Thread, Labels
  <1>3. ThreadOK(t)  BY <1>2 DEF ThreadOK, ThreadsOK
  <1> HIDE DEF t
  <1> QED  BY <1>1, <1>2, <1>3 DEF ThreadsOK

\* A thread whose attempt failed tries again or answers.
LEMMA RetryThread ==
    ASSUME ThreadsOK, NEW w \in Workers, th[w].pc # "idle", Retry(w)
    PROVE  ThreadsOK'
  <1>1. CASE Answer(w)  BY <1>1, AnswerThread
  <1>2. CASE th' = [th EXCEPT ![w].pc = "upstream", ![w].attempt = @ + 1]
    <2> DEFINE t == [th[w] EXCEPT !.pc = "upstream", !.attempt = @ + 1]
    <2>1. th' = [th EXCEPT ![w] = t]  BY <1>2
    <2>2. th[w].attempt + 1 \in Nat  BY DEF ThreadsOK, Thread
    <2>3. t \in Thread /\ t.pc = "upstream" /\ t.sid = th[w].sid
      BY <2>2 DEF ThreadsOK, Thread, Labels
    <2>4. ThreadOK(t)  BY <2>3 DEF ThreadOK, ThreadsOK
    <2> HIDE DEF t
    <2> QED  BY <2>1, <2>3, <2>4 DEF ThreadsOK
  <1> QED  BY <1>1, <1>2 DEF Retry

-----------------------------------------------------------------------------
(* Type correctness.                                                       *)

\* The books and the processes are well typed after a cleanup ...
BooksTyped ==
    /\ reg \in [Sessions -> Runs \cup {NoRun}]
    /\ idle \in [Sessions -> Ages \cup {NoAge}]
    /\ age \in [Sessions -> Ages \cup {NoAge}]
    /\ validated \subseteq Sessions
    /\ os \in [Runs -> {"unborn", "running", "exited", "reaped"}]

LEMMA CleanupTyped ==
    ASSUME BooksTyped, NEW s \in Sessions, CleanupBooks(s)
    PROVE  BooksTyped'
  BY DEF BooksTyped, CleanupBooks, AfterReap

\* ... and the directories.
LEMMA DirectoryTyped ==
    ASSUME dir \in [Sessions -> Directory], NEW s \in Sessions,
           NEW d \in Directory, dir' = [dir EXCEPT ![s] = d]
    PROVE  dir' \in [Sessions -> Directory]
  OBVIOUS

LEMMA NoDirTyped == NoDir \in Directory
  BY DEF NoDir, Directory

LEMMA FreshTyped ==
    ASSUME NEW s, NEW r \in Runs \cup {NoRun}
    PROVE  FreshDirectory(s, r) \in Directory
  BY DEF FreshDirectory, Directory

\* Activity is an age.
LEMMA ActivityTyped ==
    ASSUME BooksTyped, NEW s \in Sessions, UpdateActivity(s)
    PROVE  idle' \in [Sessions -> Ages \cup {NoAge}]
  <1>1. 0 \in Ages  BY HlsAssumption DEF Ages
  <1> QED  BY <1>1 DEF BooksTyped, UpdateActivity

\* The rest of TypeOK: everything but the threads.
RestTyped ==
    /\ BooksTyped
    /\ owner \in [Runs -> Sessions \cup {None}]
    /\ dir \in [Sessions -> Directory]
    /\ written \in [Sessions -> Ages]
    /\ analyzer \in [Runs -> {"none", "count", "mark"}]
    /\ counted \in [Runs -> Nat]
    /\ lock \in Workers \cup {None}
    /\ mon \in Monitor
    /\ started \in 0..MaxRuns
    /\ ops \in 0..MaxOps

LEMMA TypeInvParts == TypeInv <=> RestTyped /\ ThreadsOK
  BY DEF TypeInv, TypeOK, RestTyped, BooksTyped, ThreadsOK

LEMMA TypeInit == Init => TypeInv
  <1> SUFFICES ASSUME Init PROVE TypeInv
    OBVIOUS
  <1>1. NoRequest \in Thread /\ ThreadOK(NoRequest)
    BY HlsAssumption DEF NoRequest, Thread, Labels, AllOps, ThreadOK
  <1>2. ThreadsOK  BY <1>1 DEF ThreadsOK, Init
  <1>3. BooksTyped  BY DEF BooksTyped, Init
  <1>4. 0 \in Ages /\ 0 \in 0..MaxRuns /\ 0 \in 0..MaxOps
    BY HlsAssumption DEF Ages
  <1>5. NothingFound \in Monitor  BY DEF NothingFound, Monitor
  <1>6. RestTyped  BY <1>3, <1>4, <1>5, NoDirTyped DEF RestTyped, Init
  <1> QED  BY <1>2, <1>6, TypeInvParts

\* The steps of a request.
LEMMA RequestTyped ==
    ASSUME RestTyped, ThreadsOK, NEW w \in Workers, Request(w)
    PROVE  RestTyped' /\ ThreadsOK'
  <1> USE DEF bounds, books, world, stats
  <1>0. th[w].pc # "idle" => th[w].sid \in Sessions
    BY DEF ThreadsOK, ThreadOK
  <1> DEFINE s == th[w].sid
  <1>1. CASE Serve(w)
    <2>1. \/ Goto(w, "touch") \/ Goto(w, "probe")  BY <1>1 DEF Serve
    <2>2. ThreadsOK'  BY <1>0, <1>1, <2>1, GotoThread DEF Serve, Labels
    <2> QED  BY <1>1, <2>2 DEF Serve, RestTyped, BooksTyped
  <1>2. CASE Probe(w)
    <2>1. ThreadsOK'  BY <1>0, <1>2, GotoThread, AnswerThread DEF Probe, Labels
    <2> QED  BY <1>2, <2>1 DEF Probe, RestTyped, BooksTyped
  <1>3. CASE WaitUpstream(w)
    <2>1. ThreadsOK'  BY <1>0, <1>3, GotoThread, RetryThread DEF WaitUpstream, Labels
    <2> QED  BY <1>3, <2>1 DEF WaitUpstream, RestTyped, BooksTyped
  <1>4. CASE StartReuse(w)
    <2>1. s \in Sessions  BY <1>0, <1>4 DEF StartReuse
    <2>2. reg[s] \in Runs \cup {NoRun}  BY <2>1 DEF RestTyped, BooksTyped
    <2>3. ThreadsOK'  BY <1>4, <2>2, AwaitThread DEF StartReuse
    <2>4. 0 \in Ages  BY HlsAssumption DEF Ages
    <2> QED  BY <1>4, <2>3, <2>4 DEF StartReuse, RestTyped, BooksTyped
  <1>5. CASE StartSpawn(w)
    <2> DEFINE r == started + 1
    <2>1. s \in Sessions  BY <1>0, <1>5 DEF StartSpawn
    <2>2. r \in Runs /\ r \in 0..MaxRuns
      BY <1>5, HlsAssumption DEF StartSpawn, RestTyped, Runs
    <2> DEFINE t == [th[w] EXCEPT !.pc = "starting", !.run = r]
    <2>3. th' = [th EXCEPT ![w] = t]  BY <1>5 DEF StartSpawn
    <2>4. t \in Thread /\ t.pc = "starting" /\ t.sid = s
      BY <2>2 DEF ThreadsOK, Thread, Labels
    <2>5. ThreadOK(t)  BY <2>1, <2>4 DEF ThreadOK
    <2> HIDE DEF t
    <2>6. ThreadsOK'  BY <2>3, <2>4, <2>5 DEF ThreadsOK
    <2>7. FreshDirectory(s, r) \in Directory  BY <2>2, FreshTyped
    <2>8. 0 \in Ages  BY HlsAssumption DEF Ages
    <2>9. BooksTyped'
      BY <1>5, <2>1, <2>2, <2>8 DEF StartSpawn, RestTyped, BooksTyped, AfterReap
    <2>10. started' \in 0..MaxRuns  BY <1>5, <2>2 DEF StartSpawn
    <2> HIDE DEF r
    <2>11. dir' = [dir EXCEPT ![s] = FreshDirectory(s, r)]
      BY <1>5 DEF StartSpawn, r
    <2>12. dir' \in [Sessions -> Directory]
      BY <2>1, <2>7, <2>11, DirectoryTyped DEF RestTyped
    <2>13. owner' \in [Runs -> Sessions \cup {None}]
      BY <1>5, <2>1 DEF StartSpawn, RestTyped
    <2>14. analyzer' \in [Runs -> {"none", "count", "mark"}]
      BY <1>5 DEF StartSpawn, RestTyped
    <2> QED
      BY <1>5, <2>6, <2>9, <2>10, <2>12, <2>13, <2>14 DEF StartSpawn, RestTyped
  <1>6. CASE StartRaises(w)
    <2>1. s \in Sessions  BY <1>0, <1>6 DEF StartRaises
    <2>2. ThreadsOK'  BY <1>6, AnswerThread DEF StartRaises
    <2>3. CleanupBooks(s) \/ UNCHANGED <<books, os>>  BY <1>6 DEF StartRaises
    <2>4. BooksTyped'
      BY <2>1, <2>3, CleanupTyped DEF RestTyped, BooksTyped
    <2>5. dir' = [dir EXCEPT ![s] = FreshDirectory(s, NoRun)]
      BY <1>6 DEF StartRaises
    <2>6. dir' \in [Sessions -> Directory]
      BY <2>1, <2>5, FreshTyped, DirectoryTyped DEF RestTyped
    <2> QED  BY <1>6, <2>2, <2>4, <2>6 DEF StartRaises, RestTyped
  <1>7. CASE CheckArrival(w)
    <2>1. s \in Sessions  BY <1>0, <1>7 DEF CheckArrival
    <2>2. th[w].run \in Runs \cup {NoRun}  BY DEF ThreadsOK, Thread
    <2>3. \/ Await(w, th[w].run) /\ UNCHANGED <<books, os, dir>>
          \/ Goto(w, "giveUp") /\ CleanupKeepingFiles(s)
      BY <1>7 DEF CheckArrival
    <2>4. ThreadsOK'
      BY <1>7, <2>1, <2>2, <2>3, AwaitThread, GotoThread DEF CheckArrival, Labels
    <2>5. BooksTyped' /\ dir' = dir
      BY <2>1, <2>3, CleanupTyped DEF CleanupKeepingFiles, RestTyped, BooksTyped
    <2> QED  BY <1>7, <2>4, <2>5 DEF CheckArrival, RestTyped
  <1>8. CASE PollActivity(w)
    <2>1. s \in Sessions  BY <1>0, <1>8 DEF PollActivity
    <2>2. th[w].polls > 0  BY <1>8 DEF PollActivity
    <2>3. ThreadsOK'  BY <1>8, <2>1, <2>2, GotoThread DEF PollActivity, Labels
    <2>4. idle' \in [Sessions -> Ages \cup {NoAge}]
      BY <1>8, <2>1, ActivityTyped DEF PollActivity, RestTyped
    <2> QED  BY <1>8, <2>3, <2>4 DEF PollActivity, RestTyped, BooksTyped
  <1>9. CASE PollReady(w)
    <2>1. ThreadsOK'  BY <1>0, <1>9, GotoThread, AnswerThread DEF PollReady, Labels
    <2> QED  BY <1>9, <2>1 DEF PollReady, RestTyped, BooksTyped
  <1>10. CASE PollNotReady(w)
    <2>1. th[w].polls > 0  BY <1>10 DEF PollNotReady, ThreadsOK, ThreadOK
    <2>2. ThreadsOK'  BY <1>0, <1>10, <2>1, GotoThread DEF PollNotReady, Labels
    <2> QED  BY <1>10, <2>2 DEF PollNotReady, RestTyped, BooksTyped
  <1>11. CASE PollProcess(w)
    <2>1. s \in Sessions  BY <1>0, <1>11 DEF PollProcess
    <2> DEFINE l == IF Alive(reg[s]) THEN "poll" ELSE "giveUp"
               t == [th[w] EXCEPT !.polls = @ - 1, !.pc = l]
    <2>2. th' = [th EXCEPT ![w] = t]  BY <1>11 DEF PollProcess
    <2>3. l \in {"poll", "giveUp"}  OBVIOUS
    <2> HIDE DEF l
    <2>4. th[w].polls - 1 \in 0..Polls
      BY <1>11, HlsAssumption DEF PollProcess, ThreadsOK, ThreadOK, Thread
    <2>5. t \in Thread /\ t.pc = l /\ t.sid = s
      BY <2>3, <2>4 DEF ThreadsOK, Thread, Labels
    <2>6. ThreadOK(t)  BY <2>1, <2>3, <2>5 DEF ThreadOK
    <2> HIDE DEF t
    <2>7. ThreadsOK'  BY <2>2, <2>5, <2>6 DEF ThreadsOK
    <2>8. os' \in [Runs -> {"unborn", "running", "exited", "reaped"}]
      BY <1>11 DEF PollProcess, AfterPoll, RestTyped, BooksTyped
    <2> QED  BY <1>11, <2>7, <2>8 DEF PollProcess, RestTyped, BooksTyped
  <1>12. CASE PollTimeout(w)
    <2>1. ThreadsOK'  BY <1>0, <1>12, GotoThread DEF PollTimeout, Labels
    <2> QED  BY <1>12, <2>1 DEF PollTimeout, RestTyped, BooksTyped
  <1>13. CASE GiveUp(w)
    <2>1. s \in Sessions /\ th[w].pc # "idle"  BY <1>0, <1>13 DEF GiveUp
    <2>2. ThreadsOK'  BY <1>13, <2>1, RetryThread DEF GiveUp
    <2>3. BooksTyped'  BY <1>13, <2>1, CleanupTyped DEF GiveUp, Cleanup, RestTyped
    <2>4. dir' \in [Sessions -> Directory]
      BY <1>13, <2>1, NoDirTyped DEF GiveUp, Cleanup, RestTyped
    <2> QED  BY <1>13, <2>2, <2>3, <2>4 DEF GiveUp, RestTyped
  <1>14. CASE Touch(w)
    <2>1. s \in Sessions  BY <1>0, <1>14 DEF Touch
    <2>2. ThreadsOK'  BY <1>14, AnswerThread DEF Touch
    <2>3. idle' \in [Sessions -> Ages \cup {NoAge}]
      BY <1>14, <2>1, ActivityTyped DEF Touch, RestTyped
    <2> QED  BY <1>14, <2>2, <2>3 DEF Touch, RestTyped, BooksTyped
  <1>15. CASE Stop(w)
    <2>1. s \in Sessions  BY <1>0, <1>15 DEF Stop
    <2>2. ThreadsOK'  BY <1>15, AnswerThread DEF Stop
    <2>3. BooksTyped'  BY <1>15, <2>1, CleanupTyped DEF Stop, Cleanup, RestTyped
    <2>4. dir' \in [Sessions -> Directory]
      BY <1>15, <2>1, NoDirTyped DEF Stop, Cleanup, RestTyped
    <2> QED  BY <1>15, <2>2, <2>3, <2>4 DEF Stop, RestTyped
  <1> QED
    BY <1>1, <1>2, <1>3, <1>4, <1>5, <1>6, <1>7, <1>8, <1>9, <1>10, <1>11,
       <1>12, <1>13, <1>14, <1>15 DEF Request

\* A thread that takes up a request.
LEMMA BeginTyped ==
    ASSUME RestTyped, ThreadsOK, NEW w \in Workers, Begin(w)
    PROVE  RestTyped' /\ ThreadsOK'
  <1>1. PICK op \in Handlers[w], s \in Sessions, force \in BOOLEAN :
          th' = [th EXCEPT ![w] =
             [NoRequest EXCEPT !.op = op, !.sid = s, !.force = force,
                !.pc = CASE op \in {"start", "auto"} -> "probe"
                         [] op = "serve" -> "serve"
                         [] op = "segment" -> "touch"
                         [] op = "stop" -> "stop"]]
    BY DEF Begin
  <1> DEFINE l == CASE op \in {"start", "auto"} -> "probe"
                    [] op = "serve" -> "serve"
                    [] op = "segment" -> "touch"
                    [] op = "stop" -> "stop"
  <1>2. op \in AllOps  BY HlsAssumption
  <1>3. l \in Labels  BY <1>2 DEF AllOps, Labels
  <1> HIDE DEF l
  <1> DEFINE t == [NoRequest EXCEPT !.op = op, !.sid = s, !.force = force, !.pc = l]
  <1>4. th' = [th EXCEPT ![w] = t]  BY <1>1 DEF l
  <1>5. t \in Thread /\ t.sid = s /\ t.pc = l
    <2>1. NoRequest \in Thread
      BY HlsAssumption DEF NoRequest, Thread, Labels, AllOps
    <2> QED  BY <1>2, <1>3, <2>1 DEF Thread
  <1>6. t.pc \notin {"check", "alive"}  BY <1>2, <1>5 DEF l, AllOps
  <1>7. ThreadOK(t)  BY <1>5, <1>6 DEF ThreadOK
  <1> HIDE DEF t
  <1>8. ThreadsOK'  BY <1>4, <1>5, <1>7 DEF ThreadsOK
  <1>9. ops' \in 0..MaxOps  BY HlsAssumption DEF Begin, RestTyped
  <1> QED  BY <1>8, <1>9 DEF Begin, RestTyped, BooksTyped, books, world, stats

\* The threads of the manager, FFmpeg and the clock.
LEMMA OthersTyped ==
    ASSUME RestTyped, ThreadsOK, Numbered,
           \/ \E r \in Runs : AnalyzeCount(r) \/ AnalyzeMark(r) \/ Segment(r) \/ Exit(r)
           \/ MonitorLooks \/ MonitorWorks \/ Tick
    PROVE  RestTyped' /\ ThreadsOK'
  <1> USE DEF bounds, books, world, stats
  <1>0. (th' = th) => ThreadsOK'  BY DEF ThreadsOK
  <1>1. ASSUME NEW r \in Runs, AnalyzeCount(r) PROVE RestTyped' /\ th' = th
    BY <1>1 DEF AnalyzeCount, RestTyped, BooksTyped
  <1>2. ASSUME NEW r \in Runs, AnalyzeMark(r) PROVE RestTyped' /\ th' = th
    <2>1. owner[r] \in Sessions  BY <1>2 DEF AnalyzeMark, Numbered
    <2> QED  BY <1>2, <2>1 DEF AnalyzeMark, RestTyped, BooksTyped
  <1>3. ASSUME NEW r \in Runs, Segment(r) PROVE RestTyped' /\ th' = th
    <2>1. owner[r] \in Sessions  BY <1>3 DEF Segment, Numbered
    <2> DEFINE s == owner[r]
               f == IF dir[s].files = "log" THEN "listed" ELSE "ready"
    <2>2. dir' = [dir EXCEPT ![s] = [run |-> r, files |-> f]]
      BY <1>3, <2>1 DEF Segment, RestTyped
    <2>3. [run |-> r, files |-> f] \in Directory  BY DEF Directory
    <2>4. dir' \in [Sessions -> Directory]
      BY <2>1, <2>2, <2>3, DirectoryTyped DEF RestTyped
    <2>5. 0 \in Ages  BY HlsAssumption DEF Ages
    <2> QED  BY <1>3, <2>1, <2>4, <2>5 DEF Segment, RestTyped, BooksTyped
  <1>4. ASSUME NEW r \in Runs, Exit(r) PROVE RestTyped' /\ th' = th
    BY <1>4 DEF Exit, RestTyped, BooksTyped
  <1>5. ASSUME MonitorLooks PROVE RestTyped' /\ th' = th
    <2>1. FoundDead \subseteq Sessions /\ FoundStale \subseteq Sessions
          /\ FoundPlaying \subseteq Sessions
      BY DEF FoundDead, FoundStale, FoundPlaying, Found
    <2>2. mon' \in Monitor  BY <1>5, <2>1 DEF MonitorLooks, Monitor
    <2>3. counted' \in [Runs -> Nat]  BY <1>5 DEF MonitorLooks, RestTyped
    <2>4. validated' \subseteq Sessions
      BY <1>5, <2>1 DEF MonitorLooks, RestTyped, BooksTyped
    <2>5. os' \in [Runs -> {"unborn", "running", "exited", "reaped"}]
      BY <1>5 DEF MonitorLooks, AfterPoll, RestTyped, BooksTyped
    <2> QED
      BY <1>5, <2>2, <2>3, <2>4, <2>5 DEF MonitorLooks, RestTyped, BooksTyped
  <1>6. ASSUME NEW s \in Sessions, MonitorCleansDead(s) PROVE RestTyped' /\ th' = th
    <2>1. BooksTyped' /\ dir' = dir
      BY <1>6, CleanupTyped DEF MonitorCleansDead, CleanupKeepingFiles, RestTyped
    <2>2. mon' \in Monitor  BY <1>6 DEF MonitorCleansDead, RestTyped, Monitor
    <2> QED  BY <1>6, <2>1, <2>2 DEF MonitorCleansDead, RestTyped
  <1>7. ASSUME NEW s \in Sessions, MonitorStops(s) PROVE RestTyped' /\ th' = th
    <2>1. BooksTyped'  BY <1>7, CleanupTyped DEF MonitorStops, Cleanup, RestTyped
    <2>2. dir' \in [Sessions -> Directory]
      BY <1>7, NoDirTyped DEF MonitorStops, Cleanup, RestTyped
    <2>3. mon' \in Monitor  BY <1>7 DEF MonitorStops, RestTyped, Monitor
    <2> QED  BY <1>7, <2>1, <2>2, <2>3 DEF MonitorStops, RestTyped
  <1>8. ASSUME Tick PROVE RestTyped' /\ th' = th
    <2>1. \A a \in Ages : Older(a) \in Ages
      BY HlsAssumption DEF Ages, Older
    <2>2. Older(NoAge) = NoAge  BY HlsAssumption DEF Older, NoAge
    <2> QED  BY <1>8, <2>1, <2>2 DEF Tick, RestTyped, BooksTyped
  <1> QED
    BY <1>0, <1>1, <1>2, <1>3, <1>4, <1>5, <1>6, <1>7, <1>8 DEF MonitorWorks

-----------------------------------------------------------------------------
(* The processes, the books and the counts: what each kind of step keeps.  *)

StateInv == BooksInv /\ LiveHasDirectory /\ CountInv

Untouched == <<reg, age, validated, os, owner, dir, analyzer, counted, started>>

LEMMA StateInit == Init => StateInv
  <1> SUFFICES ASSUME Init PROVE StateInv
    OBVIOUS
  <1>1. \A r \in Runs : ~(r <= 0)  BY HlsAssumption DEF Runs
  <1>2. BooksAgree /\ Registered  BY DEF Init, BooksAgree, Registered
  <1>3. Numbered  BY <1>1 DEF Init, Numbered
  <1>4. NoOrphan /\ LiveHasDirectory  BY DEF Init, NoOrphan, LiveHasDirectory
  <1>5. Counting /\ CountedOnce
    BY HlsAssumption DEF Init, Counting, CountedOnce
  <1> QED  BY <1>2, <1>3, <1>4, <1>5 DEF StateInv, BooksInv, CountInv

\* Activity of a registered session.
LEMMA ActivityInv ==
    ASSUME RestTyped, StateInv, UNCHANGED Untouched, NEW s \in Sessions,
           idle' = IF reg[s] # NoRun THEN [idle EXCEPT ![s] = 0] ELSE idle
    PROVE  StateInv'
  <1> USE DEF Untouched
  <1>1. BooksAgree'
    <2>1. NoAge # 0  BY HlsAssumption DEF NoAge
    <2> QED  BY <2>1 DEF StateInv, BooksInv, BooksAgree, RestTyped, BooksTyped
  <1>2. Registered' /\ Numbered' /\ NoOrphan'
    BY DEF StateInv, BooksInv, Registered, Numbered, NoOrphan
  <1>3. LiveHasDirectory'  BY DEF StateInv, LiveHasDirectory
  <1>4. Counting' /\ CountedOnce'
    BY DEF StateInv, CountInv, Counting, CountedOnce
  <1> QED  BY <1>1, <1>2, <1>3, <1>4 DEF StateInv, BooksInv, CountInv

\* A cleanup, whatever it does with the directory of its session.
LEMMA CleanupInv ==
    ASSUME RestTyped, StateInv, NEW s \in Sessions, CleanupBooks(s),
           UNCHANGED <<owner, analyzer, counted, started>>,
           \A x \in Sessions \ {s} : dir'[x] = dir[x]
    PROVE  StateInv'
  <1> USE DEF RestTyped, BooksTyped
  <1>1. \A x \in Sessions \ {s} :
           reg'[x] = reg[x] /\ idle'[x] = idle[x] /\ age'[x] = age[x]
    BY DEF CleanupBooks
  <1>2. reg'[s] = NoRun /\ idle'[s] = NoAge /\ age'[s] = NoAge
    BY DEF CleanupBooks
  <1>3. \A r \in Runs : os'[r] = IF r = reg[s] THEN "reaped" ELSE os[r]
    BY DEF CleanupBooks, AfterReap
  <1>4. validated' = validated \ {s}  BY DEF CleanupBooks
  <1>5. NoRun \notin Runs  BY HlsAssumption DEF NoRun, Runs
  <1>6. BooksAgree'
    BY <1>1, <1>2 DEF StateInv, BooksInv, BooksAgree
  <1>7. Registered'
    BY <1>1, <1>2 DEF StateInv, BooksInv, Registered
  <1>8. Numbered'
    <2>1. \A r \in Runs : r = reg[s] => r <= started
      BY <1>5 DEF StateInv, BooksInv, Registered
    <2> QED  BY <1>3, <2>1 DEF StateInv, BooksInv, Numbered
  <1>9. \A r \in Runs : os'[r] \in {"running", "exited"} =>
           os[r] = os'[r] /\ owner[r] \in Sessions \ {s} /\ reg[owner[r]] = r
    BY <1>3 DEF StateInv, BooksInv, NoOrphan
  <1>10. NoOrphan'  BY <1>1, <1>9 DEF NoOrphan
  <1>11. LiveHasDirectory'  BY <1>9 DEF StateInv, LiveHasDirectory
  <1>12. Counting'
    BY <1>1, <1>2, <1>4, <1>5 DEF StateInv, CountInv, Counting
  <1>13. CountedOnce'  BY DEF StateInv, CountInv, CountedOnce
  <1> QED
    BY <1>6, <1>7, <1>8, <1>10, <1>11, <1>12, <1>13 DEF StateInv, BooksInv, CountInv

\* A process that is looked at: exited ones are reaped.  The books do not change.
LEMMA ProcessesInv ==
    ASSUME RestTyped, StateInv,
           UNCHANGED <<reg, idle, age, validated, owner, dir, analyzer, counted, started>>,
           \A r \in Runs : \/ os'[r] = os[r]
                           \/ os[r] = "running" /\ os'[r] = "exited"
                           \/ os[r] = "exited" /\ os'[r] = "reaped"
    PROVE  StateInv'
  <1>1. BooksAgree' /\ Registered'
    BY DEF StateInv, BooksInv, BooksAgree, Registered
  <1>2. Numbered'  BY DEF StateInv, BooksInv, Numbered
  <1>3. NoOrphan'  BY DEF StateInv, BooksInv, NoOrphan
  <1>4. LiveHasDirectory'  BY DEF StateInv, LiveHasDirectory
  <1>5. Counting' /\ CountedOnce'
    BY DEF StateInv, CountInv, Counting, CountedOnce
  <1> QED  BY <1>1, <1>2, <1>3, <1>4, <1>5 DEF StateInv, BooksInv, CountInv

\* A new run.
LEMMA SpawnInv ==
    ASSUME RestTyped, ThreadsOK, StateInv, NEW w \in Workers, StartSpawn(w)
    PROVE  StateInv'
  <1> DEFINE s == th[w].sid
             r == started + 1
  <1> USE DEF RestTyped, BooksTyped
  <1>1. s \in Sessions  BY DEF StartSpawn, ThreadsOK, ThreadOK
  <1>2. r \in Runs /\ r # NoRun /\ \A q \in Runs : q <= r <=> q <= started \/ q = r
    BY HlsAssumption DEF StartSpawn, Runs, NoRun
  <1>3. /\ os[r] = "unborn" /\ owner[r] = None
        /\ analyzer[r] = "none" /\ counted[r] = 0
    <2>1. ~(r <= started)  OBVIOUS
    <2> QED  BY <1>2, <2>1 DEF StateInv, BooksInv, Numbered
  <1>4. \A x \in Sessions : reg[x] # r
    <2>1. ~(r <= started)  OBVIOUS
    <2> QED  BY <1>2, <2>1 DEF StateInv, BooksInv, Registered
  <1>5. started' = r  BY DEF StartSpawn
  <1> HIDE DEF r
  <1>6. /\ reg' = [reg EXCEPT ![s] = r] /\ idle' = [idle EXCEPT ![s] = 0]
        /\ age' = [age EXCEPT ![s] = 0] /\ validated' = validated \ {s}
        /\ owner' = [owner EXCEPT ![r] = s]
        /\ dir' = [dir EXCEPT ![s] = [run |-> r, files |-> "log"]]
        /\ analyzer' = [analyzer EXCEPT ![r] = "count"] /\ counted' = counted
    BY DEF StartSpawn, FreshDirectory, r
  <1>7. \A q \in Runs :
          os'[q] = IF q = r THEN "running" ELSE IF q = reg[s] THEN "reaped" ELSE os[q]
    BY <1>2 DEF StartSpawn, AfterReap, r
  <1>8. BooksAgree'
    <2>1. NoAge # 0  BY HlsAssumption DEF NoAge
    <2> QED  BY <1>1, <1>2, <1>6, <2>1 DEF StateInv, BooksInv, BooksAgree
  <1>9. Registered'
    <2>1. ASSUME NEW x \in Sessions, reg'[x] # NoRun
          PROVE  reg'[x] <= started' /\ owner'[reg'[x]] = x
      <3>1. CASE x = s  BY <1>1, <1>2, <1>5, <1>6, <3>1
      <3>2. CASE x # s
        <4>1. reg'[x] = reg[x] /\ reg[x] \in Runs  BY <1>6, <2>1, <3>2
        <4>2. reg[x] <= started /\ owner[reg[x]] = x
          BY <2>1, <4>1 DEF StateInv, BooksInv, Registered
        <4>3. reg[x] # r  BY <1>4
        <4> QED  BY <1>2, <1>5, <1>6, <4>1, <4>2, <4>3
      <3> QED  BY <3>1, <3>2
    <2> QED  BY <2>1 DEF Registered
  <1>10. Numbered'
    <2>1. \A q \in Runs : q = reg[s] => q <= started
      BY <1>1 DEF StateInv, BooksInv, Registered, NoRun, Runs
    <2>2. \A q \in Runs : q # r =>
             owner'[q] = owner[q] /\ analyzer'[q] = analyzer[q]
      BY <1>6
    <2>3. ASSUME NEW q \in Runs, q # r, ~(q <= started)
          PROVE  os'[q] = "unborn" /\ owner'[q] = None /\ analyzer'[q] = "none"
                 /\ counted'[q] = 0
      BY <1>6, <1>7, <2>1, <2>2, <2>3 DEF StateInv, BooksInv, Numbered
    <2>4. \A q \in Runs : q # r /\ q <= started => owner'[q] \in Sessions
      BY <2>2 DEF StateInv, BooksInv, Numbered
    <2>5. owner'[r] \in Sessions  BY <1>1, <1>2, <1>6
    <2> QED  BY <1>2, <1>5, <2>3, <2>4, <2>5 DEF Numbered
  <1>11. \A q \in Runs \ {r} : os'[q] \in {"running", "exited"} =>
            /\ os'[q] = os[q] /\ owner'[q] = owner[q]
            /\ owner[q] \in Sessions \ {s} /\ reg[owner[q]] = q
    <2>1. ASSUME NEW q \in Runs \ {r}, os'[q] \in {"running", "exited"}
          PROVE  /\ os'[q] = os[q] /\ owner'[q] = owner[q]
                 /\ owner[q] \in Sessions \ {s} /\ reg[owner[q]] = q
      <3>1. q # reg[s] /\ os'[q] = os[q]  BY <1>7, <2>1
      <3>2. owner[q] \in Sessions /\ reg[owner[q]] = q
        BY <2>1, <3>1 DEF StateInv, BooksInv, NoOrphan
      <3> QED  BY <1>6, <3>1, <3>2
    <2> QED  BY <2>1
  <1>12. owner'[r] = s /\ reg'[s] = r /\ dir'[s].run = r /\ dir'[s].files # "none"
    BY <1>1, <1>2, <1>6
  <1>13. NoOrphan'  BY <1>1, <1>6, <1>11, <1>12 DEF NoOrphan
  <1>14. LiveHasDirectory'
    BY <1>6, <1>11, <1>12 DEF StateInv, LiveHasDirectory
  <1>15. Counting'
    <2>1. counted'[r] = 0 /\ analyzer'[r] = "count" /\ age'[owner'[r]] <= ValidAge
      BY <1>1, <1>2, <1>3, <1>6, HlsAssumption
    <2>2. ASSUME NEW q \in Runs, q # r
          PROVE  /\ analyzer'[q] = analyzer[q] /\ counted'[q] = counted[q]
                 /\ owner'[q] = owner[q]
                 /\ owner[q] \in Sessions /\ reg'[owner[q]] = q =>
                       /\ reg[owner[q]] = q /\ age'[owner[q]] = age[owner[q]]
                       /\ owner[q] \in validated => owner[q] \in validated'
      BY <1>1, <1>2, <1>6, <2>2
    <2> QED  BY <2>1, <2>2 DEF StateInv, CountInv, Counting
  <1>16. CountedOnce'  BY <1>6 DEF StateInv, CountInv, CountedOnce
  <1> QED
    BY <1>8, <1>9, <1>10, <1>13, <1>14, <1>15, <1>16 DEF StateInv, BooksInv, CountInv

\* The analyzer counts a run, and marks its session.
LEMMA AnalyzeInv ==
    ASSUME RestTyped, StateInv, NEW r \in Runs, AnalyzeCount(r) \/ AnalyzeMark(r)
    PROVE  StateInv'
  <1> USE DEF RestTyped, BooksTyped, books, world
  <1>0. UNCHANGED <<reg, idle, age, os, owner, dir, started>>
    BY DEF AnalyzeCount, AnalyzeMark, bounds
  <1>1. BooksAgree' /\ Registered' /\ NoOrphan' /\ LiveHasDirectory'
    BY <1>0 DEF StateInv, BooksInv, BooksAgree, Registered, NoOrphan, LiveHasDirectory
  <1>2. Numbered'
    BY <1>0 DEF AnalyzeCount, AnalyzeMark, StateInv, BooksInv, Numbered
  <1>3. CASE AnalyzeCount(r)
    <2>1. counted[r] = 0  BY <1>3 DEF AnalyzeCount, StateInv, CountInv, Counting
    <2>2. counted'[r] = 1 /\ analyzer'[r] = "mark"
      BY <1>3, <2>1 DEF AnalyzeCount
    <2>3. \A q \in Runs \ {r} : counted'[q] = counted[q] /\ analyzer'[q] = analyzer[q]
      BY <1>3 DEF AnalyzeCount
    <2>4. validated' = validated  BY <1>3 DEF AnalyzeCount
    <2>5. analyzer[r] # "none"  BY <1>3 DEF AnalyzeCount
    <2>6. Counting'
      BY <1>0, <2>2, <2>3, <2>4, <2>5 DEF StateInv, CountInv, Counting
    <2>7. CountedOnce'
      BY <2>2, <2>3 DEF StateInv, CountInv, CountedOnce
    <2> QED  BY <1>1, <1>2, <2>6, <2>7 DEF StateInv, BooksInv, CountInv
  <1>4. CASE AnalyzeMark(r)
    <2>1. analyzer' = [analyzer EXCEPT ![r] = "none"] /\ counted' = counted
          /\ validated' = validated \cup {owner[r]}
      BY <1>4 DEF AnalyzeMark
    <2>2. Counting'  BY <1>0, <2>1 DEF StateInv, CountInv, Counting
    <2>3. CountedOnce'  BY <2>1 DEF StateInv, CountInv, CountedOnce
    <2> QED  BY <1>1, <1>2, <2>2, <2>3 DEF StateInv, BooksInv, CountInv
  <1> QED  BY <1>3, <1>4

\* The monitor counts a run only if nobody has, and marks its session.
LEMMA LooksInv ==
    ASSUME RestTyped, StateInv, MonitorLooks
    PROVE  StateInv'
  <1> USE DEF RestTyped, BooksTyped
  <1>0. UNCHANGED <<reg, idle, age, owner, dir, analyzer, started>>
    BY Zenon DEF MonitorLooks, bounds
  <1> DEFINE polled == {reg[s] : s \in Found}
  <1>1. \A r \in Runs : os'[r] = os[r] \/ (os[r] = "exited" /\ os'[r] = "reaped")
    <2>1. os' = AfterPoll(polled)  BY Zenon DEF MonitorLooks
    <2> HIDE DEF polled
    <2> QED  BY <2>1 DEF AfterPoll
  <1>2. BooksAgree' /\ Registered'
    BY <1>0 DEF StateInv, BooksInv, BooksAgree, Registered
  <1>3. NoOrphan' /\ LiveHasDirectory'
    BY <1>0, <1>1 DEF StateInv, BooksInv, NoOrphan, LiveHasDirectory
  <1>4. ASSUME NEW s \in FoundPlaying, NEW r \in Runs, reg[s] = r
        PROVE  /\ owner[r] = s /\ s \in Sessions /\ r <= started
               /\ analyzer[r] = "none" /\ counted[r] = 0
    <2>1. s \in Sessions /\ age[s] \in Ages /\ age[s] > ValidAge /\ s \notin validated
      BY DEF FoundPlaying, Found
    <2>2. r # NoRun  BY HlsAssumption DEF Runs, NoRun
    <2>3. owner[r] = s /\ r <= started
      BY <1>4, <2>1, <2>2 DEF StateInv, BooksInv, Registered
    <2>4. ~(age[s] <= ValidAge)  BY <2>1, HlsAssumption DEF Ages
    <2>5. analyzer[r] = "none"
      BY <1>4, <2>1, <2>3, <2>4 DEF StateInv, CountInv, Counting
    <2>6. counted[r] = 0
      BY <1>4, <2>1, <2>3, <2>5 DEF StateInv, CountInv, Counting
    <2> QED  BY <2>1, <2>3, <2>5, <2>6
  <1>5. \A r \in Runs :
           \/ counted'[r] = counted[r]
           \/ \E s \in FoundPlaying : /\ reg[s] = r /\ owner[r] = s /\ r <= started
                                      /\ analyzer[r] = "none" /\ counted'[r] = 1
    BY <1>4 DEF MonitorLooks
  <1>6. Numbered'
    BY <1>0, <1>1, <1>5 DEF StateInv, BooksInv, Numbered
  <1>7. validated' = validated \cup FoundPlaying  BY DEF MonitorLooks
  <1>8. Counting'
    BY <1>0, <1>5, <1>7 DEF StateInv, CountInv, Counting
  <1>9. CountedOnce'  BY <1>5 DEF StateInv, CountInv, CountedOnce
  <1> QED  BY <1>2, <1>3, <1>6, <1>8, <1>9 DEF StateInv, BooksInv, CountInv

\* FFmpeg writes into the directory of its own session.
LEMMA SegmentInv ==
    ASSUME RestTyped, StateInv, NEW r \in Runs, Segment(r)
    PROVE  StateInv'
  <1> USE DEF RestTyped, BooksTyped, books, stats, bounds
  <1> DEFINE s == owner[r]
             f == IF dir[s].files = "log" THEN "listed" ELSE "ready"
  <1>0. UNCHANGED <<reg, idle, age, validated, os, owner, analyzer, counted, started>>
    BY DEF Segment
  <1>1. s \in Sessions /\ reg[s] = r
    BY DEF Segment, StateInv, BooksInv, NoOrphan
  <1>2. dir' = [dir EXCEPT ![s] = [run |-> r, files |-> f]]  BY <1>1 DEF Segment
  <1>3. f # "none"  OBVIOUS
  <1> HIDE DEF f
  <1>4. dir'[s].run = r /\ dir'[s].files # "none"  BY <1>1, <1>2, <1>3
  <1>5. \A q \in Runs \ {r} : os[q] = "running" => dir'[owner[q]] = dir[owner[q]]
    BY <1>1, <1>2 DEF StateInv, BooksInv, NoOrphan
  <1>6. LiveHasDirectory'
    BY <1>0, <1>4, <1>5 DEF StateInv, LiveHasDirectory
  <1>7. BooksAgree' /\ Registered' /\ Numbered' /\ NoOrphan'
    BY <1>0 DEF StateInv, BooksInv, BooksAgree, Registered, Numbered, NoOrphan
  <1>8. Counting' /\ CountedOnce'
    BY <1>0 DEF StateInv, CountInv, Counting, CountedOnce
  <1> QED  BY <1>6, <1>7, <1>8 DEF StateInv, BooksInv, CountInv

\* Time passes: registered sessions keep an age, the others keep none, and no
\* analyzer is overtaken by the monitor.
LEMMA TickInv ==
    ASSUME RestTyped, StateInv, Tick
    PROVE  StateInv'
  <1> USE DEF RestTyped, BooksTyped, stats, bounds
  <1>0. UNCHANGED <<reg, validated, os, owner, dir, analyzer, counted, started>>
    BY DEF Tick
  <1>1. \A a \in Ages \cup {NoAge} : Older(a) = NoAge <=> a = NoAge
    BY HlsAssumption DEF Older, Ages, NoAge
  <1>2. BooksAgree'
    BY <1>0, <1>1 DEF Tick, StateInv, BooksInv, BooksAgree
  <1>3. Registered' /\ Numbered' /\ NoOrphan' /\ LiveHasDirectory'
    BY <1>0 DEF StateInv, BooksInv, Registered, Numbered, NoOrphan, LiveHasDirectory
  <1>4. ASSUME NEW r \in Runs, analyzer[r] # "none", owner[r] \in Sessions,
               reg[owner[r]] = r
        PROVE  age'[owner[r]] <= ValidAge
    <2> DEFINE a == age[owner[r]]
    <2>1. r # NoRun  BY HlsAssumption DEF Runs, NoRun
    <2>2. a \in Ages  BY <1>4, <2>1 DEF StateInv, BooksInv, BooksAgree
    <2>3. a \notin ValidAge..Oldest  BY <1>4 DEF Tick, AnalyzerPrompt
    <2>4. a + 1 <= ValidAge /\ a < Oldest
      BY <2>2, <2>3, HlsAssumption DEF Ages
    <2>5. age'[owner[r]] = Older(a)  BY <1>4 DEF Tick
    <2> HIDE DEF a
    <2> QED  BY <2>4, <2>5 DEF Older
  <1>5. Counting'
    BY <1>0, <1>4 DEF StateInv, CountInv, Counting
  <1>6. CountedOnce'  BY <1>0 DEF StateInv, CountInv, CountedOnce
  <1> QED  BY <1>2, <1>3, <1>5, <1>6 DEF StateInv, BooksInv, CountInv

\* A start that fails replaces the directory of a session nothing runs for.
LEMMA RaisesInv ==
    ASSUME RestTyped, ThreadsOK, StateInv, NEW w \in Workers, StartRaises(w)
    PROVE  StateInv'
  <1> USE DEF RestTyped, BooksTyped
  <1> DEFINE s == th[w].sid
  <1>1. s \in Sessions  BY DEF StartRaises, ThreadsOK, ThreadOK
  <1>2. UNCHANGED <<owner, analyzer, counted, started>>
        /\ \A x \in Sessions \ {s} : dir'[x] = dir[x]
    BY DEF StartRaises, stats, bounds
  <1>3. CASE reg[s] # NoRun
    BY <1>1, <1>2, <1>3, CleanupInv DEF StartRaises
  <1>4. CASE reg[s] = NoRun
    <2>1. UNCHANGED <<reg, idle, age, validated, os>>
      BY <1>4 DEF StartRaises, books
    <2>2. BooksAgree' /\ Registered' /\ Numbered' /\ NoOrphan'
      BY <1>2, <2>1 DEF StateInv, BooksInv, BooksAgree, Registered, Numbered, NoOrphan
    <2>3. NoRun \notin Runs  BY HlsAssumption DEF NoRun, Runs
    <2>4. \A q \in Runs : os[q] = "running" => owner[q] \in Sessions \ {s}
      BY <1>4, <2>3 DEF StateInv, BooksInv, NoOrphan
    <2>5. LiveHasDirectory'
      BY <1>2, <2>1, <2>4 DEF StateInv, LiveHasDirectory
    <2>6. Counting' /\ CountedOnce'
      BY <1>2, <2>1 DEF StateInv, CountInv, Counting, CountedOnce
    <2> QED  BY <2>2, <2>5, <2>6 DEF StateInv, BooksInv, CountInv
  <1> QED  BY <1>3, <1>4

\* A step that touches none of it.
LEMMA FrameInv ==
    ASSUME RestTyped, StateInv, UNCHANGED <<Untouched, idle>>
    PROVE  StateInv'
  <1> USE DEF Untouched
  <1>1. BooksAgree' /\ Registered' /\ Numbered' /\ NoOrphan' /\ LiveHasDirectory'
    BY DEF StateInv, BooksInv, BooksAgree, Registered, Numbered, NoOrphan, LiveHasDirectory
  <1>2. Counting' /\ CountedOnce'
    BY DEF StateInv, CountInv, Counting, CountedOnce
  <1> QED  BY <1>1, <1>2 DEF StateInv, BooksInv, CountInv

-----------------------------------------------------------------------------
(* The steps of the program.                                               *)

LEMMA RequestInv ==
    ASSUME RestTyped, ThreadsOK, StateInv, NEW w \in Workers, Request(w)
    PROVE  StateInv'
  <1> USE DEF bounds, books, world, stats, Untouched
  <1>0. th[w].pc # "idle" => th[w].sid \in Sessions
    BY DEF ThreadsOK, ThreadOK
  <1> DEFINE s == th[w].sid
  <1>1. CASE Serve(w)  BY <1>1, FrameInv DEF Serve
  <1>2. CASE Probe(w)  BY <1>2, FrameInv DEF Probe
  <1>3. CASE WaitUpstream(w)  BY <1>3, FrameInv DEF WaitUpstream
  <1>4. CASE StartReuse(w)
    <2>1. reg[s] # NoRun  BY <1>4 DEF StartReuse, Reuses, Alive
    <2>2. s \in Sessions  BY <1>0, <1>4 DEF StartReuse
    <2> QED  BY <1>4, <2>1, <2>2, ActivityInv DEF StartReuse
  <1>5. CASE StartSpawn(w)  BY <1>5, SpawnInv
  <1>6. CASE StartRaises(w)  BY <1>6, RaisesInv
  <1>7. CASE CheckArrival(w)
    <2>1. s \in Sessions  BY <1>0, <1>7 DEF CheckArrival
    <2>2. \/ UNCHANGED <<books, os, dir>>
          \/ CleanupKeepingFiles(s)
      BY <1>7 DEF CheckArrival
    <2>3. CASE UNCHANGED <<books, os, dir>>
      BY <1>7, <2>3, FrameInv DEF CheckArrival
    <2>4. CASE CleanupKeepingFiles(s)
      BY <1>7, <2>1, <2>4, CleanupInv DEF CheckArrival, CleanupKeepingFiles
    <2> QED  BY <2>2, <2>3, <2>4
  <1>8. CASE PollActivity(w)
    <2>1. s \in Sessions  BY <1>0, <1>8 DEF PollActivity
    <2> QED  BY <1>8, <2>1, ActivityInv DEF PollActivity, UpdateActivity
  <1>9. CASE PollReady(w)  BY <1>9, FrameInv DEF PollReady
  <1>10. CASE PollNotReady(w)  BY <1>10, FrameInv DEF PollNotReady
  <1>11. CASE PollProcess(w)
    <2>1. \A r \in Runs : os'[r] = os[r] \/ (os[r] = "exited" /\ os'[r] = "reaped")
      BY <1>11 DEF PollProcess, AfterPoll
    <2> QED  BY <1>11, <2>1, ProcessesInv DEF PollProcess
  <1>12. CASE PollTimeout(w)  BY <1>12, FrameInv DEF PollTimeout
  <1>13. CASE GiveUp(w)
    <2>1. s \in Sessions  BY <1>0, <1>13 DEF GiveUp
    <2> QED  BY <1>13, <2>1, CleanupInv DEF GiveUp, Cleanup
  <1>14. CASE Touch(w)
    <2>1. s \in Sessions  BY <1>0, <1>14 DEF Touch
    <2> QED  BY <1>14, <2>1, ActivityInv DEF Touch, UpdateActivity
  <1>15. CASE Stop(w)
    <2>1. s \in Sessions  BY <1>0, <1>15 DEF Stop
    <2> QED  BY <1>15, <2>1, CleanupInv DEF Stop, Cleanup
  <1> QED
    BY <1>1, <1>2, <1>3, <1>4, <1>5, <1>6, <1>7, <1>8, <1>9, <1>10, <1>11,
       <1>12, <1>13, <1>14, <1>15 DEF Request

LEMMA OthersInv ==
    ASSUME RestTyped, ThreadsOK, StateInv,
           \/ \E r \in Runs : AnalyzeCount(r) \/ AnalyzeMark(r) \/ Segment(r) \/ Exit(r)
           \/ MonitorLooks \/ MonitorWorks \/ Tick
    PROVE  StateInv'
  <1> USE DEF bounds, books, world, stats
  <1>1. ASSUME NEW r \in Runs, AnalyzeCount(r) \/ AnalyzeMark(r) PROVE StateInv'
    BY <1>1, AnalyzeInv
  <1>2. ASSUME NEW r \in Runs, Segment(r) PROVE StateInv'
    BY <1>2, SegmentInv
  <1>3. ASSUME NEW r \in Runs, Exit(r) PROVE StateInv'
    <2>1. \A q \in Runs : os'[q] = os[q] \/ (os[q] = "running" /\ os'[q] = "exited")
      BY <1>3 DEF Exit, RestTyped, BooksTyped
    <2> QED  BY <1>3, <2>1, ProcessesInv DEF Exit
  <1>4. CASE MonitorLooks  BY <1>4, LooksInv
  <1>5. ASSUME NEW s \in Sessions, MonitorCleansDead(s) PROVE StateInv'
    BY <1>5, CleanupInv DEF MonitorCleansDead, CleanupKeepingFiles
  <1>6. ASSUME NEW s \in Sessions, MonitorStops(s) PROVE StateInv'
    BY <1>6, CleanupInv DEF MonitorStops, Cleanup
  <1>7. CASE Tick  BY <1>7, TickInv
  <1> QED
    BY <1>1, <1>2, <1>3, <1>4, <1>5, <1>6, <1>7 DEF MonitorWorks

LEMMA InvParts == IInv <=> RestTyped /\ ThreadsOK /\ StateInv
  BY TypeInvParts DEF IInv, StateInv

LEMMA InvStep == IInv /\ [Next]_vars => IInv'
  <1> SUFFICES ASSUME RestTyped, ThreadsOK, StateInv, [Next]_vars
               PROVE  RestTyped' /\ ThreadsOK' /\ StateInv'
    <2>1. RestTyped' /\ ThreadsOK' => TypeInv'
      BY DEF TypeInv, TypeOK, RestTyped, BooksTyped, ThreadsOK
    <2>2. StateInv' => BooksInv' /\ LiveHasDirectory' /\ CountInv'  BY DEF StateInv
    <2> QED  BY <2>1, <2>2, InvParts DEF IInv
  <1>0. Numbered  BY DEF StateInv, BooksInv
  <1>1. ASSUME NEW w \in Workers, Begin(w) PROVE RestTyped' /\ ThreadsOK' /\ StateInv'
    <2>1. StateInv'
      BY <1>1, FrameInv DEF Begin, books, world, stats, Untouched
    <2> QED  BY <1>1, <2>1, BeginTyped
  <1>2. ASSUME NEW w \in Workers, Request(w)
        PROVE  RestTyped' /\ ThreadsOK' /\ StateInv'
    BY <1>2, RequestTyped, RequestInv
  <1>3. ASSUME \/ \E r \in Runs : AnalyzeCount(r) \/ AnalyzeMark(r)
                                    \/ Segment(r) \/ Exit(r)
               \/ MonitorLooks \/ MonitorWorks \/ Tick
        PROVE  RestTyped' /\ ThreadsOK' /\ StateInv'
    BY <1>0, <1>3, OthersTyped, OthersInv
  <1>4. CASE UNCHANGED vars
    <2> USE <1>4 DEF vars, books, world, stats, bounds
    <2>1. StateInv'  BY FrameInv DEF Untouched
    <2>2. ThreadsOK'  BY DEF ThreadsOK
    <2>3. RestTyped'  BY DEF RestTyped, BooksTyped
    <2> QED  BY <2>1, <2>2, <2>3
  <1> QED  BY <1>1, <1>2, <1>3, <1>4 DEF Next

LEMMA InvInit == Init => IInv
  BY TypeInit, StateInit DEF IInv, StateInv

THEOREM Invariance == Spec => []IInv
  BY InvInit, InvStep, PTL DEF Spec

-----------------------------------------------------------------------------
(* The properties.                                                         *)

\* The state is well typed.
THEOREM TypeCorrect == Spec => []TypeOK
  <1>1. IInv => TypeOK  BY DEF IInv, TypeInv
  <1> QED  BY <1>1, Invariance, PTL

\* No FFmpeg is forgotten.
THEOREM NoOrphanCorrect == Spec => []NoOrphan
  <1>1. IInv => NoOrphan  BY DEF IInv, BooksInv
  <1> QED  BY <1>1, Invariance, PTL

\* The dictionaries of the manager have the same keys.
THEOREM BooksAgreeCorrect == Spec => []BooksAgree
  <1>1. IInv => BooksAgree  BY DEF IInv, BooksInv
  <1> QED  BY <1>1, Invariance, PTL

\* The directory FFmpeg writes to is there, and its own.
THEOREM LiveHasDirectoryCorrect == Spec => []LiveHasDirectory
  <1>1. IInv => LiveHasDirectory  BY DEF IInv
  <1> QED  BY <1>1, Invariance, PTL

\* A run counts as one success.
THEOREM CountedOnceCorrect == Spec => []CountedOnce
  <1>1. IInv => CountedOnce  BY DEF IInv, CountInv
  <1> QED  BY <1>1, Invariance, PTL

\* Requests of other threads leave a thread alone.
LEMMA OthersKept ==
    ASSUME ThreadsOK, NEW v \in Workers, NEW w \in Workers, v # w,
           Begin(v) \/ Request(v)
    PROVE  th'[w] = th[w]
  <1>1. ASSUME NEW t, th' = [th EXCEPT ![v] = t] PROVE th'[w] = th[w]
    BY <1>1 DEF ThreadsOK
  <1>2. ASSUME NEW l, Goto(v, l) PROVE th'[w] = th[w]
    BY <1>2 DEF Goto, ThreadsOK
  <1>3. Answer(v) => th'[w] = th[w]  BY DEF Answer, ThreadsOK
  <1>4. ASSUME NEW r, Await(v, r) PROVE th'[w] = th[w]
    BY <1>4 DEF Await, ThreadsOK
  <1>5. Retry(v) => th'[w] = th[w]  BY <1>3 DEF Retry, ThreadsOK
  <1>6. Begin(v) => th'[w] = th[w]  BY <1>1 DEF Begin, ThreadsOK
  <1>7. Serve(v) \/ Probe(v) \/ WaitUpstream(v) => th'[w] = th[w]
    BY <1>2, <1>3, <1>5 DEF Serve, Probe, WaitUpstream
  <1>8. StartReuse(v) \/ CheckArrival(v) => th'[w] = th[w]
    BY <1>2, <1>4 DEF StartReuse, CheckArrival
  <1>9. StartSpawn(v) => th'[w] = th[w]  BY DEF StartSpawn, ThreadsOK
  <1>10. PollActivity(v) \/ PollReady(v) \/ PollNotReady(v) \/ PollTimeout(v) =>
            th'[w] = th[w]
    BY <1>2, <1>3 DEF PollActivity, PollReady, PollNotReady, PollTimeout
  <1>11. PollProcess(v) => th'[w] = th[w]  BY DEF PollProcess, ThreadsOK
  <1>12. GiveUp(v) \/ Touch(v) \/ Stop(v) \/ StartRaises(v) => th'[w] = th[w]
    BY <1>3, <1>5 DEF GiveUp, Touch, Stop, StartRaises
  <1> QED
    BY <1>6, <1>7, <1>8, <1>9, <1>10, <1>11, <1>12 DEF Request

\* A request that starts a session ends no young FFmpeg: only a forced start of
\* a session that is no longer reusable ends one at all, and it is its own.
THEOREM StartSparesPreparingCorrect == Spec => StartSparesPreparing
  <1> DEFINE Spares ==
        \A w \in Workers, r \in Runs :
          th[w].pc = "start" /\ th'[w] # th[w] /\ os[r] = "running" /\ os'[r] # "running" =>
            age[owner[r]] >= YoungAge
  <1>1. IInv /\ [Next]_vars => [Spares]_vars
    <2> SUFFICES ASSUME IInv, Next, NEW w \in Workers, NEW r \in Runs,
                        th[w].pc = "start", th'[w] # th[w],
                        os[r] = "running", os'[r] # "running"
                 PROVE  age[owner[r]] >= YoungAge
      OBVIOUS
    <2> DEFINE s == th[w].sid
    <2>1. RestTyped /\ ThreadsOK /\ StateInv  BY InvParts
    <2>2. s \in Sessions  BY <2>1 DEF ThreadsOK, ThreadOK
    <2>3. r # NoRun  BY HlsAssumption DEF Runs, NoRun
    <2>4. Request(w)
      <3>1. \A v \in Workers \ {w} : ~(Begin(v) \/ Request(v))  BY <2>1, OthersKept
      <3>2. ~Begin(w)  BY DEF Begin
      <3>3. \A q \in Runs : ~(AnalyzeCount(q) \/ AnalyzeMark(q) \/ Segment(q) \/ Exit(q))
        BY DEF AnalyzeCount, AnalyzeMark, Segment, Exit
      <3>4. ~MonitorLooks /\ ~MonitorWorks /\ ~Tick
        BY DEF MonitorLooks, MonitorWorks, MonitorCleansDead, MonitorStops, Tick
      <3> QED  BY <3>1, <3>2, <3>3, <3>4 DEF Next
    <2>5. StartSpawn(w) \/ StartRaises(w)
      BY <2>4 DEF Request, Serve, Probe, WaitUpstream, StartReuse, CheckArrival,
           PollActivity, PollReady, PollNotReady, PollProcess, PollTimeout,
           GiveUp, Touch, Stop, world
    <2>6. ~Reuses(w)  BY <2>5 DEF StartSpawn, StartRaises
    <2>7. r = reg[s]
      <3>1. CASE StartSpawn(w)
        <4>1. os' = [AfterReap(s) EXCEPT ![started + 1] = "running"]
          BY <3>1 DEF StartSpawn
        <4> QED  BY <4>1 DEF AfterReap
      <3>2. CASE StartRaises(w)
        BY <3>2 DEF StartRaises, CleanupBooks, AfterReap
      <3> QED  BY <2>5, <3>1, <3>2
    <2>8. owner[r] = s
      BY <2>1, <2>2, <2>3, <2>7 DEF StateInv, BooksInv, Registered
    <2>9. ~IsReusable(s)  BY <2>3, <2>6, <2>7 DEF Reuses, Alive
    <2>10. age[s] \in Ages
      BY <2>1, <2>2, <2>3, <2>7 DEF StateInv, BooksInv, BooksAgree, RestTyped, BooksTyped
    <2> QED
      BY <2>8, <2>9, <2>10, HlsAssumption DEF IsReusable, Ages
  <1> QED  BY <1>1, Invariance, PTL DEF Spec, StartSparesPreparing

-----------------------------------------------------------------------------
(* What a request waits for.                                               *)

Waiting == {"starting", "poll", "check", "alive"}

\* A session of which a request got a run: it is that run or a later one that
\* is registered, and that wrote the manifest, if there is one.
Awaited(s, r) ==
    /\ r \in Runs /\ r <= started
    /\ reg[s] # NoRun => r <= reg[s]
    /\ dir[s].files \in {"listed", "ready"} => r <= dir[s].run

AwaitInv ==
    \A w \in Workers : th[w].pc \in Waiting => Awaited(th[w].sid, th[w].run)

\* What a step does to a session.
Changes(s) ==
    /\ started' \in {started, started + 1}
    /\ reg'[s] \in {reg[s], NoRun, started'}
    /\ \/ dir'[s] = dir[s]
       \/ dir'[s].files \in {"none", "log"}
       \/ reg[s] # NoRun /\ dir'[s].run = reg[s]

LEMMA CleanupChanges ==
    ASSUME RestTyped, NEW s \in Sessions, NEW x \in Sessions, CleanupBooks(s),
           started' = started,
           dir' = dir \/ dir' = [dir EXCEPT ![s] = NoDir]
             \/ dir' = [dir EXCEPT ![s] = FreshDirectory(s, NoRun)]
    PROVE  Changes(x)
  <1>1. reg'[x] \in {reg[x], NoRun}  BY DEF CleanupBooks, RestTyped, BooksTyped
  <1>2. NoDir.files = "none" /\ FreshDirectory(s, NoRun).files = "log"
    BY DEF NoDir, FreshDirectory
  <1>3. dir'[x] = dir[x] \/ dir'[x].files \in {"none", "log"}
    BY <1>2 DEF RestTyped
  <1> QED  BY <1>1, <1>3 DEF Changes

LEMMA StepChanges ==
    ASSUME IInv, Next, NEW x \in Sessions
    PROVE  Changes(x)
  <1> USE DEF bounds, books, world, stats
  <1>0. RestTyped /\ ThreadsOK /\ StateInv  BY InvParts
  <1>1. UNCHANGED <<reg, dir, started>> => Changes(x)  BY DEF Changes
  <1>2. ASSUME NEW w \in Workers, Begin(w) PROVE Changes(x)
    BY <1>1, <1>2 DEF Begin
  <1>3. ASSUME NEW w \in Workers, Request(w) PROVE Changes(x)
    <2> DEFINE s == th[w].sid
    <2>0. th[w].pc # "idle" => s \in Sessions  BY <1>0 DEF ThreadsOK, ThreadOK
    <2>1. CASE Serve(w) \/ Probe(w) \/ WaitUpstream(w)
      BY <1>1, <2>1 DEF Serve, Probe, WaitUpstream
    <2>2. CASE StartReuse(w) \/ PollActivity(w) \/ Touch(w)
      BY <1>1, <2>2 DEF StartReuse, PollActivity, Touch
    <2>3. CASE PollReady(w) \/ PollNotReady(w) \/ PollProcess(w) \/ PollTimeout(w)
      BY <1>1, <2>3 DEF PollReady, PollNotReady, PollProcess, PollTimeout
    <2>4. CASE StartSpawn(w)
      <3>1. s \in Sessions  BY <2>0, <2>4 DEF StartSpawn
      <3>2. started' = started + 1 /\ reg' = [reg EXCEPT ![s] = started']
            /\ dir' = [dir EXCEPT ![s] = FreshDirectory(s, started')]
        BY <2>4 DEF StartSpawn
      <3>3. FreshDirectory(s, started').files = "log"  BY DEF FreshDirectory
      <3> QED
        BY <1>0, <3>1, <3>2, <3>3 DEF Changes, RestTyped, BooksTyped
    <2>5. CASE StartRaises(w)
      <3>1. s \in Sessions  BY <2>0, <2>5 DEF StartRaises
      <3>2. CleanupBooks(s) => Changes(x)
        BY <1>0, <2>5, <3>1, CleanupChanges DEF StartRaises
      <3>3. CASE UNCHANGED <<books, os>>
        <4>1. FreshDirectory(s, NoRun).files = "log"  BY DEF FreshDirectory
        <4> QED
          BY <1>0, <2>5, <3>1, <3>3, <4>1 DEF StartRaises, Changes, RestTyped
      <3> QED  BY <2>5, <3>2, <3>3 DEF StartRaises
    <2>6. CASE CheckArrival(w)
      <3>1. s \in Sessions  BY <2>0, <2>6 DEF CheckArrival
      <3>2. UNCHANGED <<books, os, dir>> \/ CleanupKeepingFiles(s)
        BY <2>6 DEF CheckArrival
      <3>3. CASE UNCHANGED <<books, os, dir>>
        BY <1>1, <2>6, <3>3 DEF CheckArrival
      <3>4. CASE CleanupKeepingFiles(s)
        BY <1>0, <2>6, <3>1, <3>4, CleanupChanges DEF CheckArrival, CleanupKeepingFiles
      <3> QED  BY <3>2, <3>3, <3>4
    <2>7. CASE GiveUp(w) \/ Stop(w)
      <3>1. s \in Sessions  BY <2>0, <2>7 DEF GiveUp, Stop
      <3> QED
        BY <1>0, <2>7, <3>1, CleanupChanges DEF GiveUp, Stop, Cleanup
    <2> QED
      BY <1>3, <2>1, <2>2, <2>3, <2>4, <2>5, <2>6, <2>7 DEF Request
  <1>4. ASSUME NEW r \in Runs, AnalyzeCount(r) \/ AnalyzeMark(r) \/ Exit(r)
        PROVE  Changes(x)
    BY <1>1, <1>4 DEF AnalyzeCount, AnalyzeMark, Exit
  <1>5. ASSUME NEW r \in Runs, Segment(r) PROVE Changes(x)
    <2> DEFINE s == owner[r]
               f == IF dir[s].files = "log" THEN "listed" ELSE "ready"
    <2>1. s \in Sessions /\ reg[s] = r
      BY <1>0, <1>5 DEF Segment, StateInv, BooksInv, NoOrphan
    <2>2. dir' = [dir EXCEPT ![s] = [run |-> r, files |-> f]]
      BY <1>0, <1>5, <2>1 DEF Segment, RestTyped
    <2> HIDE DEF f
    <2>3. r # NoRun  BY HlsAssumption DEF Runs, NoRun
    <2>4. dir'[x] = dir[x] \/ (reg[x] # NoRun /\ dir'[x].run = reg[x])
      BY <1>0, <2>1, <2>2, <2>3 DEF RestTyped
    <2> QED  BY <1>5, <2>4 DEF Segment, Changes
  <1>6. CASE MonitorLooks \/ Tick
    BY <1>1, <1>6 DEF MonitorLooks, Tick
  <1>7. ASSUME NEW s \in Sessions, MonitorCleansDead(s) \/ MonitorStops(s)
        PROVE  Changes(x)
    BY <1>0, <1>7, CleanupChanges
       DEF MonitorCleansDead, MonitorStops, CleanupKeepingFiles, Cleanup
  <1> QED
    BY <1>2, <1>3, <1>4, <1>5, <1>6, <1>7 DEF Next, MonitorWorks

LEMMA AwaitedKept ==
    ASSUME IInv, Next, NEW s \in Sessions, NEW r, Awaited(s, r)
    PROVE  Awaited(s, r)'
  <1>1. Changes(s)  BY StepChanges
  <1>2. r \in Nat /\ started \in Nat
    BY InvParts, HlsAssumption DEF Awaited, Runs, RestTyped
  <1>3. r <= started'  BY <1>1, <1>2 DEF Awaited, Changes
  <1>4. reg'[s] # NoRun => r <= reg'[s]
    BY <1>1, <1>3 DEF Awaited, Changes
  <1>5. dir'[s].files \in {"listed", "ready"} => r <= dir'[s].run
    BY <1>1 DEF Awaited, Changes
  <1> QED  BY <1>3, <1>4, <1>5 DEF Awaited

\* A thread waits for the run it waited for, or has just been given one.
LEMMA WaitingStep ==
    ASSUME IInv, AwaitInv, Next, NEW w \in Workers, th'[w].pc \in Waiting
    PROVE  Awaited(th[w].sid, th[w].run)'
  <1> USE DEF Waiting
  <1>0. RestTyped /\ ThreadsOK /\ StateInv  BY InvParts
  <1> PICK s : s = th[w].sid  OBVIOUS
  <1>1. ASSUME th[w].pc \in Waiting, th'[w].sid = s, th'[w].run = th[w].run
        PROVE  Awaited(th[w].sid, th[w].run)'
    <2>1. s \in Sessions  BY <1>0, <1>1 DEF ThreadsOK, ThreadOK
    <2> PICK r : r = th[w].run  OBVIOUS
    <2>2. Awaited(s, r)  BY <1>1 DEF AwaitInv
    <2>3. Awaited(s, r)'  BY <2>1, <2>2, AwaitedKept
    <2> QED  BY <1>1, <2>3 DEF Awaited
  <1>2. th'[w] = th[w] => Awaited(th[w].sid, th[w].run)'  BY <1>1
  <1>3. ASSUME NEW l \in Labels, Goto(w, l), th[w].pc \in Waiting
        PROVE  Awaited(th[w].sid, th[w].run)'
    <2>1. th'[w] = [th[w] EXCEPT !.pc = l]  BY <1>0, <1>3 DEF Goto, ThreadsOK
    <2>2. th[w] \in Thread  BY <1>0 DEF ThreadsOK
    <2> PICK t \in Thread : t = th[w]  BY <2>2
    <2>3. th'[w].sid = s /\ th'[w].run = th[w].run  BY <2>1 DEF Thread
    <2> QED  BY <1>1, <1>3, <2>3
  <1>4. ASSUME NEW r \in Runs, Await(w, r), s \in Sessions, Awaited(s, r)
        PROVE  Awaited(th[w].sid, th[w].run)'
    <2>1. th'[w] = [th[w] EXCEPT !.pc = "poll", !.run = r, !.polls = Polls]
      BY <1>0, <1>4 DEF Await, ThreadsOK
    <2>2. th[w] \in Thread  BY <1>0 DEF ThreadsOK
    <2>3. th'[w].sid = s /\ th'[w].run = r  BY <2>1, <2>2 DEF Thread
    <2>4. Awaited(s, r)'  BY <1>4, AwaitedKept
    <2> QED  BY <2>3, <2>4 DEF Awaited
  <1>5. Answer(w) => th'[w].pc = "idle"
    BY <1>0 DEF Answer, NoRequest, ThreadsOK
  <1>6. ASSUME NEW l, Goto(w, l) PROVE th'[w].pc = l
    BY <1>0, <1>6 DEF Goto, ThreadsOK, Thread
  <1>7. Retry(w) => th'[w].pc \in {"idle", "upstream"}
    BY <1>0, <1>5 DEF Retry, ThreadsOK, Thread
  <1>8. th[w].pc # "idle" => s \in Sessions  BY <1>0 DEF ThreadsOK, ThreadOK
  <1>9. CASE Request(w)
    <2>1. CASE Serve(w) \/ Probe(w) \/ WaitUpstream(w)
      BY <1>5, <1>6, <1>7, <2>1 DEF Serve, Probe, WaitUpstream
    <2>2. CASE StartReuse(w)
      <3>1. s \in Sessions  BY <1>8, <2>2 DEF StartReuse
      <3> PICK r : r = reg[s]  OBVIOUS
      <3>2. r \in Runs /\ os[r] = "running"
        BY <1>0, <2>2, <3>1 DEF StartReuse, Reuses, Alive, RestTyped, BooksTyped, NoRun
      <3>3. r <= started /\ owner[r] = s
        BY <1>0, <3>1, <3>2, HlsAssumption DEF StateInv, BooksInv, Registered, NoRun, Runs
      <3>4. dir[s].run = r
        BY <1>0, <3>2, <3>3 DEF StateInv, LiveHasDirectory
      <3>5. Awaited(s, r)
        BY <3>2, <3>3, <3>4, HlsAssumption DEF Awaited, Runs
      <3>6. Await(w, r)  BY <2>2 DEF StartReuse
      <3> QED  BY <1>4, <3>1, <3>2, <3>5, <3>6
    <2>3. CASE StartSpawn(w)
      <3>1. s \in Sessions  BY <1>8, <2>3 DEF StartSpawn
      <3> PICK r : r = started + 1  OBVIOUS
      <3>2. r \in Runs  BY <1>0, <2>3, HlsAssumption DEF StartSpawn, RestTyped, Runs
      <3>3. th'[w] = [th[w] EXCEPT !.pc = "starting", !.run = r]
        BY <1>0, <2>3 DEF StartSpawn, ThreadsOK
      <3>4. th[w] \in Thread  BY <1>0 DEF ThreadsOK
      <3>5. th'[w].sid = s /\ th'[w].run = r  BY <3>3, <3>4 DEF Thread
      <3>6. started' = r /\ reg'[s] = r /\ dir'[s].files = "log"
        BY <1>0, <2>3, <3>1 DEF StartSpawn, FreshDirectory, RestTyped, BooksTyped
      <3> QED  BY <3>2, <3>5, <3>6, HlsAssumption DEF Awaited, Runs
    <2>4. CASE StartRaises(w) \/ GiveUp(w) \/ Touch(w) \/ Stop(w)
      BY <1>5, <1>7, <2>4 DEF StartRaises, GiveUp, Touch, Stop
    <2>5. CASE CheckArrival(w)
      <3>1. s \in Sessions  BY <1>8, <2>5 DEF CheckArrival
      <3>2. CASE Alive(th[w].run)
        <4> PICK r : r = th[w].run  OBVIOUS
        <4>1. Awaited(s, r)  BY <2>5 DEF CheckArrival, AwaitInv
        <4>2. r \in Runs  BY <4>1 DEF Awaited
        <4>3. Await(w, r)  BY <2>5, <3>2 DEF CheckArrival
        <4> QED  BY <1>4, <3>1, <4>1, <4>2, <4>3
      <3>3. CASE ~Alive(th[w].run)
        BY <1>6, <2>5, <3>3 DEF CheckArrival
      <3> QED  BY <3>2, <3>3
    <2>6. CASE PollActivity(w) \/ PollNotReady(w)
      BY <1>3, <2>6 DEF PollActivity, PollNotReady, Labels
    <2>7. CASE PollReady(w) \/ PollTimeout(w)
      BY <1>5, <1>6, <2>7 DEF PollReady, PollTimeout
    <2>8. CASE PollProcess(w)
      <3> PICK l : l = IF Alive(reg[th[w].sid]) THEN "poll" ELSE "giveUp"  OBVIOUS
      <3>1. th'[w] = [th[w] EXCEPT !.polls = @ - 1, !.pc = l]
        BY <1>0, <2>8 DEF PollProcess, ThreadsOK
      <3>2. th[w] \in Thread  BY <1>0 DEF ThreadsOK
      <3>3. th'[w].sid = s /\ th'[w].run = th[w].run  BY <3>1, <3>2 DEF Thread
      <3> QED  BY <1>1, <2>8, <3>3 DEF PollProcess
    <2> QED
      BY <1>9, <2>1, <2>2, <2>3, <2>4, <2>5, <2>6, <2>7, <2>8 DEF Request
  <1>10. CASE Begin(w)
    <2>1. PICK op \in Handlers[w], x \in Sessions, force \in BOOLEAN :
            th' = [th EXCEPT ![w] =
               [NoRequest EXCEPT !.op = op, !.sid = x, !.force = force,
                  !.pc = CASE op \in {"start", "auto"} -> "probe"
                           [] op = "serve" -> "serve"
                           [] op = "segment" -> "touch"
                           [] op = "stop" -> "stop"]]
      BY <1>10 DEF Begin
    <2> PICK l : l = CASE op \in {"start", "auto"} -> "probe"
                       [] op = "serve" -> "serve"
                       [] op = "segment" -> "touch"
                       [] op = "stop" -> "stop"
      OBVIOUS
    <2>2. op \in AllOps  BY HlsAssumption
    <2>3. l \notin Waiting  BY <2>2 DEF AllOps
    <2>4. th'[w].pc = l  BY <1>0, <2>1 DEF ThreadsOK, NoRequest
    <2> QED  BY <2>3, <2>4
  <1>11. CASE ~Request(w) /\ ~Begin(w)
    <2>1. ASSUME NEW v \in Workers, Begin(v) \/ Request(v) PROVE th'[w] = th[w]
      BY <1>0, <1>11, <2>1, OthersKept
    <2>2. ASSUME NEW r \in Runs,
                 AnalyzeCount(r) \/ AnalyzeMark(r) \/ Segment(r) \/ Exit(r)
          PROVE  th' = th
      BY <2>2 DEF AnalyzeCount, AnalyzeMark, Segment, Exit
    <2>3. MonitorLooks \/ MonitorWorks \/ Tick => th' = th
      BY DEF MonitorLooks, MonitorWorks, MonitorCleansDead, MonitorStops, Tick
    <2> QED  BY <1>2, <2>1, <2>2, <2>3 DEF Next
  <1> QED  BY <1>9, <1>10, <1>11

LEMMA AwaitInit == Init => AwaitInv
  BY DEF Init, NoRequest, AwaitInv, Waiting

LEMMA AwaitStep == IInv /\ AwaitInv /\ [Next]_vars => AwaitInv'
  <1> SUFFICES ASSUME IInv, AwaitInv, [Next]_vars PROVE AwaitInv'
    OBVIOUS
  <1>1. CASE UNCHANGED vars
    BY <1>1 DEF vars, books, world, stats, bounds, AwaitInv, Awaited, Waiting
  <1>2. CASE Next
    <2> SUFFICES ASSUME NEW w \in Workers, th'[w].pc \in Waiting
                 PROVE  Awaited(th[w].sid, th[w].run)'
      BY DEF AwaitInv, Waiting
    <2> QED  BY <1>2, WaitingStep
  <1> QED  BY <1>1, <1>2

LEMMA AwaitInvariance == Spec => []AwaitInv
  BY AwaitInit, AwaitStep, Invariance, PTL DEF Spec

\* A request is answered with a manifest of its own run or of a later one.
THEOREM ReadyIsOwnCorrect == Spec => ReadyIsOwn
  <1> DEFINE Own ==
        \A w \in Workers :
          th[w].pc = "check" /\ th'[w].pc \in {"idle", "touch"} =>
            dir[th[w].sid].run >= th[w].run
  <1>1. IInv /\ AwaitInv /\ [Next]_vars => [Own]_vars
    <2> SUFFICES ASSUME IInv, AwaitInv, Next, NEW w \in Workers,
                        th[w].pc = "check", th'[w].pc \in {"idle", "touch"}
                 PROVE  dir[th[w].sid].run >= th[w].run
      OBVIOUS
    <2>1. RestTyped /\ ThreadsOK  BY InvParts
    <2>2. th[w].sid \in Sessions  BY <2>1 DEF ThreadsOK, ThreadOK
    <2>3. th'[w] # th[w]  OBVIOUS
    <2>4. Begin(w) \/ Request(w)
      <3>1. ASSUME NEW v \in Workers, Begin(v) \/ Request(v), v # w PROVE FALSE
        BY <2>1, <2>3, <3>1, OthersKept
      <3>2. \A q \in Runs : ~(AnalyzeCount(q) \/ AnalyzeMark(q) \/ Segment(q) \/ Exit(q))
        BY <2>3 DEF AnalyzeCount, AnalyzeMark, Segment, Exit
      <3>3. ~MonitorLooks /\ ~MonitorWorks /\ ~Tick
        BY <2>3 DEF MonitorLooks, MonitorWorks, MonitorCleansDead, MonitorStops, Tick
      <3> QED  BY <3>1, <3>2, <3>3 DEF Next
    <2>5. PollReady(w) \/ PollNotReady(w)
      BY <2>4 DEF Begin, Request, Serve, Probe, WaitUpstream, StartReuse, StartSpawn,
           StartRaises, CheckArrival, PollActivity, PollProcess, PollTimeout,
           GiveUp, Touch, Stop
    <2>6. ~PollNotReady(w)
      BY <2>1 DEF PollNotReady, Goto, ThreadsOK, Thread
    <2>7. dir[th[w].sid].files = "ready"  BY <2>5, <2>6 DEF PollReady
    <2>8. Awaited(th[w].sid, th[w].run)  BY DEF AwaitInv, Waiting
    <2> QED  BY <2>1, <2>2, <2>7, <2>8, HlsAssumption DEF Awaited, RestTyped, Directory, Runs
  <1>2. [][Own]_vars <=> ReadyIsOwn  BY DEF ReadyIsOwn
  <1> QED  BY <1>1, <1>2, Invariance, AwaitInvariance, PTL DEF Spec

-----------------------------------------------------------------------------
(* The refinement: what becomes of a process, a playlist and a wait.       *)

Stutters == UNCHANGED <<started, Processes, Playlists, Waits>>

\* Of a session nothing has to be waited for but the registered run.
LEMMA OnlyRegistered ==
    ASSUME IInv, NEW s \in Sessions, NEW r \in Unreaped(s)
    PROVE  r = reg[s] /\ r \in Runs /\ reg[s] # NoRun
  BY HlsAssumption DEF IInv, BooksInv, NoOrphan, Unreaped, Runs, NoRun

\* A cleanup waits for all that a session has, and for nothing else.
LEMMA ProcessesCleaned ==
    ASSUME IInv, NEW s \in Sessions, CleanupBooks(s), UNCHANGED owner
    PROVE  Processes' = [Processes EXCEPT ![s] = {}]
  <1>1. RestTyped /\ StateInv  BY InvParts
  <1>2. os' = AfterReap(s)  BY DEF CleanupBooks
  <1>3. Unreaped(s)' = {}
    BY <1>2, OnlyRegistered DEF Unreaped, AfterReap
  <1>4. ASSUME NEW x \in Sessions, x # s PROVE Unreaped(x)' = Unreaped(x)
    <2>1. \A r \in Runs : owner[r] = x => r # reg[s]
      BY <1>1, <1>4, HlsAssumption DEF StateInv, BooksInv, Registered, Runs, NoRun
    <2> QED  BY <1>2, <2>1 DEF Unreaped, AfterReap
  <1> QED  BY <1>3, <1>4 DEF Processes

\* Without a process registered there is nothing to clean up.
LEMMA ProcessesNone ==
    ASSUME IInv, NEW s \in Sessions, reg[s] = NoRun
    PROVE  Processes = [Processes EXCEPT ![s] = {}]
  BY OnlyRegistered DEF Processes

\* A poll waits for a run that has ended.
LEMMA ProcessesPolled ==
    ASSUME IInv, NEW S \in SUBSET Sessions, UNCHANGED owner,
           os' = AfterPoll({reg[s] : s \in S})
    PROVE  Processes' = [s \in Sessions |->
             IF s \in {x \in S : reg[x] # NoRun /\ os[reg[x]] = "exited"}
               THEN {} ELSE Processes[s]]
  <1>1. RestTyped /\ StateInv  BY InvParts
  <1>2. ASSUME NEW x \in Sessions
        PROVE  Unreaped(x)' = IF x \in S /\ reg[x] # NoRun /\ os[reg[x]] = "exited"
                                THEN {} ELSE Unreaped(x)
    <2>1. ASSUME NEW r \in Unreaped(x), NEW s \in S, r = reg[s] PROVE s = x
      BY <1>1, <2>1, OnlyRegistered
      DEF StateInv, BooksInv, Registered, Unreaped
    <2>2. CASE x \in S /\ reg[x] # NoRun /\ os[reg[x]] = "exited"
      <3>1. ASSUME NEW r \in Unreaped(x)' PROVE FALSE
        <4>1. r \in Runs /\ owner[r] = x /\ os'[r] \in {"running", "exited"}
          BY <3>1 DEF Unreaped
        <4>2. r \in Unreaped(x)
          BY <4>1 DEF AfterPoll, Unreaped
        <4>3. r = reg[x]  BY <4>2, OnlyRegistered
        <4> QED  BY <2>2, <4>1, <4>3 DEF AfterPoll
      <3> QED  BY <2>2, <3>1
    <2>3. CASE ~(x \in S /\ reg[x] # NoRun /\ os[reg[x]] = "exited")
      <3>1. \A r \in Unreaped(x) : os'[r] = os[r]
        BY <2>1, <2>3, OnlyRegistered DEF AfterPoll, Unreaped
      <3>2. \A r \in Runs : os'[r] \in {"running", "exited"} => os'[r] = os[r]
        BY DEF AfterPoll
      <3> QED  BY <2>3, <3>1, <3>2 DEF Unreaped
    <2> QED  BY <2>2, <2>3
  <1> QED  BY <1>2 DEF Processes

\* A directory that is removed, or made anew, has no manifest.
LEMMA PlaylistGone ==
    ASSUME RestTyped, NEW s \in Sessions, NEW r, NEW f \in {"none", "log"},
           dir' = [dir EXCEPT ![s] = [run |-> r, files |-> f]]
    PROVE  Playlists' = [Playlists EXCEPT ![s] = 0]
  BY DEF RestTyped, Playlists, NoRun

\* What a thread waits for depends on its label alone.
Wait(w, state) == [session |-> th[w].sid, run |-> th[w].run, state |-> state]

Nothing == [session |-> None, run |-> NoRun, state |-> "none"]

\* A thread waits from the launch of FFmpeg to the answer, or the failure.
LEMMA WaitOf ==
    ASSUME NEW w \in Workers
    PROVE  /\ th[w].pc \notin Waiting \cup {"giveUp"} => Waits[w] = Nothing
           /\ th[w].pc \in Waiting => Waits[w] = Wait(w, "waiting")
           /\ th[w].pc = "giveUp" => Waits[w] = Wait(w, "failed")
  BY DEF Waits, Awaits, Wait, Waiting, Nothing

\* A thread that moves changes what it waits for.
LEMMA WaitMoves ==
    ASSUME ThreadsOK, NEW w \in Workers, NEW t, th' = [th EXCEPT ![w] = t]
    PROVE  Waits' = [Waits EXCEPT ![w] = Awaits(t)]
  BY DEF Waits, ThreadsOK

\* A thread that goes to another label waits for the same run, or no more.
LEMMA WaitGoes ==
    ASSUME ThreadsOK, NEW w \in Workers, NEW l \in Labels, Goto(w, l)
    PROVE  /\ l \notin Waiting \cup {"giveUp"} => Waits' = [Waits EXCEPT ![w] = Nothing]
           /\ l \in Waiting => Waits' = [Waits EXCEPT ![w] = Wait(w, "waiting")]
           /\ l = "giveUp" => Waits' = [Waits EXCEPT ![w] = Wait(w, "failed")]
  <1> PICK t : t = [th[w] EXCEPT !.pc = l]  OBVIOUS
  <1>1. t.pc = l /\ t.sid = th[w].sid /\ t.run = th[w].run
    BY DEF ThreadsOK, Thread
  <1>2. Waits' = [Waits EXCEPT ![w] = Awaits(t)]
    BY WaitMoves DEF Goto
  <1> QED  BY <1>1, <1>2 DEF Awaits, Wait, Nothing, Waiting

\* An answer, or another attempt, ends the wait.
LEMMA WaitAnswered ==
    ASSUME ThreadsOK, NEW w \in Workers, Answer(w) \/ Retry(w)
    PROVE  Waits' = [Waits EXCEPT ![w] = Nothing]
  <1>1. CASE Answer(w)
    <2>1. Awaits(NoRequest) = Nothing  BY DEF Awaits, NoRequest, Nothing
    <2> QED  BY <1>1, <2>1, WaitMoves DEF Answer
  <1>2. CASE th' = [th EXCEPT ![w].pc = "upstream", ![w].attempt = @ + 1]
    <2> PICK t : t = [th[w] EXCEPT !.pc = "upstream", !.attempt = @ + 1]  OBVIOUS
    <2>1. t.pc = "upstream"  BY DEF ThreadsOK, Thread
    <2>2. th' = [th EXCEPT ![w] = t]  BY <1>2 DEF ThreadsOK
    <2>3. Awaits(t) = Nothing  BY <2>1 DEF Awaits, Nothing
    <2> QED  BY <2>2, <2>3, WaitMoves
  <1> QED  BY <1>1, <1>2 DEF Retry

\* start_stream returned: its run is waited for.
LEMMA WaitBegins ==
    ASSUME ThreadsOK, NEW w \in Workers, NEW r, Await(w, r)
    PROVE  Waits' = [Waits EXCEPT ![w] =
             [session |-> th[w].sid, run |-> r, state |-> "waiting"]]
  <1> PICK t : t = [th[w] EXCEPT !.pc = "poll", !.run = r, !.polls = Polls]  OBVIOUS
  <1>1. t.pc = "poll" /\ t.sid = th[w].sid /\ t.run = r
    BY DEF ThreadsOK, Thread
  <1>2. th' = [th EXCEPT ![w] = t]  BY DEF Await
  <1> QED  BY <1>1, <1>2, WaitMoves DEF Awaits

\* A wait that fails is of the same run.
LEMMA WaitFails ==
    ASSUME NEW w \in Workers, Waits[w] = Wait(w, "waiting"),
           Waits' = [Waits EXCEPT ![w] = Wait(w, "failed")]
    PROVE  Waits' = [Waits EXCEPT ![w].state = "failed"]
  <1>1. [Wait(w, "waiting") EXCEPT !.state = "failed"] = Wait(w, "failed")
    BY DEF Wait
  <1> QED  BY <1>1

-----------------------------------------------------------------------------
(* The steps of requests.                                                  *)

\* A step that leaves processes and files alone, and neither begins nor ends a
\* wait, changes nothing.
LEMMA RequestStutters ==
    ASSUME IInv, NEW w \in Workers,
           \/ Begin(w) \/ Serve(w) \/ Probe(w) \/ WaitUpstream(w)
           \/ PollActivity(w) \/ PollNotReady(w) \/ Touch(w)
    PROVE  Stutters
  <1>1. ThreadsOK  BY InvParts
  <1>2. UNCHANGED <<os, owner, dir, started>>
    <2>1. Begin(w) => UNCHANGED <<os, owner, dir, started>>  BY DEF Begin, world
    <2> QED
      BY <2>1 DEF Serve, Probe, WaitUpstream, PollActivity, PollNotReady, Touch,
         world, bounds
  <1>3. UNCHANGED <<Processes, Playlists>>
    BY <1>2 DEF Processes, Playlists, Unreaped
  <1>4. Waits = [Waits EXCEPT ![w] = Waits[w]]  BY DEF Waits
  <1>5. CASE Begin(w)
    <2>1. PICK op \in Handlers[w], x \in Sessions, force \in BOOLEAN :
            th' = [th EXCEPT ![w] =
               [NoRequest EXCEPT !.op = op, !.sid = x, !.force = force,
                  !.pc = CASE op \in {"start", "auto"} -> "probe"
                           [] op = "serve" -> "serve"
                           [] op = "segment" -> "touch"
                           [] op = "stop" -> "stop"]]
      BY <1>5 DEF Begin
    <2> PICK l : l = CASE op \in {"start", "auto"} -> "probe"
                       [] op = "serve" -> "serve"
                       [] op = "segment" -> "touch"
                       [] op = "stop" -> "stop"
      OBVIOUS
    <2> PICK t : t = [NoRequest EXCEPT !.op = op, !.sid = x, !.force = force, !.pc = l]
      OBVIOUS
    <2>2. op \in AllOps  BY HlsAssumption
    <2>3. l \in {"probe", "serve", "touch", "stop"}  BY <2>2 DEF AllOps
    <2>4. t.pc = l  BY DEF NoRequest
    <2>5. Awaits(t) = Nothing  BY <2>3, <2>4 DEF Awaits, Nothing
    <2>6. Waits[w] = Nothing
      <3>1. th[w].pc = "idle"  BY <1>5 DEF Begin
      <3> QED  BY <3>1, WaitOf DEF Waiting
    <2>7. th' = [th EXCEPT ![w] = t]  BY <2>1
    <2> QED  BY <1>1, <1>2, <1>3, <1>4, <2>5, <2>6, <2>7, WaitMoves DEF Stutters
  <1>6. CASE Serve(w) \/ Probe(w) \/ WaitUpstream(w) \/ Touch(w)
    <2>1. Waits[w] = Nothing
      BY <1>6, WaitOf DEF Serve, Probe, WaitUpstream, Touch, Waiting
    <2>2. Waits' = [Waits EXCEPT ![w] = Nothing]
      BY <1>1, <1>6, WaitGoes, WaitAnswered
      DEF Serve, Probe, WaitUpstream, Touch, Waiting, Labels
    <2> QED  BY <1>2, <1>3, <1>4, <2>1, <2>2 DEF Stutters
  <1>7. CASE PollActivity(w) \/ PollNotReady(w)
    <2>1. Waits[w] = Wait(w, "waiting")
      BY <1>7, WaitOf DEF PollActivity, PollNotReady, Waiting
    <2>2. Waits' = [Waits EXCEPT ![w] = Wait(w, "waiting")]
      BY <1>1, <1>7, WaitGoes DEF PollActivity, PollNotReady, Waiting, Labels
    <2> QED  BY <1>2, <1>3, <1>4, <2>1, <2>2 DEF Stutters
  <1> QED  BY <1>5, <1>6, <1>7

\* A session that is kept is joined.
LEMMA JoinStep ==
    ASSUME IInv, NEW w \in Workers, StartReuse(w)
    PROVE  Broadcast!Join(w, th[w].sid)
  <1> PICK s : s = th[w].sid  OBVIOUS
  <1> PICK r : r = reg[s]  OBVIOUS
  <1>1. RestTyped /\ ThreadsOK /\ StateInv  BY InvParts
  <1>2. s \in Sessions  BY <1>1 DEF StartReuse, ThreadsOK, ThreadOK
  <1>3. r \in Runs /\ os[r] = "running"
    BY <1>1, <1>2 DEF StartReuse, Reuses, Alive, RestTyped, BooksTyped
  <1>4. owner[r] = s
    BY <1>1, <1>2, <1>3, HlsAssumption DEF StateInv, BooksInv, Registered, NoRun, Runs
  <1>5. r \in Processes[s]  BY <1>2, <1>3, <1>4 DEF Processes, Unreaped
  <1>6. Waits' = [Waits EXCEPT ![w] = [session |-> s, run |-> r, state |-> "waiting"]]
    BY <1>1, WaitBegins DEF StartReuse
  <1>7. UNCHANGED <<started, Processes, Playlists>>
    BY DEF StartReuse, world, bounds, Processes, Playlists, Unreaped
  <1>8. Waits[w] = Nothing  BY WaitOf DEF StartReuse, Waiting
  <1> QED
    BY <1>5, <1>6, <1>7, <1>8 DEF Broadcast!Join, Broadcast!NoWait, Nothing, NoRun

\* A new run takes the place of the one before, which has been waited for.
LEMMA LaunchStep ==
    ASSUME IInv, NEW w \in Workers, StartSpawn(w)
    PROVE  Broadcast!Launch(w, th[w].sid)
  <1> PICK s : s = th[w].sid  OBVIOUS
  <1> PICK r : r = started + 1  OBVIOUS
  <1>1. RestTyped /\ ThreadsOK /\ StateInv  BY InvParts
  <1>2. s \in Sessions /\ r \in Runs /\ ~(r <= started)
    BY <1>1, HlsAssumption DEF StartSpawn, ThreadsOK, ThreadOK, RestTyped, Runs
  <1>3. /\ os' = [AfterReap(s) EXCEPT ![r] = "running"]
        /\ owner' = [owner EXCEPT ![r] = s] /\ started' = r
        /\ dir' = [dir EXCEPT ![s] = FreshDirectory(s, r)]
    BY DEF StartSpawn
  <1>4. os[r] = "unborn" /\ owner[r] = None
    BY <1>1, <1>2 DEF StateInv, BooksInv, Numbered
  <1>5. Unreaped(s)' = {r}
    <2>1. r \in Unreaped(s)'
      BY <1>1, <1>2, <1>3 DEF Unreaped, AfterReap, RestTyped
    <2>2. ASSUME NEW q \in Unreaped(s)', q # r PROVE FALSE
      <3>1. q \in Runs /\ owner[q] = s /\ AfterReap(s)[q] \in {"running", "exited"}
        BY <1>1, <1>3, <2>2 DEF Unreaped, AfterReap, RestTyped
      <3>2. q \in Unreaped(s) /\ q # reg[s]  BY <3>1 DEF Unreaped, AfterReap
      <3> QED  BY <1>2, <3>2, OnlyRegistered
    <2> QED  BY <2>1, <2>2
  <1>6. ASSUME NEW x \in Sessions, x # s PROVE Unreaped(x)' = Unreaped(x)
    <2>1. \A q \in Runs : owner[q] = x => q # reg[s] /\ q # r
      BY <1>1, <1>2, <1>4, <1>6, HlsAssumption
      DEF StateInv, BooksInv, Registered, Runs, NoRun
    <2>2. \A q \in Runs : owner'[q] = x <=> owner[q] = x
      BY <1>1, <1>2, <1>3, <1>6, <2>1 DEF RestTyped
    <2>3. \A q \in Runs : owner[q] = x => os'[q] = os[q]
      BY <1>3, <2>1 DEF AfterReap
    <2> QED  BY <2>2, <2>3 DEF Unreaped
  <1>7. Processes' = [Processes EXCEPT ![s] = {r}]
    BY <1>2, <1>5, <1>6 DEF Processes
  <1>8. Playlists' = [Playlists EXCEPT ![s] = 0]
    <2>1. dir' = [dir EXCEPT ![s] = [run |-> r, files |-> "log"]]
      BY <1>3 DEF FreshDirectory
    <2> QED  BY <1>1, <1>2, <2>1, PlaylistGone
  <1>9. Waits' = [Waits EXCEPT ![w] = [session |-> s, run |-> r, state |-> "waiting"]]
    <2> PICK t : t = [th[w] EXCEPT !.pc = "starting", !.run = r]  OBVIOUS
    <2>1. t.pc = "starting" /\ t.sid = s /\ t.run = r
      BY <1>1 DEF ThreadsOK, Thread
    <2>2. th' = [th EXCEPT ![w] = t]  BY DEF StartSpawn
    <2> QED  BY <1>1, <2>1, <2>2, WaitMoves DEF Awaits
  <1>10. Waits[w] = Nothing  BY WaitOf DEF StartSpawn, Waiting
  <1> QED
    BY <1>3, <1>7, <1>8, <1>9, <1>10
    DEF Broadcast!Launch, Broadcast!NoWait, Nothing, NoRun

\* Nothing of a session outlives a start that raises, or a stop.
LEMMA StopStep ==
    ASSUME IInv, NEW w \in Workers, StartRaises(w) \/ Stop(w)
    PROVE  Broadcast!Stop(th[w].sid)
  <1> PICK s : s = th[w].sid  OBVIOUS
  <1>1. RestTyped /\ ThreadsOK /\ StateInv  BY InvParts
  <1>2. s \in Sessions
    BY <1>1 DEF StartRaises, Stop, ThreadsOK, ThreadOK
  <1>3. UNCHANGED <<owner, started>>
    BY DEF StartRaises, Stop, bounds
  <1>4. Processes' = [Processes EXCEPT ![s] = {}]
    <2>1. CASE CleanupBooks(s)  BY <1>2, <1>3, <2>1, ProcessesCleaned
    <2>2. CASE reg[s] = NoRun /\ UNCHANGED <<books, os>>
      <3>1. Processes' = Processes  BY <1>3, <2>2 DEF Processes, Unreaped
      <3> QED  BY <1>2, <2>2, <3>1, ProcessesNone
    <2> QED  BY <2>1, <2>2 DEF StartRaises, Stop, Cleanup
  <1>5. Playlists' = [Playlists EXCEPT ![s] = 0]
    <2>1. PICK f \in {"none", "log"} : dir' = [dir EXCEPT ![s] = [run |-> NoRun, files |-> f]]
      BY DEF StartRaises, Stop, Cleanup, FreshDirectory, NoDir
    <2> QED  BY <1>1, <1>2, <2>1, PlaylistGone
  <1>6. Waits' = [Waits EXCEPT ![w] = Nothing] /\ Waits[w] = Nothing
    BY <1>1, WaitAnswered, WaitOf DEF StartRaises, Stop, Waiting
  <1>7. Waits' = Waits  BY <1>6 DEF Waits
  <1> QED  BY <1>3, <1>4, <1>5, <1>7 DEF Broadcast!Stop

\* A second after its launch a process is waited for still, or has failed.
LEMMA ArrivalStep ==
    ASSUME IInv, NEW w \in Workers, CheckArrival(w)
    PROVE  Stutters \/ Broadcast!Fail(w)
  <1> PICK s : s = th[w].sid  OBVIOUS
  <1>1. RestTyped /\ ThreadsOK /\ StateInv  BY InvParts
  <1>2. s \in Sessions /\ UNCHANGED <<owner, started>>
    BY <1>1 DEF CheckArrival, ThreadsOK, ThreadOK, bounds
  <1>3. Waits[w] = Wait(w, "waiting") /\ Waits = [Waits EXCEPT ![w] = Waits[w]]
    BY WaitOf DEF CheckArrival, Waiting, Waits
  <1>4. CASE Alive(th[w].run)
    <2>1. Await(w, th[w].run) /\ UNCHANGED <<os, dir>>
      BY <1>4 DEF CheckArrival
    <2>2. Waits' = [Waits EXCEPT ![w] = Wait(w, "waiting")]
      BY <1>1, <2>1, WaitBegins DEF Wait
    <2> QED
      BY <1>2, <1>3, <2>1, <2>2 DEF Stutters, Processes, Playlists, Unreaped
  <1>5. CASE ~Alive(th[w].run)
    <2>1. Goto(w, "giveUp") /\ CleanupBooks(s) /\ UNCHANGED dir
      BY <1>5 DEF CheckArrival, CleanupKeepingFiles
    <2>2. Waits' = [Waits EXCEPT ![w] = Wait(w, "failed")]
      BY <1>1, <2>1, WaitGoes DEF Labels
    <2>3. Waits' = [Waits EXCEPT ![w].state = "failed"]
      BY <1>3, <2>2, WaitFails
    <2>4. Processes' = [Processes EXCEPT ![s] = {}] /\ Playlists' = Playlists
      BY <1>2, <2>1, ProcessesCleaned DEF Playlists
    <2> QED  BY <1>2, <1>3, <2>3, <2>4 DEF Broadcast!Fail, Wait
  <1> QED  BY <1>4, <1>5

\* A poll finds the process running, or ended; a wait takes too long.
LEMMA PollStep ==
    ASSUME IInv, NEW w \in Workers, PollProcess(w) \/ PollTimeout(w)
    PROVE  Stutters \/ Broadcast!Fail(w)
  <1> PICK s : s = th[w].sid  OBVIOUS
  <1>1. RestTyped /\ ThreadsOK /\ StateInv  BY InvParts
  <1>2. s \in Sessions /\ UNCHANGED <<owner, started, dir>>
    BY <1>1 DEF PollProcess, PollTimeout, ThreadsOK, ThreadOK, bounds, world
  <1>3. Waits[w] = Wait(w, "waiting") /\ Waits = [Waits EXCEPT ![w] = Waits[w]]
    BY WaitOf DEF PollProcess, PollTimeout, Waiting, Waits
  <1>4. Playlists' = Playlists  BY <1>2 DEF Playlists
  <1>5. CASE PollTimeout(w)
    <2>1. Waits' = [Waits EXCEPT ![w] = Wait(w, "failed")] /\ Processes' = Processes
      BY <1>1, <1>5, WaitGoes DEF PollTimeout, Labels, world, Processes, Unreaped
    <2>2. Waits' = [Waits EXCEPT ![w].state = "failed"]
      BY <1>3, <2>1, WaitFails
    <2>3. Processes' \in {Processes, [Processes EXCEPT ![s] = {}]}  BY <2>1
    <2> QED  BY <1>2, <1>3, <1>4, <2>2, <2>3 DEF Broadcast!Fail, Wait
  <1>6. CASE PollProcess(w)
    <2> PICK l : l = IF Alive(reg[s]) THEN "poll" ELSE "giveUp"  OBVIOUS
    <2> PICK t : t = [th[w] EXCEPT !.polls = @ - 1, !.pc = l]  OBVIOUS
    <2>1. t.pc = l /\ t.sid = s /\ t.run = th[w].run
      BY <1>1 DEF ThreadsOK, Thread
    <2>2. Waits' = [Waits EXCEPT ![w] = Awaits(t)]
      <3>1. th' = [th EXCEPT ![w] = t]  BY <1>1, <1>6 DEF PollProcess, ThreadsOK
      <3> QED  BY <1>1, <3>1, WaitMoves
    <2>3. os' = AfterPoll({reg[x] : x \in {s}})
      BY <1>6 DEF PollProcess
    <2>4. Processes' = [x \in Sessions |->
             IF x \in {y \in {s} : reg[y] # NoRun /\ os[reg[y]] = "exited"}
               THEN {} ELSE Processes[x]]
      BY <1>2, <2>3, ProcessesPolled
    <2>5. CASE Alive(reg[s])
      <3>1. Waits' = Waits
        BY <1>3, <2>1, <2>2, <2>5 DEF Awaits, Wait
      <3>2. Processes' = Processes  BY <2>4, <2>5 DEF Alive, Processes
      <3> QED  BY <1>2, <1>4, <3>1, <3>2 DEF Stutters
    <2>6. CASE ~Alive(reg[s])
      <3>1. Waits' = [Waits EXCEPT ![w].state = "failed"]
        <4>1. Awaits(t) = Wait(w, "failed")  BY <2>1, <2>6 DEF Awaits, Wait
        <4> QED  BY <1>3, <2>2, <4>1, WaitFails
      <3>2. Processes' \in {Processes, [Processes EXCEPT ![s] = {}]}
        <4>1. CASE reg[s] # NoRun /\ os[reg[s]] = "exited"
          <5>1. Processes' = [Processes EXCEPT ![s] = {}]
            BY <1>2, <2>4, <4>1 DEF Processes
          <5> QED  BY <5>1
        <4>2. CASE ~(reg[s] # NoRun /\ os[reg[s]] = "exited")
          <5>1. Processes' = Processes  BY <2>4, <4>2 DEF Processes
          <5> QED  BY <5>1
        <4> QED  BY <4>1, <4>2
      <3> QED  BY <1>2, <1>3, <1>4, <3>1, <3>2 DEF Broadcast!Fail, Wait
    <2> QED  BY <2>5, <2>6
  <1> QED  BY <1>5, <1>6

\* The manifest that answers is of the run that was waited for, or a later one.
LEMMA AnswerStep ==
    ASSUME IInv, AwaitInv, NEW w \in Workers, PollReady(w)
    PROVE  Broadcast!Answer(w)
  <1> PICK s : s = th[w].sid  OBVIOUS
  <1>1. RestTyped /\ ThreadsOK  BY InvParts
  <1>2. s \in Sessions  BY <1>1 DEF PollReady, ThreadsOK, ThreadOK
  <1>3. Waits[w] = Wait(w, "waiting")  BY WaitOf DEF PollReady, Waiting
  <1>4. Waits' = [Waits EXCEPT ![w] = Nothing]
    BY <1>1, WaitGoes, WaitAnswered DEF PollReady, Waiting, Labels
  <1>5. Playlists[s] = dir[s].run /\ th[w].run <= dir[s].run
    BY <1>2 DEF PollReady, AwaitInv, Awaited, Waiting, Playlists
  <1>6. Playlists[s] >= th[w].run
    BY <1>1, <1>2, <1>5, HlsAssumption
    DEF RestTyped, Directory, Runs, NoRun, ThreadsOK, Thread
  <1>7. UNCHANGED <<started, Processes, Playlists>>
    BY DEF PollReady, world, bounds, Processes, Playlists, Unreaped
  <1> QED
    BY <1>3, <1>4, <1>6, <1>7
    DEF Broadcast!Answer, Broadcast!NoWait, Wait, Nothing, NoRun

\* Whoever gives up stops the session.
LEMMA GiveUpStep ==
    ASSUME IInv, NEW w \in Workers, GiveUp(w)
    PROVE  Broadcast!GiveUp(w)
  <1> PICK s : s = th[w].sid  OBVIOUS
  <1>1. RestTyped /\ ThreadsOK  BY InvParts
  <1>2. s \in Sessions /\ UNCHANGED <<owner, started>>
    BY <1>1 DEF GiveUp, ThreadsOK, ThreadOK, bounds
  <1>3. Waits[w] = Wait(w, "failed")  BY WaitOf DEF GiveUp
  <1>4. Waits' = [Waits EXCEPT ![w] = Nothing]
    BY <1>1, WaitAnswered DEF GiveUp
  <1>5. Processes' = [Processes EXCEPT ![s] = {}]
    BY <1>2, ProcessesCleaned DEF GiveUp, Cleanup
  <1>6. Playlists' = [Playlists EXCEPT ![s] = 0]
    <2>1. dir' = [dir EXCEPT ![s] = [run |-> NoRun, files |-> "none"]]
      BY DEF GiveUp, Cleanup, NoDir
    <2> QED  BY <1>1, <1>2, <2>1, PlaylistGone
  <1> QED
    BY <1>2, <1>3, <1>4, <1>5, <1>6
    DEF Broadcast!GiveUp, Broadcast!NoWait, Wait, Nothing, NoRun

-----------------------------------------------------------------------------
(* The steps of the monitor, of FFmpeg and of the clock.                   *)

\* FFmpeg writes the playlist of the session it was launched for.
LEMMA SegmentStep ==
    ASSUME IInv, NEW r \in Runs, Segment(r)
    PROVE  Broadcast!Publish(owner[r])
  <1> PICK s : s = owner[r]  OBVIOUS
  <1>1. RestTyped  BY InvParts
  <1>2. s \in Sessions /\ r \in Processes[s]
    BY DEF IInv, BooksInv, NoOrphan, Segment, Processes, Unreaped
  <1>3. PICK f \in {"listed", "ready"} : dir' = [dir EXCEPT ![s] = [run |-> r, files |-> f]]
    <2> PICK f : f = IF dir[s].files = "log" THEN "listed" ELSE "ready"  OBVIOUS
    <2>1. dir' = [dir EXCEPT ![s] = [run |-> r, files |-> f]]
      BY <1>1, <1>2 DEF Segment, RestTyped
    <2> QED  BY <2>1
  <1>4. Playlists' = [Playlists EXCEPT ![s] = r]
    BY <1>1, <1>2, <1>3 DEF RestTyped, Playlists
  <1>5. UNCHANGED <<started, Processes, Waits>>
    BY DEF Segment, bounds, Processes, Unreaped, Waits
  <1> QED  BY <1>2, <1>4, <1>5 DEF Broadcast!Publish

\* What the monitor found dead or idle is stopped.
LEMMA MonitorStep ==
    ASSUME IInv, NEW s \in Sessions, MonitorCleansDead(s) \/ MonitorStops(s)
    PROVE  Broadcast!Stop(s)
  <1>1. RestTyped  BY InvParts
  <1>2. UNCHANGED <<owner, started, th>> /\ CleanupBooks(s)
    BY DEF MonitorCleansDead, MonitorStops, CleanupKeepingFiles, Cleanup, bounds
  <1>3. Processes' = [Processes EXCEPT ![s] = {}]
    BY <1>2, ProcessesCleaned
  <1>4. Waits' = Waits  BY <1>2 DEF Waits
  <1>5. CASE MonitorCleansDead(s)
    <2>1. Playlists' = Playlists
      BY <1>5 DEF MonitorCleansDead, CleanupKeepingFiles, Playlists
    <2> QED  BY <1>2, <1>3, <1>4, <2>1 DEF Broadcast!Stop
  <1>6. CASE MonitorStops(s)
    <2>1. dir' = [dir EXCEPT ![s] = [run |-> NoRun, files |-> "none"]]
      BY <1>6 DEF MonitorStops, Cleanup, NoDir
    <2>2. Playlists' = [Playlists EXCEPT ![s] = 0]
      BY <1>1, <2>1, PlaylistGone
    <2> QED  BY <1>2, <1>3, <1>4, <2>2 DEF Broadcast!Stop
  <1> QED  BY <1>5, <1>6

\* A look of the monitor waits for the processes that have ended.
LEMMA LooksStep ==
    ASSUME IInv, MonitorLooks
    PROVE  \E ended \in SUBSET Sessions : Broadcast!Collect(ended)
  <1> PICK S : S = Found  OBVIOUS
  <1> PICK ended : ended = {x \in S : reg[x] # NoRun /\ os[reg[x]] = "exited"}  OBVIOUS
  <1>1. S \in SUBSET Sessions /\ ended \in SUBSET Sessions  BY DEF Found
  <1>2. UNCHANGED <<owner, started, th, dir>> /\ os' = AfterPoll({reg[x] : x \in S})
    BY DEF MonitorLooks, bounds
  <1>3. Processes' = [s \in Sessions |-> IF s \in ended THEN {} ELSE Processes[s]]
    BY <1>1, <1>2, ProcessesPolled
  <1>4. Waits' = Waits /\ Playlists' = Playlists  BY <1>2 DEF Waits, Playlists
  <1> QED  BY <1>1, <1>2, <1>3, <1>4 DEF Broadcast!Collect

\* A process that has ended is still to be waited for; the rest is bookkeeping.
LEMMA WorldStutters ==
    ASSUME IInv,
           \/ UNCHANGED vars \/ Tick
           \/ \E r \in Runs : AnalyzeCount(r) \/ AnalyzeMark(r) \/ Exit(r)
    PROVE  Stutters
  <1>1. RestTyped /\ StateInv  BY InvParts
  <1>2. UNCHANGED <<owner, dir, started, th>>
    BY DEF vars, books, world, bounds, Tick, AnalyzeCount, AnalyzeMark, Exit
  <1>3. \A r \in Runs : os'[r] \in {"running", "exited"} <=> os[r] \in {"running", "exited"}
    BY <1>1 DEF vars, books, world, bounds, Tick, AnalyzeCount, AnalyzeMark, Exit,
       RestTyped, BooksTyped, StateInv, BooksInv
  <1> QED  BY <1>2, <1>3 DEF Stutters, Processes, Playlists, Unreaped, Waits

LEMMA BroadcastInit == Init => Broadcast!Init
  <1> SUFFICES ASSUME Init PROVE Broadcast!Init
    OBVIOUS
  <1>1. Processes = [s \in Sessions |-> {}]
    BY DEF Init, Processes, Unreaped
  <1>2. Playlists = [s \in Sessions |-> 0]
    <2>1. \A s \in Sessions : dir[s].files = "none"  BY DEF Init, NoDir
    <2> QED  BY <2>1 DEF Playlists, NoRun
  <1>3. Waits = [w \in Workers |-> Nothing]
    BY WaitOf DEF Init, NoRequest, Waiting, Waits
  <1> QED  BY <1>1, <1>2, <1>3 DEF Init, Broadcast!Init, Broadcast!NoWait, Nothing, NoRun

LEMMA BroadcastStep ==
    IInv /\ AwaitInv /\ [Next]_vars => [Broadcast!Next]_(Broadcast!vars)
  <1> SUFFICES ASSUME IInv, AwaitInv, [Next]_vars
               PROVE  Broadcast!Next \/ UNCHANGED Broadcast!vars
    OBVIOUS
  <1>1. Stutters => UNCHANGED Broadcast!vars  BY DEF Stutters, Broadcast!vars
  <1>2. ThreadsOK  BY InvParts
  <1>3. ASSUME NEW w \in Workers, Begin(w) \/ Request(w)
        PROVE  Stutters \/ Broadcast!Next
    <2>1. CASE Begin(w) \/ Serve(w) \/ Probe(w) \/ WaitUpstream(w)
                \/ PollActivity(w) \/ PollNotReady(w) \/ Touch(w)
      BY <2>1, RequestStutters
    <2>2. CASE StartReuse(w) \/ StartSpawn(w)
      <3>1. th[w].sid \in Sessions
        BY <1>2, <2>2 DEF StartReuse, StartSpawn, ThreadsOK, ThreadOK
      <3> QED  BY <2>2, <3>1, JoinStep, LaunchStep DEF Broadcast!Next
    <2>3. CASE StartRaises(w) \/ Stop(w)
      <3>1. th[w].sid \in Sessions
        BY <1>2, <2>3 DEF StartRaises, Stop, ThreadsOK, ThreadOK
      <3> QED  BY <2>3, <3>1, StopStep DEF Broadcast!Next
    <2>4. CASE CheckArrival(w) \/ PollProcess(w) \/ PollTimeout(w)
      BY <2>4, ArrivalStep, PollStep DEF Broadcast!Next
    <2>5. CASE PollReady(w) \/ GiveUp(w)
      BY <2>5, AnswerStep, GiveUpStep DEF Broadcast!Next
    <2> QED  BY <1>3, <2>1, <2>2, <2>3, <2>4, <2>5 DEF Request
  <1>4. ASSUME NEW r \in Runs, Segment(r) PROVE Broadcast!Next
    <2>1. owner[r] \in Sessions
      BY <1>4 DEF IInv, BooksInv, NoOrphan, Segment
    <2> QED  BY <1>4, <2>1, SegmentStep DEF Broadcast!Next
  <1>5. CASE MonitorLooks  BY <1>5, LooksStep DEF Broadcast!Next
  <1>6. CASE MonitorWorks
    BY <1>6, MonitorStep DEF MonitorWorks, Broadcast!Next
  <1>7. CASE \/ UNCHANGED vars \/ Tick
             \/ \E r \in Runs : AnalyzeCount(r) \/ AnalyzeMark(r) \/ Exit(r)
    BY <1>1, <1>7, WorldStutters
  <1> QED  BY <1>1, <1>3, <1>4, <1>5, <1>6, <1>7 DEF Next

\* Whatever the requests, the monitor and FFmpeg do, and in whatever order, is
\* something that Broadcasts allows.
THEOREM Implementation == Spec => ImplementsBroadcasts
  BY BroadcastInit, BroadcastStep, Invariance, AwaitInvariance, PTL
  DEF Spec, ImplementsBroadcasts, Broadcast!Spec
=============================================================================
