------------------------------- MODULE Player -------------------------------
(***************************************************************************)
(* The player of the web page (static/script.js): what starts a playback,  *)
(* what its engine, its request and its timers do to it, how it recovers,  *)
(* falls back from MPEG-TS to HLS, and gives up.                           *)
(*                                                                         *)
(* The page has one thread: a step is one event with all it calls.  What   *)
(* the handlers of a playback keep in their closures is the channel and    *)
(* the generation, which here is "fresh": whether playbackGeneration is    *)
(* still what it was.                                                      *)
(***************************************************************************)
EXTENDS Naturals, Sequences

CONSTANTS
    Channels,     \* what can be played
    Signals,      \* the channels that show the same match, best first
    Platforms,    \* the browsers of this instance
    MaxOps,       \* bound on what the viewer does
    None          \* null marker: no channel

\* A browser has mpegts.js and hls.js, hls.js only, HLS of its own, or none.
AllPlatforms == {"mpegts", "hlsjs", "native", "none"}
Profiles == {"original", "transcoded"}

\* MAX_PLAYBACK_RECOVERY_ATTEMPTS, and what a request that fails is allowed.
MaxRecoveries == 2
MaxRequestRetries == 1

ASSUME PlayerAssumption ==
    /\ Signals \in Seq(Channels)
    /\ Platforms \subseteq AllPlatforms
    /\ MaxOps \in Nat
    /\ None \notin Channels

VARIABLES
    platform,
    channel,      \* currentAceId
    profile,      \* currentProfile
    retries,      \* playbackRetryCount
    signal,       \* currentMatchQueueIndex, from 1; 0 without a match
    engines,      \* mpegtsPlayer, hlsInstance, player.src
    media,        \* the video element: nothing loaded, loaded, has played
    suppress,     \* suppressPlayerErrors
    requests,     \* requests to /api/hls/start
    timers,       \* callbacks set with setTimeout
    status,       \* the overlay
    ops

target == <<channel, profile, signal>>
vars == <<platform, target, retries, engines, media, suppress, requests, timers, status, ops>>

LoadTimers == {"loadMpegts", "loadHls"}
TimerKinds == LoadTimers \cup {"retry", "recover", "unsuppress"}

\* The overlay reports a failure.
Reports == {"failed", "failover"}

Closure == [channel: Channels, fresh: BOOLEAN]
Engine == [kind: {"mpegts", "hls", "native"}, channel: Channels, fresh: BOOLEAN]
Timer ==
    [kind: TimerKinds, channel: Channels \cup {None}, attempt: 0..MaxRecoveries,
     fresh: BOOLEAN]

TypeOK ==
    /\ platform \in Platforms
    /\ channel \in Channels \cup {None}
    /\ profile \in Profiles
    /\ retries \in 0..MaxRecoveries
    /\ signal \in 0..Len(Signals)
    /\ engines \subseteq Engine
    /\ media \in {"empty", "loaded", "played"}
    /\ suppress \in BOOLEAN
    /\ requests \subseteq Closure
    /\ timers \subseteq Timer
    /\ status \in {"hidden", "preparing"} \cup Reports
    /\ ops \in 0..MaxOps

Init ==
    /\ platform \in Platforms
    /\ channel = None
    /\ profile = "original"
    /\ retries = 0
    /\ signal = 0
    /\ engines = {}
    /\ media = "empty"
    /\ suppress = FALSE
    /\ requests = {}
    /\ timers = {}
    /\ status = "hidden"
    /\ ops = 0

-----------------------------------------------------------------------------
(* Starting and stopping.                                                  *)

\* playbackGeneration moves on.
Outdated(closures) == {[c EXCEPT !.fresh = FALSE] : c \in closures}

\* A callback set now that knows its channel; the one that recovers, known by
\* the attempt it is; and the one that lets errors through again.
SetTimer(kind, c) == [kind |-> kind, channel |-> c, attempt |-> 0, fresh |-> TRUE]
SetRecover(n) == [kind |-> "recover", channel |-> None, attempt |-> n, fresh |-> TRUE]
Unsuppress == [kind |-> "unsuppress", channel |-> None, attempt |-> 0, fresh |-> FALSE]

\* Mutant: the timeout of the previous engine is left running.
LeaveLoadTimer(pending) == pending

\* resetPlayerEngine clears the timeout of the engine ...
WithoutLoadTimer(pending) == {t \in pending : t.kind \notin LoadTimers}

\* ... and destroys it.
ResetEngine ==
    /\ engines' = {}
    /\ media' = "empty"
    /\ suppress' = TRUE

\* useMpegtsDirectPlayback.
PlaysDirectly(p) == p = "original" /\ platform = "mpegts"

\* attachMpegtsToPlayer, after ResetEngine.
MpegtsEngine(c) == [kind |-> "mpegts", channel |-> c, fresh |-> TRUE]

\* startPlayback, with the callbacks pending before it.  The request before is
\* aborted.  A direct playback attaches mpegts.js; HLS is asked for.
StartPlayback(pending, c, p, forceHls, count) ==
    LET kept == Outdated(WithoutLoadTimer(pending))
    IN  /\ profile' = p
        /\ retries' = count
        /\ media' = "empty"
        /\ suppress' = TRUE
        /\ status' = "preparing"
        /\ IF PlaysDirectly(p) /\ ~forceHls
             THEN /\ engines' = {MpegtsEngine(c)}
                  /\ requests' = Outdated(requests)
                  /\ timers' = kept \cup {SetTimer("loadMpegts", c), Unsuppress}
             ELSE /\ engines' = {}
                  /\ requests' = Outdated(requests) \cup {[channel |-> c, fresh |-> TRUE]}
                  /\ timers' = kept

-----------------------------------------------------------------------------
(* The viewer.                                                             *)

ViewerActs == ops < MaxOps /\ ops' = ops + 1 /\ UNCHANGED platform

\* playChannel, from a card or by zapping.  The queue of a match is kept.
PlayChannel(c) ==
    /\ ViewerActs
    /\ channel' = c
    /\ \E p \in Profiles : StartPlayback(timers, c, p, FALSE, 0)
    /\ UNCHANGED signal

\* playAgendaStream.
PlaySignal(i) ==
    /\ ViewerActs
    /\ signal' = i
    /\ channel' = Signals[i]
    /\ \E p \in Profiles : StartPlayback(timers, Signals[i], p, FALSE, 0)

\* Another signal of the match follows.
HasNextSignal == signal # 0 /\ signal < Len(Signals)

\* proceedToNextMatchStream, offered by triggerMatchFailover.
PlayNextSignal ==
    /\ status = "failover"
    /\ HasNextSignal
    /\ PlaySignal(signal + 1)

\* retryCurrentPlayback.
RetryByHand ==
    /\ ViewerActs
    /\ status \in {"failed", "failover"}
    /\ channel # None
    /\ StartPlayback(timers, channel, profile, FALSE, 0)
    /\ UNCHANGED <<channel, signal>>

\* changeQuality.
ChangeQuality(p) ==
    /\ ViewerActs
    /\ channel # None
    /\ StartPlayback(timers, channel, p, FALSE, 0)
    /\ UNCHANGED <<channel, signal>>

\* closePlayer.
Close ==
    /\ ViewerActs
    /\ channel # None
    /\ channel' = None
    /\ profile' = "original"
    /\ signal' = 0
    /\ ResetEngine
    /\ requests' = Outdated(requests)
    /\ timers' = Outdated(WithoutLoadTimer(timers))
    /\ status' = "hidden"
    /\ UNCHANGED retries

Viewer ==
    \/ \E c \in Channels : PlayChannel(c)
    \/ \E i \in 1..Len(Signals) : PlaySignal(i)
    \/ PlayNextSignal
    \/ RetryByHand
    \/ \E p \in Profiles : ChangeQuality(p)
    \/ Close

-----------------------------------------------------------------------------
(* Recovering.                                                             *)

TriesLeft == retries < MaxRecoveries

\* recoverPlayback: two more tries, then the next signal of the match is
\* offered, or the failure reported.
Recover(pending) ==
    /\ IF TriesLeft
         THEN /\ retries' = retries + 1
              /\ status' = "preparing"
              /\ timers' = pending \cup {SetRecover(retries + 1)}
              /\ UNCHANGED <<engines, media, suppress>>
         ELSE /\ UNCHANGED retries
              /\ IF HasNextSignal
                   THEN /\ status' = "failover"
                        /\ timers' = pending
                        /\ UNCHANGED <<engines, media, suppress>>
                   ELSE /\ status' = "failed"
                        /\ timers' = WithoutLoadTimer(pending)
                        /\ ResetEngine
    /\ UNCHANGED <<target, requests>>

\* fallbackToHls.
FallBack(pending) ==
    /\ StartPlayback(pending, channel, profile, TRUE, 0)
    /\ UNCHANGED <<channel, signal>>

-----------------------------------------------------------------------------
(* The answer to the request.                                              *)

\* Mutant: an answer is taken whenever it comes.
AcceptsAny(r) == TRUE

\* Not aborted, and of this generation.
Accepts(r) == r.fresh

\* Once something was attached the errors of the element count again.
LetsErrorsThrough == IF platform = "none" THEN {} ELSE {Unsuppress}

\* Mutant: nothing watches the start of the engine.
AttachUnwatched(c) == LetsErrorsThrough

\* The callbacks set with an HLS engine.
AttachTimers(c) == {SetTimer("loadHls", c)} \cup LetsErrorsThrough

\* attachHlsToPlayer.
Attach(r) ==
    /\ \/ /\ platform \in {"mpegts", "hlsjs"}
          /\ engines' = {e \in engines : e.kind # "hls"}
               \cup {[kind |-> "hls", channel |-> r.channel, fresh |-> r.fresh]}
          /\ status' = "preparing"
       \/ /\ platform = "native"
          /\ engines' = engines
               \cup {[kind |-> "native", channel |-> r.channel, fresh |-> r.fresh]}
          /\ status' = "hidden"
       \/ /\ platform = "none"
          /\ status' = "failed"
          /\ UNCHANGED engines
    /\ timers' = WithoutLoadTimer(timers) \cup AttachTimers(r.channel)
    /\ UNCHANGED <<target, retries, media, suppress>>

\* The stream is not there, or the server could not be reached: one more try,
\* then the next signal or the failure.
Refuse(r) ==
    /\ IF retries < MaxRequestRetries
         THEN /\ retries' = retries + 1
              /\ status' = "preparing"
              /\ timers' = timers \cup {SetTimer("retry", r.channel)}
         ELSE /\ status' = IF HasNextSignal THEN "failover" ELSE "failed"
              /\ UNCHANGED <<retries, timers>>
    /\ UNCHANGED <<target, engines, media, suppress>>

Settle(r) ==
    /\ r \in requests
    /\ requests' = requests \ {r}
    /\ IF Accepts(r)
         THEN Attach(r) \/ Refuse(r)
         ELSE UNCHANGED <<target, retries, engines, media, suppress, timers, status>>
    /\ UNCHANGED <<platform, ops>>

-----------------------------------------------------------------------------
(* The video element and the engines.                                      *)

MediaLoads ==
    /\ engines # {}
    /\ media = "empty"
    /\ media' = "loaded"
    /\ status' = "hidden"
    /\ UNCHANGED <<platform, target, retries, engines, suppress, requests, timers, ops>>

\* hls.js hides the overlay with the first fragment, before anything is loaded.
FragmentLoads ==
    /\ \E e \in engines : e.kind = "hls"
    /\ status' = "hidden"
    /\ UNCHANGED <<platform, target, retries, engines, media, suppress, requests, timers, ops>>

\* The stream plays, and goes on.
MediaPlays ==
    /\ engines # {}
    /\ media # "empty"
    /\ media' = "played"
    /\ timers' = WithoutLoadTimer(timers)
    /\ status' = "hidden"
    /\ UNCHANGED <<platform, target, retries, engines, suppress, requests, ops>>

\* The error is of the engine of this playback.
OfThisPlayback(e) == e.fresh /\ e.channel = channel

\* hls.js gives up, neither for the network nor for the media.
HlsFails ==
    /\ \E e \in engines : e.kind = "hls" /\ OfThisPlayback(e)
    /\ media = "played"
    /\ Recover(timers)
    /\ UNCHANGED <<platform, ops>>

MpegtsFails ==
    /\ \E e \in engines : e.kind = "mpegts" /\ OfThisPlayback(e)
    /\ media = "played"
    /\ FallBack(timers)
    /\ UNCHANGED <<platform, ops>>

\* The element reports an error; one that has played ignores it unless it is
\* still at the start.
ElementFails ==
    /\ ~suppress
    /\ channel # None
    /\ engines # {}
    /\ Recover(timers)
    /\ UNCHANGED <<platform, ops>>

Media == MediaLoads \/ FragmentLoads \/ MediaPlays \/ HlsFails \/ MpegtsFails \/ ElementFails

-----------------------------------------------------------------------------
(* The callbacks.                                                          *)

\* Mutant: the callback does not look whether the player was closed.
RecoversAlways == TRUE

RecoversNow == channel # None

\* What a callback that finds it is too late leaves alone.
Nothing(t) ==
    /\ timers' = timers \ {t}
    /\ UNCHANGED <<target, retries, engines, media, suppress, requests, status>>

\* The timeouts of 25 and 30 s: callbacks of at most 2 s that were pending
\* when the playback began have run by then.
LongWaitOver == \A u \in timers : u.kind \in {"retry", "recover"} => u.fresh

\* 30 s after mpegts.js was attached.
FireLoadMpegts(t) ==
    /\ t.kind = "loadMpegts"
    /\ LongWaitOver
    /\ IF media # "played" /\ channel = t.channel /\ t.fresh
         THEN FallBack(timers \ {t})
         ELSE Nothing(t)

\* 25 s after HLS was attached; the generation is not looked at.
FireLoadHls(t) ==
    /\ t.kind = "loadHls"
    /\ LongWaitOver
    /\ IF media = "empty" /\ channel = t.channel
         THEN Recover(timers \ {t})
         ELSE Nothing(t)

\* 2 s after a request failed.
FireRetry(t) ==
    /\ t.kind = "retry"
    /\ IF channel = t.channel /\ t.fresh
         THEN /\ StartPlayback(timers \ {t}, channel, profile, FALSE, retries)
              /\ UNCHANGED <<channel, signal>>
         ELSE Nothing(t)

\* 1.5 s after recoverPlayback; whatever is played then is started again.
FireRecover(t) ==
    /\ t.kind = "recover"
    /\ IF RecoversNow
         THEN /\ StartPlayback(timers \ {t}, channel, profile, FALSE, retries)
              /\ UNCHANGED <<channel, signal>>
         ELSE Nothing(t)

\* 0.4 s after an engine was attached.
FireUnsuppress(t) ==
    /\ t.kind = "unsuppress"
    /\ suppress' = FALSE
    /\ timers' = timers \ {t}
    /\ UNCHANGED <<target, retries, engines, media, requests, status>>

Fire(t) ==
    /\ t \in timers
    /\ \/ FireLoadMpegts(t) \/ FireLoadHls(t) \/ FireRetry(t)
       \/ FireRecover(t) \/ FireUnsuppress(t)
    /\ UNCHANGED <<platform, ops>>

-----------------------------------------------------------------------------
Settles == \E r \in requests : Settle(r)
Fires == \E t \in timers : Fire(t)

Next == Viewer \/ Media \/ Settles \/ Fires

Spec == Init /\ [][Next]_vars

\* The browser runs callbacks, and requests end.  The viewer need not do
\* anything, and the media may stay silent.
Fairness == WF_vars(Settles) /\ WF_vars(Fires)

FairSpec == Spec /\ Fairness

-----------------------------------------------------------------------------
(* What must be true of the player.                                        *)

\* What works for the viewer belongs to the playback he sees: the engine, the
\* timeout that watches it (whose callback does not compare generations), the
\* retry that is not outdated and the request that is not aborted are of the
\* current channel and generation, and there is one engine, or one request, or
\* neither.
OnlyCurrentWorks ==
    /\ \A e \in engines : OfThisPlayback(e)
    /\ \A t \in timers : t.kind \in LoadTimers => t.fresh /\ t.channel = channel
    /\ \A t \in timers : t.kind = "retry" /\ t.fresh => t.channel = channel
    /\ \A r \in requests : r.fresh => r.channel = channel
    /\ engines # {} => \A r \in requests : ~r.fresh
    /\ \A d, e \in engines : d = e

\* The page shows that it is preparing a stream only while something is under
\* way that ends this: a request, the timeout of an engine, or a callback that
\* starts again.
PreparingEnds ==
    status = "preparing" =>
        \/ \E r \in requests : r.fresh
        \/ \E t \in timers : \/ t.kind = "recover"
                             \/ t.kind # "unsuppress" /\ t.fresh

\* A player that was closed stays closed and silent until the viewer plays
\* something, whatever requests and callbacks were pending.
ClosedStaysClosed ==
    [][channel = None /\ channel' = None => engines' = {} /\ status' = "hidden"
         /\ \A r \in requests' : ~r.fresh]_vars

\* A stream the page says it is preparing is eventually shown, or its failure
\* is reported, or it is closed, in a browser without mpegts.js: with it, the
\* fallback to HLS starts the count of tries anew and may go back to MPEG-TS.
ConcludesWithoutMpegts ==
    platform # "mpegts" =>
        (status = "preparing" ~> channel = None \/ media # "empty" \/ status \in Reports)
=============================================================================
