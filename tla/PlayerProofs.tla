---------------------------- MODULE PlayerProofs ----------------------------
(***************************************************************************)
(* The player of the web page, for every set of channels, every match and  *)
(* any number of things the viewer does.                                   *)
(***************************************************************************)
EXTENDS Player, TLAPS

-----------------------------------------------------------------------------
(* The inductive invariant.                                                *)

\* A callback that compares channels has one.
TimersKnow == \A t \in timers : t.kind \in LoadTimers \cup {"retry"} => t.channel \in Channels

TypeInv == TypeOK /\ TimersKnow

\* Nothing is loaded without an engine, and a page that is preparing although
\* something is loaded is about to recover.
MediaInv ==
    /\ media # "empty" => engines # {}
    /\ media # "empty" /\ status = "preparing" => \E t \in timers : t.kind = "recover"

\* A closed player is silent.
ClosedInv ==
    channel = None => /\ engines = {} /\ status = "hidden"
                      /\ \A r \in requests : ~r.fresh

IInv == TypeInv /\ OnlyCurrentWorks /\ PreparingEnds /\ MediaInv /\ ClosedInv

-----------------------------------------------------------------------------
(* What the actions share.                                                 *)

LEMMA OutdatedRequests ==
    ASSUME TypeOK
    PROVE  Outdated(requests) \subseteq Closure /\ \A r \in Outdated(requests) : ~r.fresh
  BY DEF TypeOK, Outdated, Closure

LEMMA OutdatedTimers ==
    ASSUME TypeInv, NEW pending \in SUBSET timers
    PROVE  LET kept == Outdated(WithoutLoadTimer(pending)) IN
             /\ kept \subseteq Timer
             /\ \A t \in kept : /\ t.kind \notin LoadTimers
                                /\ ~t.fresh
                                /\ t.kind = "retry" => t.channel \in Channels
  <1> DEFINE kept == Outdated(WithoutLoadTimer(pending))
  <1> SUFFICES ASSUME NEW t \in kept
               PROVE  /\ t \in Timer
                      /\ t.kind \notin LoadTimers
                      /\ ~t.fresh
                      /\ t.kind = "retry" => t.channel \in Channels
    OBVIOUS
  <1>1. PICK u \in pending : t = [u EXCEPT !.fresh = FALSE] /\ u.kind \notin LoadTimers
    BY DEF Outdated, WithoutLoadTimer
  <1>2. u \in Timer /\ (u.kind = "retry" => u.channel \in Channels)
    BY DEF TypeInv, TypeOK, TimersKnow
  <1> HIDE DEF kept
  <1>3. t \in Timer /\ t.kind = u.kind /\ t.channel = u.channel /\ ~t.fresh
    BY <1>1, <1>2 DEF Timer
  <1> QED  BY <1>1, <1>2, <1>3

\* A callback set now is well typed.
LEMMA SetTimers ==
    ASSUME NEW c \in Channels
    PROVE  /\ SetTimer("loadMpegts", c) \in Timer /\ SetTimer("loadHls", c) \in Timer
           /\ SetTimer("retry", c) \in Timer
           /\ Unsuppress \in Timer
           /\ \A n \in 0..MaxRecoveries : SetRecover(n) \in Timer
  BY DEF SetTimer, Unsuppress, SetRecover, Timer, TimerKinds, LoadTimers, MaxRecoveries

\* A playback that starts is the current one.
LEMMA StartInv ==
    ASSUME IInv, NEW pending \in SUBSET timers, NEW c \in Channels, NEW p \in Profiles,
           NEW forceHls \in BOOLEAN, NEW count \in 0..MaxRecoveries,
           StartPlayback(pending, c, p, forceHls, count),
           channel' = c, signal' \in 0..Len(Signals), platform' = platform,
           ops' \in 0..MaxOps
    PROVE  IInv'
  <1> DEFINE kept == Outdated(WithoutLoadTimer(pending))
  <1> DEFINE old == Outdated(requests)
  <1>1. old \subseteq Closure /\ \A r \in old : ~r.fresh
    BY OutdatedRequests DEF IInv, TypeInv
  <1>2. /\ kept \subseteq Timer
        /\ \A t \in kept : t.kind \notin LoadTimers /\ ~t.fresh /\ (t.kind = "retry" => t.channel \in Channels)
    BY OutdatedTimers DEF IInv
  <1>3. c # None  BY PlayerAssumption
  <1> HIDE DEF kept, old
  <1>4. CASE PlaysDirectly(p) /\ ~forceHls
    <2> DEFINE e == [kind |-> "mpegts", channel |-> c, fresh |-> TRUE]
    <2> DEFINE load == SetTimer("loadMpegts", c)
    <2>1. /\ engines' = {e} /\ requests' = old /\ timers' = kept \cup {load, Unsuppress}
          /\ media' = "empty" /\ status' = "preparing" /\ suppress' = TRUE
          /\ profile' = p /\ retries' = count
      BY <1>4 DEF StartPlayback, MpegtsEngine, kept, old
    <2>2. /\ e \in Engine /\ e.fresh /\ e.channel = c
          /\ load.kind = "loadMpegts" /\ load.channel = c /\ load.fresh
          /\ Unsuppress.kind = "unsuppress"
      BY DEF Engine, SetTimer, Unsuppress
    <2>3. load \in Timer /\ Unsuppress \in Timer  BY SetTimers
    <2> HIDE DEF e, load
    <2>4. TypeInv'
      BY <1>1, <1>2, <2>1, <2>2, <2>3 DEF IInv, TypeInv, TypeOK, TimersKnow, LoadTimers
    <2>5. OnlyCurrentWorks'
      BY <1>1, <1>2, <2>1, <2>2 DEF OnlyCurrentWorks, OfThisPlayback, LoadTimers
    <2>6. PreparingEnds' /\ MediaInv'
      BY <2>1, <2>2 DEF PreparingEnds, MediaInv
    <2> QED  BY <1>3, <2>4, <2>5, <2>6 DEF IInv, ClosedInv
  <1>5. CASE ~(PlaysDirectly(p) /\ ~forceHls)
    <2> DEFINE r == [channel |-> c, fresh |-> TRUE]
    <2>1. /\ engines' = {} /\ requests' = old \cup {r} /\ timers' = kept
          /\ media' = "empty" /\ status' = "preparing" /\ suppress' = TRUE
          /\ profile' = p /\ retries' = count
      BY <1>5 DEF StartPlayback, kept, old
    <2>2. r \in Closure /\ r.fresh /\ r.channel = c  BY DEF Closure
    <2> HIDE DEF r
    <2>4. TypeInv'
      BY <1>1, <1>2, <2>1, <2>2 DEF IInv, TypeInv, TypeOK, TimersKnow, LoadTimers
    <2>5. OnlyCurrentWorks'
      BY <1>1, <1>2, <2>1, <2>2 DEF OnlyCurrentWorks, OfThisPlayback
    <2>6. PreparingEnds' /\ MediaInv'
      BY <2>1, <2>2 DEF PreparingEnds, MediaInv
    <2> QED  BY <1>3, <2>4, <2>5, <2>6 DEF IInv, ClosedInv
  <1> QED  BY <1>4, <1>5

\* A playback that recovers, or gives up.
LEMMA RecoverInv ==
    ASSUME IInv, NEW pending \in SUBSET timers, Recover(pending), channel # None,
           UNCHANGED <<platform, ops>>
    PROVE  IInv'
  <1>1. UNCHANGED <<channel, profile, signal, requests>>  BY DEF Recover, target
  <1>2. TypeOK /\ TimersKnow  BY DEF IInv, TypeInv
  <1>3. CASE TriesLeft
    <2> DEFINE t == SetRecover(retries + 1)
    <2>1. /\ retries' = retries + 1 /\ status' = "preparing"
          /\ timers' = pending \cup {t} /\ UNCHANGED <<engines, media, suppress>>
      BY <1>3 DEF Recover
    <2>2. retries + 1 \in 0..MaxRecoveries
      BY <1>2, <1>3 DEF TypeOK, TriesLeft, MaxRecoveries
    <2>3. t \in Timer /\ t.kind = "recover"
      BY <2>2 DEF SetRecover, Timer, TimerKinds
    <2> HIDE DEF t
    <2>4. TypeInv'
      BY <1>1, <1>2, <2>1, <2>2, <2>3 DEF TypeInv, TypeOK, TimersKnow, LoadTimers
    <2>5. OnlyCurrentWorks'
      BY <1>1, <2>1, <2>3 DEF IInv, OnlyCurrentWorks, OfThisPlayback, LoadTimers
    <2>6. PreparingEnds' /\ MediaInv'
      BY <2>1, <2>3 DEF IInv, PreparingEnds, MediaInv
    <2> QED  BY <1>1, <2>4, <2>5, <2>6 DEF IInv, ClosedInv
  <1>4. CASE ~TriesLeft /\ HasNextSignal
    <2>1. /\ retries' = retries /\ status' = "failover"
          /\ timers' = pending /\ UNCHANGED <<engines, media, suppress>>
      BY <1>4 DEF Recover
    <2>2. TypeInv'  BY <1>1, <1>2, <2>1 DEF TypeInv, TypeOK, TimersKnow, Reports
    <2>3. OnlyCurrentWorks'
      BY <1>1, <2>1 DEF IInv, OnlyCurrentWorks, OfThisPlayback
    <2>4. PreparingEnds' /\ MediaInv'  BY <2>1 DEF IInv, PreparingEnds, MediaInv
    <2> QED  BY <1>1, <2>2, <2>3, <2>4 DEF IInv, ClosedInv
  <1>5. CASE ~TriesLeft /\ ~HasNextSignal
    <2>1. /\ retries' = retries /\ status' = "failed"
          /\ timers' = WithoutLoadTimer(pending)
          /\ engines' = {} /\ media' = "empty" /\ suppress' = TRUE
      BY <1>5 DEF Recover, ResetEngine
    <2>2. timers' \subseteq timers  BY <2>1 DEF WithoutLoadTimer
    <2>3. TypeInv'  BY <1>1, <1>2, <2>1, <2>2 DEF TypeInv, TypeOK, TimersKnow, Reports
    <2>4. OnlyCurrentWorks'
      BY <1>1, <2>1, <2>2 DEF IInv, OnlyCurrentWorks, OfThisPlayback
    <2>5. PreparingEnds' /\ MediaInv'  BY <2>1 DEF PreparingEnds, MediaInv
    <2> QED  BY <1>1, <2>3, <2>4, <2>5 DEF IInv, ClosedInv
  <1> QED  BY <1>3, <1>4, <1>5

-----------------------------------------------------------------------------
(* The actions.                                                            *)

LEMMA ViewerInv ==
    ASSUME IInv, Viewer
    PROVE  IInv'
  <1>1. TypeOK /\ TimersKnow  BY DEF IInv, TypeInv
  <1>2. ASSUME ViewerActs PROVE platform' = platform /\ ops' \in 0..MaxOps
    BY <1>1, <1>2, PlayerAssumption DEF ViewerActs, TypeOK
  <1>3. 0 \in 0..MaxRecoveries /\ timers \in SUBSET timers  BY DEF MaxRecoveries
  <1>4. ASSUME NEW c \in Channels, PlayChannel(c) PROVE IInv'
    <2>1. PICK p \in Profiles : StartPlayback(timers, c, p, FALSE, 0)
      BY <1>4 DEF PlayChannel
    <2> QED  BY <1>1, <1>2, <1>3, <1>4, <2>1, StartInv DEF PlayChannel, TypeOK
  <1>5. ASSUME NEW i \in 1..Len(Signals), PlaySignal(i) PROVE IInv'
    <2>1. PICK p \in Profiles : StartPlayback(timers, Signals[i], p, FALSE, 0)
      BY <1>5 DEF PlaySignal
    <2>2. Signals[i] \in Channels  BY PlayerAssumption
    <2>3. i \in 0..Len(Signals)  BY PlayerAssumption
    <2>4. signal' = i /\ channel' = Signals[i] /\ ViewerActs  BY <1>5 DEF PlaySignal
    <2> QED  BY <1>2, <1>3, <2>1, <2>2, <2>3, <2>4, StartInv
  <1>6. CASE PlayNextSignal
    <2>1. signal + 1 \in 1..Len(Signals)
      BY <1>1, <1>6, PlayerAssumption DEF PlayNextSignal, HasNextSignal, TypeOK
    <2> QED  BY <1>5, <1>6, <2>1 DEF PlayNextSignal
  <1>7. ASSUME NEW p \in Profiles, channel # None, ViewerActs,
               StartPlayback(timers, channel, p, FALSE, 0), UNCHANGED <<channel, signal>>
        PROVE  IInv'
    BY <1>1, <1>2, <1>3, <1>7, StartInv DEF TypeOK
  <1>8. CASE RetryByHand  BY <1>1, <1>7, <1>8 DEF RetryByHand, TypeOK
  <1>9. ASSUME NEW p \in Profiles, ChangeQuality(p) PROVE IInv'
    BY <1>7, <1>9 DEF ChangeQuality
  <1>10. CASE Close
    <2>1. /\ channel' = None /\ profile' = "original" /\ signal' = 0 /\ retries' = retries
          /\ engines' = {} /\ media' = "empty" /\ suppress' = TRUE /\ status' = "hidden"
          /\ requests' = Outdated(requests) /\ timers' = Outdated(WithoutLoadTimer(timers))
      BY <1>10 DEF Close, ResetEngine
    <2>2. platform' = platform /\ ops' \in 0..MaxOps  BY <1>2, <1>10 DEF Close
    <2>3. requests' \subseteq Closure /\ \A r \in requests' : ~r.fresh
      BY <1>1, <2>1, OutdatedRequests
    <2>4. /\ timers' \subseteq Timer
          /\ \A t \in timers' :
               t.kind \notin LoadTimers /\ ~t.fresh /\ (t.kind = "retry" => t.channel \in Channels)
      BY <2>1, OutdatedTimers DEF IInv
    <2>5. TypeOK'
      BY <1>1, <2>1, <2>2, <2>3, <2>4, PlayerAssumption DEF TypeOK, Profiles
    <2>6. TimersKnow'  BY <2>4 DEF TimersKnow
    <2>7. OnlyCurrentWorks'  BY <2>1, <2>3, <2>4 DEF OnlyCurrentWorks, OfThisPlayback
    <2> QED
      BY <2>1, <2>3, <2>5, <2>6, <2>7
         DEF IInv, TypeInv, PreparingEnds, MediaInv, ClosedInv
  <1> QED  BY <1>4, <1>5, <1>6, <1>8, <1>9, <1>10 DEF Viewer

LEMMA SettleInv ==
    ASSUME IInv, NEW r \in requests, Settle(r)
    PROVE  IInv'
  <1>1. TypeOK /\ TimersKnow /\ OnlyCurrentWorks /\ PreparingEnds /\ MediaInv /\ ClosedInv
    BY DEF IInv, TypeInv
  <1>2. requests' = requests \ {r} /\ UNCHANGED <<platform, ops>>  BY DEF Settle
  <1>3. r \in Closure  BY <1>1 DEF TypeOK
  <1>4. CASE ~r.fresh
    <2>1. UNCHANGED <<target, retries, engines, media, suppress, timers, status>>
      BY <1>4 DEF Settle, Accepts
    <2> QED
      BY <1>1, <1>2, <1>4, <2>1
         DEF IInv, TypeInv, TypeOK, TimersKnow, OnlyCurrentWorks, OfThisPlayback,
             PreparingEnds, MediaInv, ClosedInv, target
  <1>5. CASE r.fresh
    <2>1. /\ r.channel = channel /\ channel \in Channels /\ engines = {} /\ media = "empty"
      BY <1>1, <1>3, <1>5 DEF OnlyCurrentWorks, MediaInv, Closure
    <2>2. channel # None  BY <2>1, PlayerAssumption
    <2>3. \A q \in requests' : ~q.fresh
      BY <1>1, <1>2, <1>3, <1>5, <2>1 DEF OnlyCurrentWorks, TypeOK, Closure
    <2>4. CASE Refuse(r)
      <3> DEFINE t == SetTimer("retry", channel)
      <3>1. t \in Timer /\ t.kind = "retry" /\ t.channel = channel /\ t.fresh
        BY <2>1, SetTimers DEF SetTimer
      <3> HIDE DEF t
      <3>2. /\ UNCHANGED <<channel, profile, signal, engines, media, suppress>>
            /\ \/ /\ retries' = retries + 1 /\ retries < MaxRequestRetries
                  /\ status' = "preparing" /\ timers' = timers \cup {t}
               \/ /\ retries' = retries /\ timers' = timers
                  /\ status' \in Reports
        BY <2>1, <2>4 DEF Refuse, target, t, Reports
      <3>3. retries' \in 0..MaxRecoveries
        BY <1>1, <3>2 DEF TypeOK, MaxRequestRetries, MaxRecoveries
      <3>4. TypeOK'  BY <1>1, <1>2, <3>1, <3>2, <3>3 DEF TypeOK
      <3>5. TimersKnow'  BY <1>1, <2>1, <3>1, <3>2 DEF TimersKnow
      <3>6. OnlyCurrentWorks'
        BY <1>1, <1>2, <2>1, <3>1, <3>2 DEF OnlyCurrentWorks, LoadTimers
      <3>7. PreparingEnds' /\ MediaInv'
        BY <2>1, <3>1, <3>2 DEF PreparingEnds, MediaInv, Reports
      <3> QED  BY <2>2, <3>2, <3>4, <3>5, <3>6, <3>7 DEF IInv, TypeInv, ClosedInv
    <2>5. CASE Attach(r)
      <3> DEFINE load == SetTimer("loadHls", channel)
      <3>1. load \in Timer /\ load.kind = "loadHls" /\ load.channel = channel /\ load.fresh
        BY <2>1, SetTimers DEF SetTimer
      <3>2. Unsuppress \in Timer /\ Unsuppress.kind = "unsuppress"
        BY <2>1, SetTimers DEF Unsuppress
      <3> HIDE DEF load
      <3>3. /\ UNCHANGED <<channel, profile, signal, retries, media, suppress>>
            /\ timers' = WithoutLoadTimer(timers) \cup {load} \cup LetsErrorsThrough
            /\ LetsErrorsThrough \subseteq {Unsuppress}
            /\ status' \in {"preparing", "hidden", "failed"}
        BY <2>1, <2>5 DEF Attach, target, AttachTimers, LetsErrorsThrough, load
      <3> DEFINE hls == [kind |-> "hls", channel |-> channel, fresh |-> TRUE]
      <3> DEFINE native == [kind |-> "native", channel |-> channel, fresh |-> TRUE]
      <3>4. /\ hls \in Engine /\ hls.fresh /\ hls.channel = channel
            /\ native \in Engine /\ native.fresh /\ native.channel = channel
        BY <2>1 DEF Engine
      <3>5. engines' \in {{}, {hls}, {native}}
        BY <1>3, <1>5, <2>1, <2>5 DEF Attach, Closure
      <3> HIDE DEF hls, native
      <3>6. TypeOK'
        BY <1>1, <1>2, <3>1, <3>2, <3>3, <3>4, <3>5
           DEF TypeOK, WithoutLoadTimer, Reports
      <3>7. TimersKnow'
        BY <1>1, <2>1, <3>1, <3>2, <3>3 DEF TimersKnow, WithoutLoadTimer, LoadTimers
      <3>8. OnlyCurrentWorks'
        <4>1. \A e \in engines' : e.fresh /\ e.channel = channel'
          BY <3>3, <3>4, <3>5
        <4>2. \A t \in timers' : t.kind \in LoadTimers => t.fresh /\ t.channel = channel'
          BY <3>1, <3>2, <3>3 DEF WithoutLoadTimer, LoadTimers
        <4>3. \A d, e \in engines' : d = e  BY <3>5
        <4>4. \A t \in timers' : t.kind = "retry" /\ t.fresh => t.channel = channel'
          BY <1>1, <3>1, <3>2, <3>3 DEF OnlyCurrentWorks, WithoutLoadTimer
        <4> QED  BY <2>3, <4>1, <4>2, <4>3, <4>4 DEF OnlyCurrentWorks, OfThisPlayback
      <3>9. PreparingEnds' /\ MediaInv'
        BY <2>1, <3>1, <3>3 DEF PreparingEnds, MediaInv
      <3> QED  BY <2>2, <3>3, <3>6, <3>7, <3>8, <3>9 DEF IInv, TypeInv, ClosedInv
    <2> QED  BY <1>5, <2>4, <2>5 DEF Settle, Accepts
  <1> QED  BY <1>4, <1>5

LEMMA MediaStepInv ==
    ASSUME IInv, Media
    PROVE  IInv'
  <1>1. TypeOK /\ TimersKnow /\ OnlyCurrentWorks /\ PreparingEnds /\ MediaInv /\ ClosedInv
    BY DEF IInv, TypeInv
  <1>2. timers \in SUBSET timers /\ 0 \in 0..MaxRecoveries  BY DEF MaxRecoveries
  <1>3. CASE MediaLoads \/ FragmentLoads
    <2>1. /\ UNCHANGED <<platform, target, retries, engines, suppress, requests, timers, ops>>
          /\ engines # {} /\ status' = "hidden" /\ media' \in {media, "loaded"}
      BY <1>3 DEF MediaLoads, FragmentLoads
    <2>2. TypeInv'  BY <1>1, <2>1 DEF TypeInv, TypeOK, TimersKnow, target
    <2>3. OnlyCurrentWorks'  BY <1>1, <2>1 DEF OnlyCurrentWorks, OfThisPlayback, target
    <2> QED
      BY <1>1, <2>1, <2>2, <2>3 DEF IInv, PreparingEnds, MediaInv, ClosedInv, target
  <1>4. CASE MediaPlays
    <2>1. /\ UNCHANGED <<platform, target, retries, engines, suppress, requests, ops>>
          /\ engines # {} /\ status' = "hidden" /\ media' = "played"
          /\ timers' \subseteq timers
      BY <1>4 DEF MediaPlays, WithoutLoadTimer
    <2>2. TypeInv'  BY <1>1, <2>1 DEF TypeInv, TypeOK, TimersKnow, target
    <2>3. OnlyCurrentWorks'  BY <1>1, <2>1 DEF OnlyCurrentWorks, OfThisPlayback, target
    <2> QED
      BY <1>1, <2>1, <2>2, <2>3 DEF IInv, PreparingEnds, MediaInv, ClosedInv, target
  <1>5. CASE HlsFails
    <2>1. channel # None
      BY <1>1, <1>5 DEF HlsFails, ClosedInv
    <2> QED  BY <1>2, <1>5, <2>1, RecoverInv DEF HlsFails
  <1>6. CASE ElementFails
    BY <1>2, <1>6, RecoverInv DEF ElementFails
  <1>7. CASE MpegtsFails
    <2>1. channel \in Channels
      BY <1>1, <1>7 DEF MpegtsFails, ClosedInv, TypeOK
    <2> QED
      BY <1>1, <1>2, <1>7, <2>1, StartInv DEF MpegtsFails, FallBack, TypeOK
  <1> QED  BY <1>3, <1>4, <1>5, <1>6, <1>7 DEF Media

\* A callback that finds it is too late.
LEMMA NothingInv ==
    ASSUME IInv, NEW t \in timers, Nothing(t), UNCHANGED <<platform, ops>>,
           status = "preparing" =>
               \/ ~(t.kind = "recover" \/ (t.kind # "unsuppress" /\ t.fresh))
               \/ \E r \in requests : r.fresh
               \/ \E u \in timers \ {t} : \/ u.kind = "recover"
                                          \/ u.kind # "unsuppress" /\ u.fresh,
           media = "empty" \/ t.kind # "recover" \/ status # "preparing"
    PROVE  IInv'
  <1>1. TypeOK /\ TimersKnow /\ OnlyCurrentWorks /\ PreparingEnds /\ MediaInv /\ ClosedInv
    BY DEF IInv, TypeInv
  <1>2. /\ UNCHANGED <<channel, profile, signal, retries, engines, media, suppress,
                       requests, status>>
        /\ timers' = timers \ {t}
    BY DEF Nothing, target
  <1>3. TypeInv'  BY <1>1, <1>2 DEF TypeInv, TypeOK, TimersKnow
  <1>4. OnlyCurrentWorks'  BY <1>1, <1>2 DEF OnlyCurrentWorks, OfThisPlayback
  <1>5. PreparingEnds'  BY <1>1, <1>2 DEF PreparingEnds
  <1>6. MediaInv'  BY <1>1, <1>2 DEF MediaInv
  <1> QED  BY <1>1, <1>2, <1>3, <1>4, <1>5, <1>6 DEF IInv, ClosedInv

LEMMA FireInv ==
    ASSUME IInv, NEW t \in timers, Fire(t)
    PROVE  IInv'
  <1>1. TypeOK /\ TimersKnow /\ OnlyCurrentWorks /\ PreparingEnds /\ MediaInv /\ ClosedInv
    BY DEF IInv, TypeInv
  <1>2. UNCHANGED <<platform, ops>>  BY DEF Fire
  <1>3. timers \ {t} \in SUBSET timers /\ 0 \in 0..MaxRecoveries  BY DEF MaxRecoveries
  <1>4. ASSUME NEW c \in Channels, NEW forceHls \in BOOLEAN, NEW count \in 0..MaxRecoveries,
               StartPlayback(timers \ {t}, c, profile, forceHls, count),
               channel = c, UNCHANGED <<channel, signal>>
        PROVE  IInv'
    BY <1>1, <1>2, <1>3, <1>4, StartInv DEF TypeOK
  <1>5. channel # None => channel \in Channels  BY <1>1 DEF TypeOK
  <1>6. t.kind \in LoadTimers \cup {"retry"} => t.channel \in Channels /\ t.channel # None
    BY <1>1, PlayerAssumption DEF TimersKnow
  <1>7. CASE FireLoadMpegts(t)
    <2>1. t.kind = "loadMpegts" /\ t.fresh /\ t.channel = channel
      BY <1>1, <1>7 DEF FireLoadMpegts, OnlyCurrentWorks, LoadTimers
    <2>2. CASE media # "played"
      <3>1. FallBack(timers \ {t})  BY <1>7, <2>1, <2>2 DEF FireLoadMpegts
      <3>2. channel \in Channels  BY <1>6, <2>1 DEF LoadTimers
      <3> QED  BY <1>3, <1>4, <3>1, <3>2 DEF FallBack
    <2>3. CASE media = "played"
      <3>1. Nothing(t)  BY <1>7, <2>3 DEF FireLoadMpegts
      <3>2. status = "preparing" => \E u \in timers \ {t} : u.kind = "recover"
        BY <1>1, <2>1, <2>3 DEF MediaInv
      <3> QED  BY <1>2, <2>1, <3>1, <3>2, NothingInv
    <2> QED  BY <2>2, <2>3
  <1>8. CASE FireLoadHls(t)
    <2>1. t.kind = "loadHls" /\ t.channel = channel
      BY <1>1, <1>8 DEF FireLoadHls, OnlyCurrentWorks, LoadTimers
    <2>2. channel # None  BY <1>6, <2>1 DEF LoadTimers
    <2>3. CASE media = "empty"
      <3>1. Recover(timers \ {t})  BY <1>8, <2>1, <2>3 DEF FireLoadHls
      <3> QED  BY <1>2, <1>3, <2>2, <3>1, RecoverInv
    <2>4. CASE media # "empty"
      <3>1. Nothing(t)  BY <1>8, <2>4 DEF FireLoadHls
      <3>2. status = "preparing" => \E u \in timers \ {t} : u.kind = "recover"
        BY <1>1, <2>1, <2>4 DEF MediaInv
      <3> QED  BY <1>2, <2>1, <3>1, <3>2, NothingInv
    <2> QED  BY <2>3, <2>4
  <1>9. CASE FireRetry(t)
    <2>1. t.kind = "retry"  BY <1>9 DEF FireRetry
    <2>2. CASE channel = t.channel /\ t.fresh
      <3>1. channel \in Channels /\ retries \in 0..MaxRecoveries
        BY <1>1, <1>6, <2>1, <2>2 DEF TypeOK
      <3> QED  BY <1>4, <1>9, <2>2, <3>1 DEF FireRetry
    <2>3. CASE ~(channel = t.channel /\ t.fresh)
      <3>1. Nothing(t)  BY <1>9, <2>3 DEF FireRetry
      <3>2. ~t.fresh  BY <1>1, <2>1, <2>3 DEF OnlyCurrentWorks
      <3> QED  BY <1>2, <2>1, <3>1, <3>2, NothingInv
    <2> QED  BY <2>2, <2>3
  <1>10. CASE FireRecover(t)
    <2>1. t.kind = "recover"  BY <1>10 DEF FireRecover
    <2>2. CASE channel # None
      <3>1. retries \in 0..MaxRecoveries  BY <1>1 DEF TypeOK
      <3> QED  BY <1>4, <1>5, <1>10, <2>2, <3>1 DEF FireRecover, RecoversNow
    <2>3. CASE channel = None
      <3>1. Nothing(t)  BY <1>10, <2>3 DEF FireRecover, RecoversNow
      <3>2. status # "preparing"  BY <1>1, <2>3 DEF ClosedInv
      <3> QED  BY <1>2, <3>1, <3>2, NothingInv
    <2> QED  BY <2>2, <2>3
  <1>11. CASE FireUnsuppress(t)
    <2>1. /\ t.kind = "unsuppress" /\ timers' = timers \ {t} /\ suppress' = FALSE
          /\ UNCHANGED <<target, retries, engines, media, requests, status>>
      BY <1>11 DEF FireUnsuppress
    <2>2. TypeInv'  BY <1>1, <1>2, <2>1 DEF TypeInv, TypeOK, TimersKnow, target
    <2>3. OnlyCurrentWorks'  BY <1>1, <2>1 DEF OnlyCurrentWorks, OfThisPlayback, target
    <2>4. PreparingEnds' /\ MediaInv' /\ ClosedInv'
      BY <1>1, <2>1 DEF PreparingEnds, MediaInv, ClosedInv, target
    <2> QED  BY <2>2, <2>3, <2>4 DEF IInv
  <1> QED  BY <1>7, <1>8, <1>9, <1>10, <1>11 DEF Fire

-----------------------------------------------------------------------------
(* The theorems.                                                           *)

LEMMA InvInit == Init => IInv
  <1> SUFFICES ASSUME Init PROVE IInv
    OBVIOUS
  <1>1. 0 \in 0..Len(Signals) /\ 0 \in 0..MaxOps /\ 0 \in 0..MaxRecoveries
    BY PlayerAssumption DEF MaxRecoveries
  <1>2. TypeOK  BY <1>1 DEF Init, TypeOK, Profiles
  <1> QED
    BY <1>2
       DEF Init, IInv, TypeInv, TimersKnow, OnlyCurrentWorks, PreparingEnds, MediaInv,
           ClosedInv

LEMMA InvStep == IInv /\ [Next]_vars => IInv'
  <1> SUFFICES ASSUME IInv, [Next]_vars PROVE IInv'
    OBVIOUS
  <1>1. CASE Viewer  BY <1>1, ViewerInv
  <1>2. CASE Media  BY <1>2, MediaStepInv
  <1>3. CASE Settles  BY <1>3, SettleInv DEF Settles
  <1>4. CASE Fires  BY <1>4, FireInv DEF Fires, Fire
  <1>5. CASE UNCHANGED vars
    BY <1>5
       DEF IInv, TypeInv, TypeOK, TimersKnow, OnlyCurrentWorks, OfThisPlayback,
           PreparingEnds, MediaInv, ClosedInv, vars, target
  <1> QED  BY <1>1, <1>2, <1>3, <1>4, <1>5 DEF Next

\* The inductive invariant holds throughout.
THEOREM Invariance == Spec => []IInv
  BY InvInit, InvStep, PTL DEF Spec

\* The type invariant: the retries of a playback never exceed the two tries a
\* failed stream and the one a failed request are allowed, in any order.
THEOREM TypeCorrect == Spec => []TypeOK
  <1>1. IInv => TypeOK  BY DEF IInv, TypeInv
  <1> QED  BY <1>1, Invariance, PTL

\* However often the viewer zaps, closes, retries or changes quality, whatever
\* answers and callbacks come late, the engine, its timeout and the request
\* that still counts are those of what he asked for last.
THEOREM OnlyCurrentWorksCorrect == Spec => []OnlyCurrentWorks
  <1>1. IInv => OnlyCurrentWorks  BY DEF IInv
  <1> QED  BY <1>1, Invariance, PTL

\* The page never shows that it is preparing a stream with nothing under way.
THEOREM PreparingEndsCorrect == Spec => []PreparingEnds
  <1>1. IInv => PreparingEnds  BY DEF IInv
  <1> QED  BY <1>1, Invariance, PTL

\* No late answer, timeout or recovery opens a player that was closed.
THEOREM ClosedStaysClosedCorrect == Spec => ClosedStaysClosed
  <1>1. IInv' =>
          (channel = None /\ channel' = None =>
             engines' = {} /\ status' = "hidden" /\ \A r \in requests' : ~r.fresh)
    BY DEF IInv, ClosedInv
  <1> QED  BY <1>1, Invariance, PTL DEF ClosedStaysClosed
=============================================================================
