---------------------------- MODULE AgendaGuide ----------------------------
(***************************************************************************)
(* What the sports agenda (agenda_service.py) says: how a page of the TV   *)
(* guide becomes a document, how its events are matched with the channels  *)
(* of the catalogue, and what the agenda, its M3U playlist and the XMLTV   *)
(* guide list at a given minute.  Nothing here has state.                  *)
(*                                                                         *)
(* Time is in minutes, day and hour taken together.  The hour of an event  *)
(* is a text that two parsers read: _calculate_live_status (when), which   *)
(* splits it at the colon and takes '21:5', and generate_xmltv (printed),  *)
(* which searches it for digits and takes '21:30h'.  Either may fail where *)
(* the other does not.  Names are abstracted to the tokens of the matcher. *)
(***************************************************************************)
EXTENDS Integers, Sequences, FiniteSets

CONSTANTS
    Streams,        \* stream ids a catalogue may hold
    GuideNames,     \* channel names the TV guide uses
    Excluded,       \* those without a stream: EXCLUDED_CHANNELS, GENERIC_FILTERS
    Equivalences,   \* the names each guide name is searched under
    TokensOf,       \* the tokens of the name of each stream
    TvgIds,         \* tvg-id values
    TvgIdOf,        \* the tvg_id of each stream, or NoTvg
    Pages,          \* the pages the guide site may serve
    NoTime,         \* an hour the parser at hand cannot read
    NoTvg           \* a channel without tvg_id

\* The dial number of a name and the words left once it is lower-cased and
\* stripped of quality, decoration and provenance.
Tokens == [words: SUBSET STRING, dial: Nat]

Nameless == [words |-> {}, dial |-> 0]

\* A row of the page: complete when it has an hour and a title.
Row == [when: Nat \cup {NoTime}, printed: Nat \cup {NoTime},
        complete: BOOLEAN, channels: SUBSET GuideNames]

Event == [when: Nat \cup {NoTime}, printed: Nat \cup {NoTime},
          channels: SUBSET GuideNames]

ASSUME GuideAssumption ==
    /\ Excluded \subseteq GuideNames
    /\ NoTime \notin Nat /\ NoTvg \notin TvgIds
    /\ TvgIds \cap Streams = {}
    /\ Equivalences \in [GuideNames -> SUBSET Tokens]
    /\ TokensOf \in [Streams -> Tokens]
    /\ TvgIdOf \in [Streams -> TvgIds \cup {NoTvg}]
    /\ Pages \subseteq Seq(Row)

-----------------------------------------------------------------------------
(* parse_agenda_html.                                                      *)

\* The channels of a row worth searching for.
Shown(row) == row.channels \ Excluded

\* A row without hour, title or usable channel is dropped.
IsEvent(row) == row.complete /\ Shown(row) # {}

EventOf(row) == [when |-> row.when, printed |-> row.printed, channels |-> Shown(row)]

ParseAgenda(page) ==
    LET rows == SelectSeq(page, IsEvent)
    IN  [i \in DOMAIN rows |-> EventOf(rows[i])]

-----------------------------------------------------------------------------
(* match_channel_to_catalog.                                               *)

\* A stream fits a name with the same dial number when it has its words.
Fits(target, stream) ==
    /\ target # Nameless
    /\ target.dial = TokensOf[stream].dial
    /\ target.words \subseteq TokensOf[stream].words

Matches(name, catalog) ==
    {s \in catalog : \E target \in Equivalences[name] : Fits(target, s)}

StreamsOf(event, catalog) == UNION {Matches(n, catalog) : n \in event.channels}

-----------------------------------------------------------------------------
(* _calculate_live_status and the lists of get_agenda at a minute.         *)

StartsIn(event, minute) ==
    IF event.when = NoTime THEN 9999 ELSE event.when - minute

IsLive(event, minute) == event.when # NoTime /\ StartsIn(event, minute) \in -135..5

\* Mutant: finished events go after two hours.
ListedTwoHours(doc, minute) ==
    {i \in DOMAIN doc : StartsIn(doc[i], minute) >= -120}

\* The events of the agenda: those that began over three hours ago are gone.
Listed(doc, minute) == {i \in DOMAIN doc : StartsIn(doc[i], minute) >= -180}

LiveEvents(doc, minute) ==
    {i \in Listed(doc, minute) : IsLive(doc[i], minute)}

Available(doc, minute, catalog) ==
    {i \in Listed(doc, minute) : StreamsOf(doc[i], catalog) # {}}

-----------------------------------------------------------------------------
(* generate_agenda_m3u: one entry per stream of an event from three hours  *)
(* before to two hours ahead, or live.                                     *)

PlaylistEvents(doc, minute, catalog, liveOnly) ==
    {i \in Available(doc, minute, catalog) :
       /\ liveOnly => IsLive(doc[i], minute)
       /\ StartsIn(doc[i], minute) \in -180..120 \/ IsLive(doc[i], minute)}

AgendaM3u(doc, minute, catalog, liveOnly) ==
    UNION {{<<i, s>> : s \in StreamsOf(doc[i], catalog)} :
             i \in PlaylistEvents(doc, minute, catalog, liveOnly)}

-----------------------------------------------------------------------------
(* generate_xmltv: a programme under the stream id for every event of the  *)
(* stream, and one under its tvg-id when the id is met for the first time. *)

Timed(doc, minute) == {i \in Listed(doc, minute) : doc[i].printed # NoTime}

TvgIdsIn(event, catalog) ==
    {TvgIdOf[s] : s \in StreamsOf(event, catalog)} \ {NoTvg}

NewTvgIds(doc, minute, catalog, i) ==
    {id \in TvgIdsIn(doc[i], catalog) :
       \A j \in Timed(doc, minute) : j < i => id \notin TvgIdsIn(doc[j], catalog)}

Programmes(doc, minute, catalog) ==
    UNION {{<<i, id>> : id \in StreamsOf(doc[i], catalog)
                                 \cup NewTvgIds(doc, minute, catalog, i)} :
             i \in Timed(doc, minute)}
=============================================================================
