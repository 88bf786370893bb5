---------------------------- MODULE M3uPlaylist ----------------------------
(***************************************************************************)
(* parse_m3u of source_validator.py: the channels of a playlist, line by   *)
(* line.  A line is what the parser tells apart: its kind, and the stream  *)
(* or the title it carries.                                                *)
(***************************************************************************)
EXTENDS Naturals, Sequences

CONSTANTS
    Streams,      \* channel identities <<identifier_type, stream_id>>
    Titles,       \* the attributes and name of an #EXTINF line
    NoTitle       \* no #EXTINF pending: not a title

\* header: #EXTM3U; comment: any other line that begins with #; opaque: a URL
\* without id, content_id or infohash.
Lines ==
    [kind: {"blank", "header", "comment", "opaque"}]
    \cup [kind: {"extinf"}, title: Titles]
    \cup [kind: {"link"}, stream: Streams]

Channel == [stream: Streams, title: Titles]

Listed(channels) == {channels[i].stream : i \in DOMAIN channels}

Start == [title |-> NoTitle, channels |-> << >>]

\* Mutant: a line that is no stream leaves its #EXTINF to the next one.
ReadLineKeepingTitle(s, line) ==
    CASE line.kind = "extinf" -> [s EXCEPT !.title = line.title]
      [] line.kind = "link" /\ s.title # NoTitle ->
           [title |-> NoTitle,
            channels |-> IF line.stream \in Listed(s.channels) THEN s.channels
                         ELSE Append(s.channels,
                                [stream |-> line.stream, title |-> s.title])]
      [] OTHER -> s

\* A URL takes up the pending #EXTINF, whether or not it adds a channel; blank
\* lines and comments leave it pending.
ReadLine(s, line) ==
    CASE line.kind = "extinf" -> [s EXCEPT !.title = line.title]
      [] line.kind = "link" /\ s.title # NoTitle ->
           [title |-> NoTitle,
            channels |-> IF line.stream \in Listed(s.channels) THEN s.channels
                         ELSE Append(s.channels,
                                [stream |-> line.stream, title |-> s.title])]
      [] line.kind = "opaque" -> [s EXCEPT !.title = NoTitle]
      [] OTHER -> s

\* The lines are read in order, from the first on.
ParseM3u(lines) ==
    LET Reading[n \in 0..Len(lines)] ==
            IF n = 0 THEN Start ELSE ReadLine(Reading[n - 1], lines[n])
    IN  Reading[Len(lines)].channels

\* The first line that is not blank is #EXTM3U.
HasHeader(lines) ==
    \E i \in DOMAIN lines :
        /\ lines[i].kind = "header"
        /\ \A j \in 1..(i - 1) : lines[j].kind = "blank"

-----------------------------------------------------------------------------
(* What a playlist means, said without the loop.                           *)

\* Line i announces line j: nothing between them is another #EXTINF or a URL.
Announces(lines, i, j) ==
    /\ i < j /\ lines[i].kind = "extinf" /\ lines[j].kind = "link"
    /\ \A k \in (i + 1)..(j - 1) : lines[k].kind \in {"blank", "header", "comment"}

\* The channels of a playlist: every announced stream, with the title that
\* announces it first.
Announced(lines) ==
    {c \in Channel :
       \E i, j \in DOMAIN lines :
         /\ Announces(lines, i, j)
         /\ c = [stream |-> lines[j].stream, title |-> lines[i].title]
         /\ \A k, l \in DOMAIN lines :
              Announces(lines, k, l) /\ lines[l].stream = c.stream => j <= l}
=============================================================================
