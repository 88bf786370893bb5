--------------------------- MODULE SourceValidator ---------------------------
(***************************************************************************)
(* validate() of source_validator.py, called again and again for one       *)
(* source: a MylinkPaste reference, walked as Mylinkpaste says, or a       *)
(* playlist, downloaded and parsed as M3uPlaylist says.  A valid result    *)
(* replaces the snapshot of the source, together with the hash that the    *)
(* next validation is given.                                               *)
(***************************************************************************)
EXTENDS Mylinkpaste, SequencesExt

CONSTANTS
    Titles, NoTitle,    \* of the #EXTINF lines
    Bodies,       \* the playlists a site may serve
    NoContent     \* no snapshot, or one without a content_hash

INSTANCE M3uPlaylist

ASSUME ValidatorAssumption ==
    /\ NoTitle \notin Titles
    /\ Bodies \subseteq Seq(Lines)
    /\ NoContent \notin Records /\ NoContent \notin Bodies /\ NoContent # NoRecord

VARIABLES
    kind,         \* detect_source_kind
    body,         \* the playlist the site serves
    saved         \* the snapshot: its channels, and what its hash is of

vars == <<paste, kind, body, saved>>

\* What a content_hash may be the hash of.
IsContent(c) ==
    \/ c = NoContent
    \/ kind = "m3u" /\ c = body
    \/ kind = "mylinkpaste" /\ c \in Records

TypeOK ==
    /\ PasteTypeOK
    /\ pc \in {"idle", "ask", "walk", "download", "done"}
    /\ kind \in {"mylinkpaste", "m3u"}
    /\ body \in Seq(Lines)
    /\ IsContent(given) /\ IsContent(saved.hash)
    /\ saved.streams \subseteq Streams

Init ==
    /\ PasteInit
    /\ pc = "idle" /\ given = NoContent
    /\ saved = [hash |-> NoContent, streams |-> {}]
    /\ \/ kind = "mylinkpaste" /\ body = << >>
       \/ kind = "m3u" /\ body \in Bodies /\ zone = [r \in Refs |-> NoRecord]

\* A refresh gives the hash of the snapshot; a request for a validation none.
BeginPaste ==
    /\ pc = "idle" /\ kind = "mylinkpaste"
    /\ given' \in {saved.hash, NoContent}
    /\ BeginWalk
    /\ UNCHANGED <<kind, body, saved>>

BeginDownload ==
    /\ pc = "idle" /\ kind = "m3u"
    /\ given' \in {saved.hash, NoContent}
    /\ pc' = "download"
    /\ UNCHANGED <<zone, edits, query, walk, history, result, kind, body, saved>>

\* _fetch fails: the site cannot be reached or answers with an error, or the
\* body is larger than SOURCE_MAX_BYTES.
DownloadFails ==
    /\ pc = "download"
    /\ End("unreachable", {}) \/ End("invalid", {})
    /\ UNCHANGED <<zone, edits, given, query, walk, history, kind, body, saved>>

\* An exception that validate() does not catch, as of an encoding the server
\* names and Python does not know: the caller has no result.
DownloadRaises ==
    /\ pc = "download"
    /\ pc' = "idle" /\ given' = NoContent
    /\ UNCHANGED <<zone, edits, query, walk, history, result, kind, body, saved>>

\* The body is what the hash given is of, or is parsed.
Download ==
    /\ pc = "download"
    /\ LET channels == ParseM3u(body)
       IN  IF body = given THEN End("notModified", {})
           ELSE IF HasHeader(body) /\ channels # << >>
             THEN End("valid", Listed(channels))
           ELSE End("invalid", {})
    /\ UNCHANGED <<zone, edits, given, query, walk, history, kind, body, saved>>

\* Mutant: the root is read again after the walk.
ContentNow ==
    IF kind = "m3u" THEN body
    ELSE IF zone[Root] = NoRecord THEN NoContent ELSE zone[Root]

\* The content a hash is taken of: the playlist, or the root record.
Content == IF kind = "m3u" THEN body ELSE root

\* The caller has its result; a valid one replaces the snapshot, with its hash
\* after a refresh and without one after a request.
Keep ==
    /\ pc = "done"
    /\ \E hash \in {Content} \cup (IF given = NoContent THEN {NoContent} ELSE {}) :
         saved' = IF result.status = "valid"
                    THEN [hash |-> hash, streams |-> result.streams] ELSE saved
    /\ pc' = "idle" /\ result' = NoResult /\ given' = NoContent
    /\ UNCHANGED <<zone, edits, query, walk, history, kind, body>>

\* What a validation does of its own accord.
Work ==
    \/ WalkStep /\ UNCHANGED <<kind, body, saved>>
    \/ DownloadFails \/ DownloadRaises \/ Download \/ Keep

Next ==
    \/ BeginPaste \/ BeginDownload \/ Work
    \/ kind = "mylinkpaste" /\ Publish /\ UNCHANGED <<kind, body, saved>>

Spec == Init /\ [][Next]_vars

\* Every query and every download has a timeout, so a validation goes on.
FairSpec == Spec /\ WF_vars(Work)

-----------------------------------------------------------------------------
(* What must be true of a validation.                                      *)

\* The zone is as it was when the validation began.
Unedited == edits = begun

\* A validation asks each resolver for each reference once at most, however
\* the lists refer to each other and are edited meanwhile.
QueriesBounded == queries <= Resolvers * Cardinality(Refs)

\* A walk that no edit, no refused query and no depth limit disturbed lists
\* exactly what the records reachable from the root list: resolvers that
\* cannot be reached fail the validation and never shorten its list.
ValidIsComplete ==
    kind = "mylinkpaste" /\ result.status = "valid" /\ Unedited /\ ~refused /\ Shallow
        => result.streams = Published

\* A playlist is parsed to the channels it announces, each under the title
\* that announces it first.
PlaylistAsAnnounced ==
    kind = "m3u" /\ pc = "download" =>
        LET channels == ParseM3u(body)
        IN  /\ {channels[i] : i \in DOMAIN channels} = Announced(body)
            /\ Len(channels) = Cardinality(Listed(channels))

\* A source reported as not modified lists what its paste lists.
NotModifiedIsCurrent ==
    kind = "mylinkpaste" /\ result.status = "notModified" /\ Unedited /\ Shallow
        => saved.streams = Published

\* The hash of a paste's snapshot is that of the root its list came from,
\* whatever was edited during the walk: otherwise not_modified would confirm a
\* list that lacks what the unmodified root itself lists.
HashMatchesList ==
    kind = "mylinkpaste" /\ saved.hash # NoContent
        => LinksIn(saved.hash) \subseteq saved.streams

\* Every validation ends, with cycles, missing lists and dead resolvers.
ValidationEnds == pc # "idle" ~> pc = "idle"
=============================================================================
