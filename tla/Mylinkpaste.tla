----------------------------- MODULE Mylinkpaste -----------------------------
(***************************************************************************)
(* A MylinkPaste source (parse_mylinkpaste and fetch_dns_txt_record of     *)
(* source_validator.py): a tree of lists kept in DNS TXT records, walked   *)
(* depth first from a root.  Each record is asked of a primary resolver,   *)
(* then of a backup, while its publishers may edit it.                     *)
(*                                                                         *)
(* Queries go one at a time, so the walk is a stack of open records.       *)
(***************************************************************************)
EXTENDS Naturals, FiniteSets

CONSTANTS
    Refs,         \* the references a record may have
    Root,         \* the one the source is registered with
    Streams,      \* channel identities
    Records,      \* what a TXT record may decode to
    Zones,        \* the zones at start, [Refs -> Records or NoRecord]
    Resolvers,    \* the number of DoH endpoints configured, 0 to 2
    MaxDepth,     \* the depth beyond which nothing is read (10)
    MaxEdits,     \* bound on the edits of the publishers
    NoRecord, Garbage, Scalar,  \* no TXT record; one that does not decode, or
                  \* that decodes to neither a list nor an object
    NoRef         \* the item refers to no record

\* An item of a record: a category, which refers to another record, or the
\* streams of its subLinks or url.
Item == [ref: Refs \cup {NoRef}, links: SUBSET Streams]

ASSUME MylinkpasteAssumption ==
    /\ IsFiniteSet(Refs) /\ Root \in Refs /\ NoRef \notin Refs
    /\ \A rec \in Records \ {Garbage, Scalar} : rec \subseteq Item
    /\ NoRecord \notin Records /\ NoRecord \notin {Garbage, Scalar} /\ Scalar # Garbage
    /\ Zones \subseteq [Refs -> Records \cup {NoRecord}]
    /\ Resolvers \in 0..2
    /\ MaxDepth \in Nat /\ MaxEdits \in Nat

VARIABLES
    zone,         \* the record of each reference
    edits,        \* edits so far
    pc,           \* "idle", "ask", "walk", "done" (and "download")
    given,        \* cached_hash: the root record it is the hash of
    begun,        \* edits at the start of the validation
    asked,        \* ref, the reference being resolved
    resolver,     \* the endpoint being asked
    raised,       \* last_error: an endpoint raised an exception
    refused,      \* some query of this walk was answered with another status
    queries,      \* queries of this walk so far
    visited,      \* visited
    root,         \* raw_txt of the root
    top,          \* the records open; depth is top - 1
    frames,       \* of each: the items left, and channels so far
    result        \* the ValidationResult

query == <<asked, resolver, raised>>
walk == <<visited, root, top, frames>>
history == <<begun, refused, queries>>
paste == <<zone, edits, pc, given, query, walk, history, result>>

Frame == [rest: SUBSET Item, found: SUBSET Streams]

NoFrame == [rest |-> {}, found |-> {}]

\* The items of a record, of which one that is no list has none.
ItemsOf(rec) == IF rec \in {NoRecord, Garbage, Scalar} THEN {} ELSE rec

NoResult == [status |-> "none", streams |-> {}]

Result == [status: {"none", "valid", "notModified", "invalid", "unreachable"},
           streams: SUBSET Streams]

PasteTypeOK ==
    /\ zone \in [Refs -> Records \cup {NoRecord}]
    /\ edits \in Nat
    /\ begun \in Nat /\ queries \in Nat /\ refused \in BOOLEAN
    /\ asked \in Refs /\ resolver \in 1..3 /\ raised \in BOOLEAN
    /\ visited \subseteq Refs
    /\ root \in Records \cup {NoRecord}
    /\ top \in 0..(MaxDepth + 1)
    /\ frames \in [1..(MaxDepth + 1) -> Frame]
    /\ result \in Result

Closed == [i \in 1..(MaxDepth + 1) |-> NoFrame]

PasteInit ==
    /\ zone \in Zones
    /\ edits = 0
    /\ begun = 0 /\ queries = 0 /\ refused = FALSE
    /\ asked = Root /\ resolver = 1 /\ raised = FALSE
    /\ visited = {} /\ root = NoRecord /\ top = 0 /\ frames = Closed
    /\ result = NoResult

\* A publisher edits or withdraws a record.
Publish ==
    /\ edits < MaxEdits
    /\ edits' = edits + 1
    /\ \E r \in Refs, rec \in Records \cup {NoRecord} :
         zone' = [zone EXCEPT ![r] = rec]
    /\ UNCHANGED <<pc, given, query, walk, history, result>>

-----------------------------------------------------------------------------

End(status, streams) ==
    /\ pc' = "done"
    /\ result' = [status |-> status, streams |-> streams]

\* The resolvers are asked from the first on, once each.
Ask(ref) ==
    /\ pc' = "ask" /\ asked' = ref
    /\ resolver' = 1 /\ raised' = FALSE

BeginWalk ==
    /\ Ask(Root)
    /\ visited' = {Root} /\ root' = NoRecord /\ top' = 0 /\ frames' = Closed
    /\ begun' = edits /\ refused' = FALSE /\ queries' = 0
    /\ UNCHANGED <<zone, edits, result>>

Asking == pc = "ask" /\ resolver <= Resolvers

\* The resolver cannot be reached in time, or its answer cannot be read.
ResolverRaises ==
    /\ Asking
    /\ raised' = TRUE /\ resolver' = resolver + 1
    /\ queries' = queries + 1
    /\ UNCHANGED <<zone, edits, pc, given, asked, walk, begun, refused, result>>

\* The resolver answers with a status other than 200.
ResolverRefuses ==
    /\ Asking
    /\ refused' = TRUE /\ resolver' = resolver + 1
    /\ queries' = queries + 1
    /\ UNCHANGED <<zone, edits, pc, given, asked, raised, walk, begun, result>>

\* What becomes of the TXT record asked for.  The root must exist and differ
\* from the one given; a list further down that does not exist adds nothing.
Receive(txt) ==
    \/ /\ txt = NoRecord /\ top > 0
       /\ pc' = "walk"
       /\ UNCHANGED <<walk, result>>
    \/ /\ txt = NoRecord /\ top = 0
       /\ End("invalid", {})
       /\ UNCHANGED walk
    \/ /\ txt # NoRecord /\ top = 0 /\ txt = given
       /\ End("notModified", {})
       /\ root' = txt
       /\ UNCHANGED <<visited, top, frames>>
    \/ /\ txt = Garbage
       /\ End("invalid", {})
       /\ UNCHANGED walk
    \/ /\ txt \notin {NoRecord, Garbage} /\ ~(top = 0 /\ txt = given)
       /\ pc' = "walk"
       /\ top' = top + 1
       /\ frames' = [frames EXCEPT ![top + 1] = [rest |-> ItemsOf(txt), found |-> {}]]
       /\ root' = IF top = 0 THEN txt ELSE root
       /\ UNCHANGED <<visited, result>>

\* The resolver answers with the record, or that there is none: this is final,
\* the backup is not asked.
ResolverAnswers ==
    /\ Asking
    /\ Receive(zone[asked])
    /\ queries' = queries + 1
    /\ UNCHANGED <<zone, edits, given, query, begun, refused>>

\* No resolver is left: the walk fails if one raised, otherwise the record
\* counts as missing.
ResolversExhausted ==
    /\ pc = "ask" /\ resolver > Resolvers
    /\ IF raised THEN End("unreachable", {}) /\ UNCHANGED walk
       ELSE Receive(NoRecord)
    /\ UNCHANGED <<zone, edits, given, query, history>>

-----------------------------------------------------------------------------
(* The items of the innermost open record.                                 *)

Inner == frames[top]

Walking == pc = "walk" /\ top > 0

\* The streams of an item are collected.
TakeLinks(item) ==
    /\ Walking
    /\ item \in Inner.rest /\ item.ref = NoRef
    /\ frames' = [frames EXCEPT ![top] = [rest |-> @.rest \ {item},
                                          found |-> @.found \cup item.links]]
    /\ UNCHANGED <<zone, edits, pc, given, query, visited, root, top, history, result>>

\* Mutant: a list met before is read again.
FollowAgain(item) ==
    /\ Walking
    /\ item \in Inner.rest /\ item.ref # NoRef
    /\ frames' = [frames EXCEPT ![top] = [rest |-> @.rest \ {item}, found |-> @.found]]
    /\ IF top > MaxDepth
         THEN UNCHANGED <<pc, query, visited>>
         ELSE Ask(item.ref) /\ visited' = visited \cup {item.ref}
    /\ UNCHANGED <<zone, edits, given, root, top, history, result>>

\* Mutant: the depth limit is off by one.
FollowDeeper(item) ==
    /\ Walking
    /\ item \in Inner.rest /\ item.ref # NoRef
    /\ frames' = [frames EXCEPT ![top] = [rest |-> @.rest \ {item}, found |-> @.found]]
    /\ IF item.ref \in visited \/ top > MaxDepth + 1
         THEN UNCHANGED <<pc, query, visited>>
         ELSE Ask(item.ref) /\ visited' = visited \cup {item.ref}
    /\ UNCHANGED <<zone, edits, given, root, top, history, result>>

\* A category: its list is asked for unless it was met before or lies too deep.
Follow(item) ==
    /\ Walking
    /\ item \in Inner.rest /\ item.ref # NoRef
    /\ frames' = [frames EXCEPT ![top] = [rest |-> @.rest \ {item}, found |-> @.found]]
    /\ IF item.ref \in visited \/ top > MaxDepth
         THEN UNCHANGED <<pc, query, visited>>
         ELSE Ask(item.ref) /\ visited' = visited \cup {item.ref}
    /\ UNCHANGED <<zone, edits, given, root, top, history, result>>

\* Mutant: only the last list of a record counts.
CloseReplacing ==
    /\ Walking /\ Inner.rest = {} /\ top > 1
    /\ top' = top - 1
    /\ frames' = [frames EXCEPT ![top] = NoFrame, ![top - 1].found = Inner.found]
    /\ UNCHANGED <<zone, edits, pc, given, query, visited, root, history, result>>

\* Mutant: a list without streams is read again.
CloseNonEmpty ==
    /\ Walking /\ Inner.rest = {} /\ top > 1
    /\ IF Inner.found = {} THEN UNCHANGED <<top, frames>>
       ELSE /\ top' = top - 1
            /\ frames' = [frames EXCEPT ![top] = NoFrame,
                                        ![top - 1] = [rest |-> @.rest,
                                              found |-> @.found \cup Inner.found]]
    /\ UNCHANGED <<zone, edits, pc, given, query, visited, root, history, result>>

\* A list further down is read: its streams join those of its parent.
Close ==
    /\ Walking /\ Inner.rest = {} /\ top > 1
    /\ top' = top - 1
    /\ frames' = [frames EXCEPT ![top] = NoFrame,
                                ![top - 1] = [rest |-> @.rest,
                                              found |-> @.found \cup Inner.found]]
    /\ UNCHANGED <<zone, edits, pc, given, query, visited, root, history, result>>

\* The root is read: a list without a stream is refused, but a root that is no
\* list is left before this is looked at, and counts as valid.
CloseRoot ==
    /\ Walking /\ Inner.rest = {} /\ top = 1
    /\ IF Inner.found = {} /\ root # Scalar THEN End("invalid", {})
       ELSE End("valid", Inner.found)
    /\ UNCHANGED <<zone, edits, given, query, walk, history>>

WalkStep ==
    \/ ResolverRaises \/ ResolverRefuses \/ ResolverAnswers \/ ResolversExhausted
    \/ Walking /\ \E item \in Inner.rest : TakeLinks(item) \/ Follow(item)
    \/ Close \/ CloseRoot

-----------------------------------------------------------------------------
(* What a zone lists, said without the walk.                               *)

RefsIn(rec) == {i.ref : i \in ItemsOf(rec)} \ {NoRef}

LinksIn(rec) == UNION {i.links : i \in {j \in ItemsOf(rec) : j.ref = NoRef}}

\* The references in the smallest set with the root and all they refer to.
Reachable ==
    LET Whole(S) == Root \in S /\ \A r \in S : RefsIn(zone[r]) \subseteq S
    IN  {r \in Refs : \A S \in SUBSET Refs : Whole(S) => r \in S}

Published == UNION {LinksIn(zone[r]) : r \in Reachable}

\* No chain of distinct references from the root is longer than MaxDepth.
Shallow ==
    \A n \in (MaxDepth + 1)..(Cardinality(Refs) - 1) :
        ~\E c \in [0..n -> Refs] :
            /\ c[0] = Root
            /\ \A i, j \in 0..n : c[i] = c[j] => i = j
            /\ \A i \in 1..n : c[i] \in RefsIn(zone[c[i - 1]])
=============================================================================
