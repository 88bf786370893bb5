----------------------------- MODULE MCValidator -----------------------------
(***************************************************************************)
(* Pastes of four lists, two levels below the root at most: a list met by *)
(* two ways, a cycle, references without a readable record, and a scalar.   *)
(***************************************************************************)
EXTENDS SourceValidator, TLC

CONSTANTS r0, r1, r2, r3, s1, s2

To(r) == [ref |-> r, links |-> {}]
Links(S) == [ref |-> NoRef, links |-> S]

\* Two ways from the root to a list, one to a missing one.
Diamond == (r0 :> {To(r1), To(r2), To(r3)}) @@ (r1 :> {To(r2), Links({s1})})
           @@ (r2 :> {Links({s2})}) @@ (r3 :> NoRecord)
Cycle == (r0 :> {To(r1), Links({s1})}) @@ (r1 :> {To(r2)})
         @@ (r2 :> {To(r0), To(r1), Links({s2})}) @@ (r3 :> Garbage)

Empty == [r \in Refs |-> NoRecord]

MCZones == {Diamond, Cycle, Empty}
\* An edit may lengthen a chain beyond the limit.
MCRecords ==
    ({z[r] : z \in MCZones, r \in Refs} \ {NoRecord}) \cup {Scalar, {To(r3), Links({s2})}}

\* Playlists of up to four lines after the header, and two without one.
MCLines == {[kind |-> "comment"], [kind |-> "opaque"]}
           \cup [kind: {"extinf"}, title: Titles] \cup [kind: {"link"}, stream: Streams]
MCHeader == << [kind |-> "blank"], [kind |-> "header"] >>
MCBodies ==
    {MCHeader \o lines : lines \in BoundedSeq(MCLines, 4)}
    \cup {<< >>, << [kind |-> "comment"] >> \o MCHeader}
=============================================================================
