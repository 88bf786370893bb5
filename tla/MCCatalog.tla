----------------------------- MODULE MCCatalog -----------------------------
(***************************************************************************)
(* Small instances of the catalogue: two upstream URLs of which only the   *)
(* second lists both streams, and one or two sources registered at start.  *)
(***************************************************************************)
EXTENDS Catalog, TLC

CONSTANTS u1, u2, s1, s2

MCServes == (u1 :> {s1}) @@ (u2 :> {s1, s2})

OneSource == <<u1>>
TwoSources == <<u1, u2>>

\* The operations of the threads of an instance.
AnyRequest == [w \in Workers |-> AllHandlers]
RefreshOnly == [w \in Workers |-> {"refresh"}]
RefreshAndPatch == [w \in Workers |-> {"refresh", "patch"}]

WorkerSymmetry == Permutations(Workers)

\* What a successful refresh of the one initial source at 1 leaves behind, by
\* when the shorter of the two TTLs has run out.
WarmStart ==
    /\ sources = [id \in Ids |->
         IF id = 1 THEN [url |-> u1, enabled |-> TRUE, lastOk |-> 1,
                         lastError |-> "none"]
         ELSE NoSource]
    /\ nextId = 2
    /\ custom = [c \in CustomIds |-> NoStream]
    /\ snap = [id \in Ids |->
         IF id = 1 THEN [channels |-> {s1}, hash |-> {{s1}}, at |-> 1] ELSE NoSnap]
    /\ channels = {[stream |-> s1, id |-> 1, url |-> u1]}
    /\ channelsAt = 1
    /\ m3u = {s1}
    /\ refreshLock = Free
    /\ th = [w \in Workers |-> IdleThread]
    /\ now = 3 /\ ops = 0 /\ faults = 0

WarmSpec == WarmStart /\ [][Next]_vars
=============================================================================
