--------------------------- MODULE CatalogSerial ---------------------------
(***************************************************************************)
(* The catalogue while operations do not overlap: why the registries, the  *)
(* snapshots and the outputs agree whenever no operation is under way.     *)
(* Each definition below says what an operation keeps from one of its      *)
(* steps to the next, and together they are inductive.                     *)
(***************************************************************************)
EXTENDS Catalog

\* Operations do not overlap: one thread at most is inside one.
OneAtATime ==
    \A v, w \in Workers : ~At(v, "idle") /\ ~At(w, "idle") => v = w

\* Some thread is at one of these labels.
Somewhere(labels) == \E w \in Workers : th[w].pc \in labels

MergeLabels == {"fetch", "commit", "record", "load"} \cup SaveLabels

\* Before a refresh or a rebuild has merged anything.
EarlyLabels ==
    {"lock", "readSources", "readCustom", "viewRead", "viewLoad", "get",
     "validate", "mutate", "mutateCustom", "snapshot", "unlink",
     "rebuildCustom", "rebuildSources"}

\* An edit is made or a snapshot replaced, and the outputs are not rebuilt yet.
StaleLabels ==
    {"snapshot", "unlink", "rebuildCustom", "rebuildSources", "load", "writeJson"}

-----------------------------------------------------------------------------
(* What a thread knows.                                                    *)

\* A copy of the registry has the sources, URLs and switches of the file.
SameEdits(reg) ==
    \A id \in Ids :
        /\ reg[id] = NoSource <=> sources[id] = NoSource
        /\ sources[id] # NoSource =>
             /\ reg[id].url = sources[id].url
             /\ reg[id].enabled = sources[id].enabled

\* The copies a thread works from are as the files are.
CopiesCurrent(t) ==
    /\ t.pc \in {"viewLoad", "readCustom"} \cup MergeLabels => SameEdits(t.view)
    /\ t.pc \in {"rebuildSources"} \cup MergeLabels => t.seen = CustomStreams

\* A thread merges what it reads of enabled sources, and nothing else.
MergedFromView(t) ==
    /\ t.pc \in EarlyLabels => \A id \in Ids : t.merged[id] = {}
    /\ t.pc \in MergeLabels =>
         /\ t.todo \subseteq EnabledIn(t.view)
         /\ \A id \in Ids : t.merged[id] # {} => id \in EnabledIn(t.view)
    /\ t.pc = "fetch" => t.todo = EnabledIn(t.view)
    /\ t.pc \in EarlyLabels => ~t.ok /\ \A id \in Ids : t.got[id].status = "none"
    /\ t.pc = "fetch" => ~t.ok
    /\ t.pc = "commit" /\ t.ok => \A id \in Ids : t.got[id].status # "raised"

\* The URL a request wants its source to have.
WantedUrl(t) == IF t.url = NoUrl THEN sources[t.id].url ELSE t.url

\* The source a request is about is as the request found it, and what was
\* validated is the URL it then has.
RequestCurrent(t) ==
    /\ t.op = "validate" => t.url = NoUrl
    /\ t.pc \in {"get", "validate"} => t.val.status = "none"
    /\ t.op = "add" /\ t.pc \in {"validate", "mutate"} => t.asked = t.url
    /\ t.op \in {"patch", "validate"} /\ t.pc \in {"validate", "mutate"} =>
         /\ sources[t.id] # NoSource
         /\ t.pc = "validate" \/ t.val.status = "valid" => t.asked = WantedUrl(t)
    /\ t.val.status = "valid" /\ t.pc \in {"mutate", "snapshot"} =>
         t.asked \in Urls /\ t.val.channels \subseteq Serves[t.asked]
    /\ t.pc = "snapshot" => sources[t.id] # NoSource /\ t.asked = sources[t.id].url
    /\ t.pc = "viewLoad" => t.view[t.id] # NoSource
    /\ t.pc = "unlink" => sources[t.id] = NoSource

MergeOf(t) == MergeSourceSnapshots(t.seen, t.merged, t.view)

\* Between the writes of the two outputs the first is what will be rendered.
HalfSaved(t) == t.pc = "writeM3u" => channels = MergeOf(t)

\* A snapshot that is due to be published.
Due(id) == snap[id] # NoSnap /\ WithinTTL(snap[id].at)

Covered(t, id) == Due(id) => snap[id].channels \subseteq t.merged[id]

\* The source a refresh has committed and not yet recorded.
InHand(t, id) == t.pc = "record" /\ id \in t.todo /\ \A j \in t.todo : id <= j

\* What a refresh read of a snapshot, and has not committed, is what the
\* snapshot holds; what a thread has merged is no less than it.
MergeCovers(t) ==
    /\ t.pc \in {"fetch", "commit", "record"} =>
         \A id \in t.todo :
            ~InHand(t, id) /\ t.got[id].status # "none" /\ snap[id] # NoSnap
                => t.cached[id].channels = snap[id].channels
    /\ t.pc \in {"commit", "record", "load"} \cup SaveLabels =>
         \A id \in EnabledIn(t.view) : id \notin t.todo \/ InHand(t, id) => Covered(t, id)

\* What a thread has read or downloaded of a source, its URL lists.
MergeServed(t) ==
    /\ t.pc \in {"fetch", "commit", "record"} =>
         \A id \in t.todo :
            /\ t.got[id].status # "none" =>
                 t.cached[id].channels \subseteq Serves[t.view[id].url]
            /\ t.got[id].status = "valid" =>
                 t.got[id].channels \subseteq Serves[t.view[id].url]
    /\ t.pc \in MergeLabels =>
         \A id \in EnabledIn(t.view) : t.merged[id] \subseteq Serves[t.view[id].url]

ThreadSerial(t) ==
    CopiesCurrent(t) /\ MergedFromView(t) /\ RequestCurrent(t) /\ HalfSaved(t)
    /\ MergeCovers(t)

-----------------------------------------------------------------------------
(* What the files hold until a crash or a failed write.                    *)

\* A thread about to do something of this id.
About(label, id) == \E w \in Workers : At(w, label) /\ th[w].id = id

SnapshotsOwned ==
    \A id \in Ids : snap[id] # NoSnap => sources[id] # NoSource \/ About("unlink", id)

CustomListed ==
    channelsAt # 0 =>
        \/ {e.stream : e \in {f \in channels : f.id = CustomOwner}} = CustomStreams
        \/ Somewhere(StaleLabels)

DuePublished ==
    \/ \A id \in Active : Due(id) => snap[id].channels \subseteq Published
    \/ Somewhere(StaleLabels)
    \/ \E w \in Workers : th[w].pc \in {"commit", "record"} /\ th[w].ok

OutputsRendered == m3u = Published \/ Somewhere({"writeM3u"})

\* Everything is listed by the URL of its source, a missing snapshot included,
\* for which the entries of the source stand in.
ServedByUrl ==
    /\ \A e \in channels :
         IF e.id = CustomOwner THEN e.url = NoUrl
         ELSE e.url \in Urls /\ e.stream \in Serves[e.url]
    /\ \A id \in Active :
         \/ About("snapshot", id)
         \/ snap[id] # NoSnap /\ snap[id].channels \subseteq Serves[sources[id].url]
         \/ snap[id] = NoSnap /\ \A e \in channels : e.id = id => e.url = sources[id].url
    /\ \A w \in Workers : MergeServed(th[w])

\* Ids are given out in order.
IdsInOrder == \A id \in Registered(sources) : id < nextId

SerialInv ==
    /\ IdsInOrder
    /\ \A w \in Workers : ThreadSerial(th[w])
    /\ faults = 0 =>
         SnapshotsOwned /\ CustomListed /\ DuePublished /\ OutputsRendered /\ ServedByUrl
=============================================================================
