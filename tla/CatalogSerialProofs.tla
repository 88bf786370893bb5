------------------------ MODULE CatalogSerialProofs ------------------------
(***************************************************************************)
(* The properties of the catalogue that hold while operations do not       *)
(* overlap, for every value of the constants: what TLC shows of one thread *)
(* is proved here of any number of threads that take turns.                *)
(***************************************************************************)
EXTENDS CatalogSerial, CatalogProofs, WellFoundedInduction

-----------------------------------------------------------------------------
(* Which steps are between the two writes of a save.                       *)

\* Outside a save no thread is between the two writes.
LEMMA RefreshNotSaving ==
    ASSUME TypeOK, NEW w \in Workers, th[w] \in Thread,
           Refresh(w) \/ Rebuild(w)
    PROVE  th[w].pc # "writeM3u" /\ th'[w].pc # "writeM3u"
<1> DEFINE Outside == th[w].pc # "writeM3u" /\ th'[w].pc # "writeM3u"
<1>0. ASSUME Finish(w) PROVE th'[w].pc = "idle"
  BY <1>0 DEF TypeOK, Finish, Become, IdleThread
<1>1. ASSUME NEW r, Become(w, r) PROVE th'[w] = r
  BY <1>1, BecomeOnly
<1>2. CASE RunUpdate(w) \/ RefreshRaises(w) \/ EndRefresh(w)
  BY <1>0, <1>1, <1>2, ThreadFields
  DEF RunUpdate, RefreshRaises, EndRefresh, At
<1>3. CASE RefreshReadSources(w) \/ RebuildReadCustom(w)
  BY <1>1, <1>3, ThreadFields DEF RefreshReadSources, RebuildReadCustom, At
<1>4. CASE RefreshReadCustom(w) \/ RebuildReadSources(w)
  BY <1>1, <1>4, ThreadFields DEF RefreshReadCustom, RebuildReadSources, At
<1>5. ASSUME NEW id \in Ids, FetchLoadCache(w, id)
      PROVE  Outside
  BY <1>1, <1>5, ThreadFields DEF FetchLoadCache, At
<1>6. ASSUME NEW id \in Ids, FetchSource(w, id)
      PROVE  Outside
  <2>1. PICK r, l : /\ l # "writeM3u"
                    /\ Become(w, [th[w] EXCEPT !.got[id] = r, !.pc = l])
    BY <1>6, Zenon DEF FetchSource
  <2>2. QED
    BY <1>1, <1>6, <2>1, ThreadFields DEF FetchSource, At
<1>7. ASSUME NEW id \in Ids, CommitSource(w, id) \/ RecordSource(w, id)
      PROVE  Outside
  BY <1>1, <1>7, ThreadFields DEF CommitSource, RecordSource, At
<1>8. ASSUME NEW id \in Ids, RebuildLoad(w, id)
      PROVE  Outside
  BY <1>1, <1>8, ThreadFields DEF RebuildLoad, At
<1>9. QED
  BY <1>2, <1>3, <1>4, <1>5, <1>6, <1>7, <1>8 DEF Refresh, Rebuild

\* Nor do the other steps of a request write an output.
LEMMA HandleNotSaving ==
    ASSUME TypeOK, NEW w \in Workers, th[w] \in Thread, Handle(w)
    PROVE  th[w].pc # "writeM3u" /\ th'[w].pc # "writeM3u"
<1>0. ASSUME Finish(w) PROVE th'[w].pc = "idle"
  BY <1>0 DEF TypeOK, Finish, Become, IdleThread
<1>1. ASSUME NEW r, Become(w, r) PROVE th'[w] = r
  BY <1>1, BecomeOnly
<1>2. th[w].pc # "writeM3u"
  BY DEF Handle, ViewReadSource, ViewLoadCache, GetForUpdate, GetForValidate,
     GetForDelete, Validate, CreateSource, UpdateSource, DeleteSource,
     SaveValidatedSnapshot, DeleteSourceSnapshot, RecordAccepted,
     MutateCustomChannel, At
<1>3. CASE Finish(w)
  BY <1>0, <1>2, <1>3
<1>4. ASSUME ~Finish(w), ViewReadSource(w) \/ CreateSource(w) \/ UpdateSource(w)
      PROVE  th'[w].pc # "writeM3u"
  <2>1. \/ Become(w, [th[w] EXCEPT !.pc = "viewLoad", !.view = sources])
        \/ Become(w, [th[w] EXCEPT !.pc = "snapshot", !.id = nextId])
        \/ Become(w, [th[w] EXCEPT !.pc = "snapshot"])
        \/ Become(w, [th[w] EXCEPT !.pc = "rebuildCustom"])
    BY <1>4 DEF ViewReadSource, CreateSource, UpdateSource
  <2>2. QED
    BY <1>1, <2>1, ThreadFields
<1>5. ASSUME ~Finish(w), GetForUpdate(w) \/ GetForValidate(w) \/ GetForDelete(w)
      PROVE  th'[w].pc # "writeM3u"
  <2>1. \/ \E u : Become(w, [th[w] EXCEPT !.pc = "validate", !.asked = u])
        \/ \E id : Become(w, [th[w] EXCEPT !.pc = "mutate", !.id = id])
        \/ Become(w, [th[w] EXCEPT !.pc = "mutate"])
    BY <1>5 DEF GetForUpdate, GetForValidate, GetForDelete
  <2>2. ASSUME NEW u, Become(w, [th[w] EXCEPT !.pc = "validate", !.asked = u])
        PROVE  th'[w].pc # "writeM3u"
    BY <1>1, <2>2, ThreadFields
  <2>3. ASSUME NEW id, Become(w, [th[w] EXCEPT !.pc = "mutate", !.id = id])
        PROVE  th'[w].pc # "writeM3u"
    BY <1>1, <2>3, ThreadFields
  <2>4. CASE Become(w, [th[w] EXCEPT !.pc = "mutate"])
    BY <1>1, <2>4, ThreadFields
  <2>5. QED
    BY <2>1, <2>2, <2>3, <2>4
<1>6. ASSUME ~Finish(w), Validate(w)
      PROVE  th'[w].pc # "writeM3u"
  <2>1. PICK r : Become(w, [th[w] EXCEPT !.pc = "mutate", !.val = r])
    BY <1>6 DEF Validate
  <2>2. QED
    BY <1>1, <2>1, ThreadFields
<1>7. ASSUME ~Finish(w), DeleteSource(w) \/ SaveValidatedSnapshot(w)
                         \/ DeleteSourceSnapshot(w) \/ MutateCustomChannel(w)
      PROVE  th'[w].pc # "writeM3u"
  <2>1. \/ Become(w, [th[w] EXCEPT !.pc = "unlink"])
        \/ Become(w, [th[w] EXCEPT !.pc = "rebuildCustom"])
    BY <1>7 DEF DeleteSource, SaveValidatedSnapshot, DeleteSourceSnapshot,
       MutateCustomChannel
  <2>2. QED
    BY <1>1, <2>1, ThreadFields
<1>8. QED
  BY <1>2, <1>3, <1>4, <1>5, <1>6, <1>7 DEF Handle, ViewLoadCache, RecordAccepted

\* An operation begins before its save does.
LEMMA BeginNotSaving ==
    ASSUME TypeOK, NEW w \in Workers, BeginOperation(w)
    PROVE  th[w].pc # "writeM3u" /\ th'[w].pc # "writeM3u"
<1>1. ASSUME NEW r, Begin(w, r), r.pc # "writeM3u"
      PROVE  th[w].pc # "writeM3u" /\ th'[w].pc # "writeM3u"
  BY <1>1, BecomeOnly DEF Begin, At
<1>2. CASE BeginRefresh(w) \/ BeginView(w)
  BY <1>1, <1>2 DEF BeginRefresh, BeginView, IdleThread
<1>3. CASE BeginAddSource(w) \/ BeginUpdateSource(w)
  BY <1>1, <1>3 DEF BeginAddSource, BeginUpdateSource, IdleThread
<1>4. CASE BeginValidateSource(w)
  BY <1>1, <1>4 DEF BeginValidateSource, IdleThread
<1>5. CASE BeginDeleteSource(w)
  BY <1>1, <1>5 DEF BeginDeleteSource, IdleThread
<1>6. CASE BeginCustomChannel(w)
  BY <1>1, <1>6 DEF BeginCustomChannel, IdleThread
<1>7. QED
  BY <1>2, <1>3, <1>4, <1>5, <1>6 DEF BeginOperation

\* The steps outside a save leave both outputs alone.
LEMMA OutputsFrame ==
    ASSUME NEW w \in Workers, BeginOperation(w) \/ Refresh(w) \/ Rebuild(w) \/ Handle(w)
    PROVE  UNCHANGED <<channels, m3u, faults>>
<1>1. CASE BeginOperation(w)
  BY <1>1 DEF BeginOperation, BeginRefresh, BeginView, BeginAddSource,
     BeginUpdateSource, BeginValidateSource, BeginDeleteSource,
     BeginCustomChannel, Begin, outputs
<1>2. CASE Refresh(w) \/ Rebuild(w)
  BY <1>2 DEF Refresh, RunUpdate, RefreshReadSources, RefreshReadCustom,
     FetchLoadCache, FetchSource, CommitSource, RecordSource, RefreshRaises,
     EndRefresh, Rebuild, RebuildReadCustom, RebuildReadSources, RebuildLoad,
     outputs, bounds
<1>3. CASE Handle(w)
  BY <1>3 DEF Handle, ViewReadSource, ViewLoadCache, GetForUpdate,
     GetForValidate, GetForDelete, Validate, CreateSource, UpdateSource,
     DeleteSource, SaveValidatedSnapshot, DeleteSourceSnapshot, RecordAccepted,
     MutateCustomChannel, outputs, bounds
<1>4. QED
  BY <1>1, <1>2, <1>3

-----------------------------------------------------------------------------
(* Operations that do not overlap.                                         *)

\* The other threads are idle and stay so.
Alone(w) == \A v \in Workers \ {w} : th'[v] = th[v] /\ th[v].pc = "idle"

\* What the files hold, said of the one thread that may be under way.
FilesFit(t) ==
    /\ \A id \in Ids : snap[id] # NoSnap =>
         sources[id] # NoSource \/ (t.pc = "unlink" /\ t.id = id)
    /\ \/ channelsAt = 0 \/ t.pc \in StaleLabels
       \/ {e.stream : e \in {f \in channels : f.id = CustomOwner}} = CustomStreams
    /\ \/ \A id \in Active : Due(id) => snap[id].channels \subseteq Published
       \/ t.pc \in StaleLabels
       \/ t.pc \in {"commit", "record"} /\ t.ok
    /\ m3u = Published \/ t.pc = "writeM3u"
    /\ \A e \in channels :
         IF e.id = CustomOwner THEN e.url = NoUrl
         ELSE e.url \in Urls /\ e.stream \in Serves[e.url]
    /\ \A id \in Active :
         \/ t.pc = "snapshot" /\ t.id = id
         \/ snap[id] # NoSnap /\ snap[id].channels \subseteq Serves[sources[id].url]
         \/ snap[id] = NoSnap /\ \A e \in channels : e.id = id => e.url = sources[id].url
    /\ MergeServed(t)

\* An idle thread knows nothing.
LEMMA IdleSerial ==
    ASSUME NEW t, t.pc = "idle", t.op = "none"
    PROVE  ThreadSerial(t) /\ MergeServed(t)
<1> USE DEF MergeLabels, EarlyLabels, SaveLabels
<1>1. CopiesCurrent(t) /\ MergedFromView(t)
  BY DEF CopiesCurrent, MergedFromView
<1>2. RequestCurrent(t) /\ HalfSaved(t)
  BY DEF RequestCurrent, HalfSaved
<1>3. MergeCovers(t) /\ MergeServed(t)
  BY DEF MergeCovers, MergeServed
<1>4. QED
  BY <1>1, <1>2, <1>3 DEF ThreadSerial

\* What an idle thread knows stays true, whatever happens to the files.
LEMMA IdleSerialNext ==
    ASSUME NEW r, r.pc = "idle", r.op = "none"
    PROVE  ThreadSerial(r)' /\ MergeServed(r)'
<1> USE DEF MergeLabels, EarlyLabels, SaveLabels
<1>1. CopiesCurrent(r)' /\ MergedFromView(r)'
  BY DEF CopiesCurrent, MergedFromView
<1>2. RequestCurrent(r)' /\ HalfSaved(r)'
  BY DEF RequestCurrent, HalfSaved
<1>3. MergeCovers(r)' /\ MergeServed(r)'
  BY DEF MergeCovers, MergeServed
<1>4. QED
  BY <1>1, <1>2, <1>3 DEF ThreadSerial

\* What is known before a step of a thread that is alone.
LEMMA Before ==
    ASSUME TypeInv, SerialInv, NEW w \in Workers, Alone(w)
    PROVE  /\ TypeOK /\ th[w] \in Thread /\ ThreadOK(th[w])
           /\ IdsInOrder /\ ThreadSerial(th[w])
           /\ faults = 0 => FilesFit(th[w])
<1>1. /\ TypeOK /\ th[w] \in Thread /\ ThreadOK(th[w])
      /\ IdsInOrder /\ ThreadSerial(th[w])
  BY DEF TypeInv, TypeOK, SerialInv
<1>2. \A v \in Workers : v # w => th[v].pc = "idle"
  BY DEF Alone
<1>3. ASSUME faults = 0
      PROVE  FilesFit(th[w])
  <2>1. SnapshotsOwned /\ CustomListed /\ DuePublished /\ OutputsRendered /\ ServedByUrl
    BY <1>3 DEF SerialInv
  <2>2. /\ Somewhere(StaleLabels) => th[w].pc \in StaleLabels
        /\ Somewhere({"writeM3u"}) => th[w].pc = "writeM3u"
    BY <1>2 DEF Somewhere, StaleLabels
  <2>3. \A id \in Ids : /\ About("unlink", id) => th[w].pc = "unlink" /\ th[w].id = id
                        /\ About("snapshot", id) => th[w].pc = "snapshot" /\ th[w].id = id
    BY <1>2 DEF About, At
  <2>4. (\E v \in Workers : th[v].pc \in {"commit", "record"} /\ th[v].ok)
          => th[w].pc \in {"commit", "record"} /\ th[w].ok
    BY <1>2
  <2>5. Active \subseteq Ids
    BY DEF Active
  <2>6. \A id \in Ids : snap[id] # NoSnap =>
           sources[id] # NoSource \/ (th[w].pc = "unlink" /\ th[w].id = id)
    BY <2>1, <2>3 DEF SnapshotsOwned
  <2>7. \/ channelsAt = 0 \/ th[w].pc \in StaleLabels
        \/ {e.stream : e \in {f \in channels : f.id = CustomOwner}} = CustomStreams
    BY <2>1, <2>2 DEF CustomListed
  <2>8. \/ \A id \in Active : Due(id) => snap[id].channels \subseteq Published
        \/ th[w].pc \in StaleLabels
        \/ th[w].pc \in {"commit", "record"} /\ th[w].ok
    BY <2>1, <2>2, <2>4 DEF DuePublished
  <2>9. m3u = Published \/ th[w].pc = "writeM3u"
    BY <2>1, <2>2 DEF OutputsRendered
  <2>10. /\ \A e \in channels :
              IF e.id = CustomOwner THEN e.url = NoUrl
              ELSE e.url \in Urls /\ e.stream \in Serves[e.url]
         /\ MergeServed(th[w])
    BY <2>1 DEF ServedByUrl
  <2>11. \A id \in Active :
           \/ th[w].pc = "snapshot" /\ th[w].id = id
           \/ snap[id] # NoSnap /\ snap[id].channels \subseteq Serves[sources[id].url]
           \/ snap[id] = NoSnap /\ \A e \in channels : e.id = id => e.url = sources[id].url
    BY <2>1, <2>3, <2>5 DEF ServedByUrl
  <2>12. QED
    BY <2>6, <2>7, <2>8, <2>9, <2>10, <2>11 DEF FilesFit
<1>4. QED
  BY <1>1, <1>3

\* What must be shown of a step of a thread that is alone and becomes r.
LEMMA After ==
    ASSUME TypeInv, NEW w \in Workers, NEW r, Alone(w), Become(w, r),
           IdsInOrder', ThreadSerial(r)', faults' = 0 => FilesFit(r)'
    PROVE  SerialInv'
<1>1. th'[w] = r /\ \A v \in Workers : v # w => th'[v].pc = "idle" /\ th'[v].op = "none"
  BY BecomeOnly DEF TypeInv, TypeOK, ThreadOK, LabelOfOp, Alone
<1>2. \A t : t.pc = "idle" /\ t.op = "none" => ThreadSerial(t)' /\ MergeServed(t)'
  BY IdleSerialNext
<1>3. \A v \in Workers : ThreadSerial(th[v])'
  BY <1>1, <1>2
<1>4. ASSUME faults' = 0
      PROVE  (SnapshotsOwned /\ CustomListed /\ DuePublished /\ OutputsRendered
                /\ ServedByUrl)'
  <2>1. FilesFit(r)'
    BY <1>4
  <2>2. /\ r.pc \in StaleLabels => Somewhere(StaleLabels)'
        /\ r.pc = "writeM3u" => Somewhere({"writeM3u"})'
        /\ \A id \in Ids : /\ r.pc = "unlink" /\ r.id = id => About("unlink", id)'
                           /\ r.pc = "snapshot" /\ r.id = id => About("snapshot", id)'
    BY <1>1 DEF Somewhere, About, At
  <2>3. SnapshotsOwned'
    BY <2>1, <2>2 DEF SnapshotsOwned, FilesFit
  <2>4. CustomListed'
    BY <2>1, <2>2 DEF CustomListed, FilesFit
  <2>5. DuePublished'
    BY <1>1, <2>1, <2>2 DEF DuePublished, FilesFit
  <2>6. OutputsRendered'
    BY <2>1, <2>2 DEF OutputsRendered, FilesFit
  <2>7. \A v \in Workers : MergeServed(th[v])'
    <3>1. MergeServed(r)'
      BY <2>1 DEF FilesFit
    <3>2. QED
      BY <1>1, <1>2, <3>1
  <2>8. Active' \subseteq Ids
    BY DEF Active
  <2>9. ServedByUrl'
    BY <2>1, <2>2, <2>7, <2>8 DEF ServedByUrl, FilesFit
  <2>10. QED
    BY <2>3, <2>4, <2>5, <2>6, <2>9
<1>5. QED
  BY <1>3, <1>4 DEF SerialInv

\* A state of a thread stays as it should be while the files stay as they are.
LEMMA SameFiles ==
    ASSUME UNCHANGED <<registries, snap, outputs, now>>, NEW r
    PROVE  /\ ThreadSerial(r) => ThreadSerial(r)'
           /\ MergeServed(r) => MergeServed(r)'
<1> USE DEF registries, outputs
<1>1. CopiesCurrent(r) => CopiesCurrent(r)'
  BY DEF CopiesCurrent, SameEdits, CustomStreams
<1>2. MergedFromView(r) => MergedFromView(r)'
  BY DEF MergedFromView
<1>3. RequestCurrent(r) => RequestCurrent(r)'
  BY DEF RequestCurrent, WantedUrl
<1>4. HalfSaved(r) => HalfSaved(r)'
  BY DEF HalfSaved, MergeOf
<1>5. MergeCovers(r) => MergeCovers(r)'
  BY DEF MergeCovers, Covered, Due, WithinTTL, InHand
<1>6. MergeServed(r) => MergeServed(r)'
  BY DEF MergeServed
<1>7. QED
  BY <1>1, <1>2, <1>3, <1>4, <1>5, <1>6 DEF ThreadSerial

\* A thread that is alone moves on, and the files stay as they are.
LEMMA ThreadOnly ==
    ASSUME TypeInv, SerialInv, NEW w \in Workers, NEW r, Alone(w), Become(w, r),
           UNCHANGED <<registries, snap, outputs, now, faults>>,
           ThreadSerial(r), faults = 0 => MergeServed(r),
           th[w].pc \notin {"snapshot", "unlink", "writeM3u"},
           th[w].pc \in StaleLabels => r.pc \in StaleLabels,
           th[w].pc \in {"commit", "record"} /\ th[w].ok =>
             r.pc \in StaleLabels \/ (r.pc \in {"commit", "record"} /\ r.ok)
    PROVE  SerialInv'
<1>1. ThreadSerial(r)' /\ (faults = 0 => MergeServed(r)')
  BY SameFiles
<1>2. IdsInOrder'
  BY Before DEF IdsInOrder, Registered, registries
<1>3. ASSUME faults' = 0
      PROVE  FilesFit(r)'
  <2>1. FilesFit(th[w]) /\ MergeServed(r)'
    BY <1>1, <1>3, Before
  <2>2. QED
    BY <2>1 DEF FilesFit, registries, outputs, Active, Due, WithinTTL, Published,
                CustomStreams
<1>4. QED
  BY <1>1, <1>2, <1>3, After

\* The same for a thread that finishes.
LEMMA FinishOnly ==
    ASSUME TypeInv, SerialInv, NEW w \in Workers, Alone(w), Finish(w),
           UNCHANGED <<registries, snap, outputs, now, faults>>,
           th[w].pc \notin StaleLabels \cup {"writeM3u"},
           ~(th[w].pc \in {"commit", "record"} /\ th[w].ok)
    PROVE  SerialInv'
<1>1. ThreadSerial(IdleThread) /\ MergeServed(IdleThread)
  BY IdleSerial DEF IdleThread
<1>2. QED
  BY <1>1, ThreadOnly DEF Finish, StaleLabels

\* Taking up an operation moves one thread out of idleness.
LEMMA BeginOnly ==
    ASSUME TypeOK, NEW w \in Workers, BeginOperation(w)
    PROVE  th'[w].pc # "idle" /\ \A v \in Workers \ {w} : th'[v] = th[v]
<1> DEFINE Goal == th'[w].pc # "idle" /\ \A v \in Workers \ {w} : th'[v] = th[v]
<1>1. ASSUME NEW r, Begin(w, r), r.pc # "idle"
      PROVE  Goal
  BY <1>1, BecomeOnly DEF Begin
<1>2. CASE BeginRefresh(w) \/ BeginView(w)
  BY <1>1, <1>2 DEF BeginRefresh, BeginView, IdleThread
<1>3. CASE BeginAddSource(w) \/ BeginUpdateSource(w)
  BY <1>1, <1>3 DEF BeginAddSource, BeginUpdateSource, IdleThread
<1>4. CASE BeginValidateSource(w)
  BY <1>1, <1>4 DEF BeginValidateSource, IdleThread
<1>5. CASE BeginDeleteSource(w)
  BY <1>1, <1>5 DEF BeginDeleteSource, IdleThread
<1>6. CASE BeginCustomChannel(w)
  BY <1>1, <1>6 DEF BeginCustomChannel, IdleThread
<1>7. QED
  BY <1>2, <1>3, <1>4, <1>5, <1>6 DEF BeginOperation

\* While operations do not overlap the thread that takes a step is alone.
LEMMA AloneStep ==
    ASSUME TypeInv, OneAtATime, OneAtATime', NEW w \in Workers,
           BeginOperation(w) \/ Work(w) \/ SaveFails(w)
    PROVE  Alone(w)
<1>1. TypeOK
  BY DEF TypeInv
<1>2. CASE BeginOperation(w)
  <2>2. th'[w].pc # "idle" /\ \A v \in Workers \ {w} : th'[v] = th[v]
    BY <1>1, <1>2, BeginOnly
  <2>3. \A v \in Workers \ {w} : th'[v].pc = "idle"
    BY <2>2 DEF OneAtATime, At
  <2>4. QED
    BY <2>2, <2>3 DEF Alone
<1>3. CASE Work(w) \/ SaveFails(w)
  <2>1. \A v \in Workers \ {w} : th'[v] = th[v]
    <3>1. CASE Work(w)
      BY <1>1, <3>1, OthersKept
    <3>2. CASE SaveFails(w)
      BY <1>1, <3>2, BecomeOnly DEF SaveFails, AfterSave, Finish
    <3>3. QED
      BY <1>3, <3>1, <3>2
  <2>2. th[w].pc # "idle"
    BY <1>3 DEF Work, Refresh, RunUpdate, RefreshReadSources, RefreshReadCustom,
       FetchLoadCache, FetchSource, CommitSource, RecordSource, RefreshRaises,
       EndRefresh, Rebuild, RebuildReadCustom, RebuildReadSources, RebuildLoad,
       Save, SaveJson, SaveM3u, SaveFails, SaveLabels, Handle, ViewReadSource,
       ViewLoadCache, GetForUpdate, GetForValidate, GetForDelete, Validate,
       CreateSource, UpdateSource, DeleteSource, SaveValidatedSnapshot,
       DeleteSourceSnapshot, RecordAccepted, MutateCustomChannel, At
  <2>3. QED
    BY <2>1, <2>2 DEF OneAtATime, Alone, At
<1>4. QED
  BY <1>2, <1>3

\* A body a URL answers with is listed by the URL.
LEMMA ValidationServed ==
    ASSUME NEW url, NEW hash, NEW r \in Validations(url, hash),
           r.status = "valid"
    PROVE  r.channels \subseteq Serves[url]
<1>1. PICK b \in Bodies(url) : r = [status |-> "valid", channels |-> b]
  BY DEF Validations
<1>2. QED
  BY <1>1 DEF Bodies

\* The steps of a refresh that read or download.
LEMMA RefreshReadSerial ==
    ASSUME TypeInv, SerialInv, NEW w \in Workers, Alone(w),
           \/ RunUpdate(w) \/ RefreshReadSources(w) \/ RefreshReadCustom(w)
           \/ RefreshRaises(w) \/ EndRefresh(w)
    PROVE  SerialInv'
<1> DEFINE t == th[w]
<1>0. /\ TypeOK /\ t \in Thread /\ ThreadOK(t) /\ ThreadSerial(t)
      /\ faults = 0 => MergeServed(t)
  BY Before DEF FilesFit
<1> USE DEF At, MergeLabels, EarlyLabels, SaveLabels, RefreshLabels, RefreshOps,
            EditOps, DeleteOps, CustomOps, bounds
<1>1. CASE RunUpdate(w)
  <2> DEFINE r == [t EXCEPT !.pc = "readSources"]
  <2>1. CASE Finish(w)
    BY <1>1, <2>1, FinishOnly DEF RunUpdate, StaleLabels
  <2>2. CASE Become(w, r)
    <3>1. /\ r.pc = "readSources" /\ r.op = t.op /\ r.merged = t.merged
          /\ r.ok = t.ok /\ r.got = t.got /\ r.val = t.val /\ t.pc = "lock"
      BY <1>0, <1>1 DEF Thread, RunUpdate
    <3> HIDE DEF r
    <3>2. ThreadSerial(r) /\ MergeServed(r)
      BY <1>0, <3>1 DEF ThreadSerial, CopiesCurrent, MergedFromView,
         RequestCurrent, HalfSaved, MergeCovers, MergeServed, ThreadOK, LabelOfOp
    <3>3. QED
      BY <1>1, <2>2, <3>1, <3>2, ThreadOnly DEF RunUpdate, StaleLabels
  <2>3. QED
    BY <1>1, <2>1, <2>2 DEF RunUpdate
<1>2. CASE RefreshReadSources(w)
  <2> DEFINE r == [t EXCEPT !.pc = "readCustom", !.view = sources]
  <2>1. /\ r.pc = "readCustom" /\ r.op = t.op /\ r.merged = t.merged
        /\ r.ok = t.ok /\ r.got = t.got /\ r.view = sources
        /\ r.val = t.val /\ t.pc = "readSources" /\ Become(w, r)
    BY <1>0, <1>2 DEF Thread, RefreshReadSources
  <2> HIDE DEF r
  <2>2. ThreadSerial(r) /\ MergeServed(r)
    BY <1>0, <2>1 DEF ThreadSerial, CopiesCurrent, SameEdits, MergedFromView,
       RequestCurrent, HalfSaved, MergeCovers, MergeServed, ThreadOK, LabelOfOp
  <2>3. QED
    BY <1>2, <2>1, <2>2, ThreadOnly DEF RefreshReadSources, StaleLabels
<1>3. CASE RefreshReadCustom(w)
  <2> DEFINE e == EnabledIn(t.view)
             l == IF e = {} THEN "writeJson" ELSE "fetch"
             r == [t EXCEPT !.seen = CustomStreams, !.todo = e, !.pc = l]
  <2>1. /\ r.pc = l /\ r.op = t.op /\ r.merged = t.merged
        /\ r.ok = t.ok /\ r.got = t.got /\ r.view = t.view /\ r.seen = CustomStreams
        /\ r.todo = e /\ r.val = t.val /\ t.pc = "readCustom" /\ Become(w, r)
    BY <1>0, <1>3 DEF Thread, RefreshReadCustom
  <2>2. e \subseteq Ids /\ l \in {"writeJson", "fetch"} /\ (l = "writeJson" => e = {})
    BY EnabledType
  <2> HIDE DEF r, l
  <2>3. CopiesCurrent(r) /\ MergedFromView(r)
    BY <1>0, <2>1, <2>2 DEF ThreadSerial, CopiesCurrent, MergedFromView
  <2>4. RequestCurrent(r) /\ HalfSaved(r)
    BY <1>0, <2>1, <2>2 DEF RequestCurrent, HalfSaved, ThreadOK, LabelOfOp
  <2>5. MergeCovers(r) /\ MergeServed(r)
    BY <1>0, <2>1, <2>2 DEF MergeCovers, MergeServed, ThreadSerial, MergedFromView,
       InHand
  <2>6. QED
    BY <1>3, <2>1, <2>2, <2>3, <2>4, <2>5, ThreadOnly
    DEF RefreshReadCustom, StaleLabels, ThreadSerial
<1>4. CASE RefreshRaises(w)
  <2>1. t.pc = "commit" /\ ~t.ok
    BY <1>0, <1>4 DEF RefreshRaises, Raised, ThreadSerial, MergedFromView
  <2>2. QED
    BY <1>4, <2>1, FinishOnly DEF RefreshRaises, StaleLabels
<1>5. CASE EndRefresh(w)
  <2> DEFINE r == [t EXCEPT !.pc = "writeJson"]
  <2>1. CASE ~t.ok /\ Finish(w)
    BY <1>5, <2>1, FinishOnly DEF EndRefresh, StaleLabels
  <2>2. CASE Become(w, r)
    <3>1. /\ r.pc = "writeJson" /\ r.op = t.op /\ r.merged = t.merged
          /\ r.ok = t.ok /\ r.got = t.got /\ r.val = t.val /\ r.view = t.view
          /\ r.seen = t.seen /\ r.todo = {}
          /\ t.pc = "commit" /\ t.todo = {}
      BY <1>0, <1>5 DEF Thread, EndRefresh
    <3> HIDE DEF r
    <3>2. CopiesCurrent(r) /\ MergedFromView(r)
      BY <1>0, <3>1 DEF ThreadSerial, CopiesCurrent, MergedFromView
    <3>3. RequestCurrent(r) /\ HalfSaved(r)
      BY <1>0, <3>1 DEF RequestCurrent, HalfSaved, ThreadOK, LabelOfOp
    <3>4. MergeCovers(r) /\ (MergeServed(t) => MergeServed(r))
      BY <1>0, <3>1 DEF MergeCovers, MergeServed, ThreadSerial, MergedFromView,
         InHand, Covered
    <3>5. QED
      BY <1>0, <1>5, <2>2, <3>1, <3>2, <3>3, <3>4, ThreadOnly
      DEF EndRefresh, StaleLabels, ThreadSerial
  <2>3. QED
    BY <1>5, <2>1, <2>2 DEF EndRefresh
<1>6. QED
  BY <1>1, <1>2, <1>3, <1>4, <1>5

\* The download of a source.
LEMMA FetchSerial ==
    ASSUME TypeInv, SerialInv, NEW w \in Workers, Alone(w),
           NEW id \in Ids, FetchSource(w, id)
    PROVE  SerialInv'
<1> DEFINE t == th[w]
           l == IF \A j \in t.todo \ {id} : t.got[j].status \notin {"none", "loaded"}
                THEN "commit" ELSE "fetch"
<1>0. /\ TypeOK /\ t \in Thread /\ ThreadOK(t) /\ ThreadSerial(t)
      /\ faults = 0 => MergeServed(t)
  BY Before DEF FilesFit
<1> USE DEF At, MergeLabels, EarlyLabels, SaveLabels, RefreshLabels, RefreshOps,
            EditOps, DeleteOps, CustomOps, bounds
<1>1. PICK g \in Validations(t.view[id].url, t.cached[id].hash) :
        Become(w, [t EXCEPT !.got[id] = g, !.pc = l])
  BY DEF FetchSource
<1> DEFINE r == [t EXCEPT !.got[id] = g, !.pc = l]
<1>2. l \in {"commit", "fetch"}
  OBVIOUS
<1> HIDE DEF l
<1>3. /\ r.pc = l /\ r.op = t.op /\ r.merged = t.merged /\ r.ok = t.ok
      /\ r.val = t.val /\ r.view = t.view /\ r.seen = t.seen /\ r.todo = t.todo
      /\ r.cached = t.cached /\ Become(w, r) /\ r.got = [t.got EXCEPT ![id] = g]
      /\ t.pc = "fetch" /\ id \in t.todo /\ t.got[id].status = "loaded"
      /\ t.got \in [Ids -> Result]
  BY <1>0, <1>1 DEF Thread, FetchSource
<1>4. g.status = "valid" => g.channels \subseteq Serves[t.view[id].url]
  BY ValidationServed
<1> HIDE DEF r
<1>5. CopiesCurrent(r) /\ MergedFromView(r)
  BY <1>0, <1>2, <1>3 DEF ThreadSerial, CopiesCurrent, MergedFromView
<1>6. RequestCurrent(r) /\ HalfSaved(r)
  BY <1>0, <1>2, <1>3 DEF RequestCurrent, HalfSaved, ThreadOK, LabelOfOp
<1>7. MergeCovers(r)
  BY <1>0, <1>2, <1>3 DEF MergeCovers, ThreadSerial, MergedFromView, InHand
<1>8. MergeServed(t) => MergeServed(r)
  BY <1>0, <1>2, <1>3, <1>4 DEF MergeServed
<1>9. QED
  BY <1>0, <1>2, <1>3, <1>5, <1>6, <1>7, <1>8, ThreadOnly
  DEF FetchSource, StaleLabels, ThreadSerial

\* What reading a cache entry leaves: a snapshot has the channels read, and a
\* stand-in is published.
LEMMA LoadSnap ==
    ASSUME TypeOK, NEW id \in Ids, NEW src,
           snap' = snap \/ snap' = SnapAfterLoad(id, src)
    PROVE  /\ \A j \in Ids : j # id => snap'[j] = snap[j]
           /\ snap[id] # NoSnap => snap' = snap
           /\ snap'[id] # NoSnap =>
                snap'[id].channels = LoadSourceCacheEntry(id, src).channels
           /\ snap[id] = NoSnap =>
                LoadSourceCacheEntry(id, src).channels \subseteq Published
<1> DEFINE c == LoadSourceCacheEntry(id, src)
<1>1. CASE snap[id] # NoSnap
  <2>1. snap' = snap /\ c.channels = snap[id].channels
    BY <1>1 DEF SnapAfterLoad, LoadSourceCacheEntry
  <2>2. QED
    BY <1>1, <2>1
<1>2. CASE snap[id] = NoSnap
  <2>1. c.channels = LegacyChannels(id, src)
    BY <1>2 DEF LoadSourceCacheEntry
  <2>2. LegacyChannels(id, src) \subseteq Published
    BY DEF LegacyChannels, Published
  <2>3. CASE snap' = snap
    BY <1>2, <2>1, <2>2, <2>3
  <2>4. CASE snap' = [snap EXCEPT ![id] = [channels |-> LegacyChannels(id, src),
                                          hash |-> {}, at |-> now]]
    BY <1>2, <2>1, <2>2, <2>4 DEF TypeOK
  <2>5. QED
    BY <2>3, <2>4 DEF SnapAfterLoad
<1>3. QED
  BY <1>1, <1>2

\* What is read of an active source is listed by its URL.
LEMMA LoadServed ==
    ASSUME TypeOK, NEW t, FilesFit(t), t.pc # "snapshot", NEW id \in Active,
           NEW src, src.url = sources[id].url
    PROVE  LoadSourceCacheEntry(id, src).channels \subseteq Serves[src.url]
<1>1. id \in Ids /\ id # CustomOwner /\ src.url \in Urls /\ src.url # NoUrl
  BY CatalogAssumption DEF Active, TypeOK, Registry, Source, Ids, CustomOwner
<1>2. CASE snap[id] # NoSnap
  BY <1>1, <1>2 DEF FilesFit, LoadSourceCacheEntry
<1>3. CASE snap[id] = NoSnap
  <2>1. \A e \in channels : e.id = id \/ e.url = src.url =>
          e.stream \in Serves[src.url]
    BY <1>1, <1>3 DEF FilesFit
  <2>2. QED
    BY <1>3, <2>1 DEF LoadSourceCacheEntry, LegacyChannels
<1>4. QED
  BY <1>2, <1>3

\* A thread that is alone reads a cache entry.
LEMMA LoadStep ==
    ASSUME TypeInv, SerialInv, NEW w \in Workers, NEW r, Alone(w), Become(w, r),
           NEW id \in Ids, sources[id] # NoSource,
           NEW src, src.url = sources[id].url,
           snap' = snap \/ snap' = SnapAfterLoad(id, src),
           UNCHANGED <<registries, outputs, now, faults>>,
           ThreadSerial(r)', faults = 0 => MergeServed(r)',
           th[w].pc \in {"fetch", "load", "viewLoad"},
           th[w].pc = "load" => r.pc \in StaleLabels
    PROVE  SerialInv'
<1>1. TypeOK
  BY DEF TypeInv
<1>2. IdsInOrder'
  BY Before DEF IdsInOrder, Registered, registries
<1>3. ASSUME faults' = 0
      PROVE  FilesFit(r)'
  <2>1. FilesFit(th[w]) /\ MergeServed(r)'
    BY <1>3, Before
  <2>2. /\ \A j \in Ids : j # id => snap'[j] = snap[j]
        /\ snap[id] # NoSnap => snap' = snap
        /\ snap'[id] # NoSnap =>
             snap'[id].channels = LoadSourceCacheEntry(id, src).channels
        /\ snap[id] = NoSnap =>
             LoadSourceCacheEntry(id, src).channels \subseteq Published
    BY <1>1, LoadSnap
  <2>3. id \in Active =>
          LoadSourceCacheEntry(id, src).channels \subseteq Serves[src.url]
    BY <1>1, <2>1, LoadServed
  <2>4. UNCHANGED <<Active, Published, CustomStreams, sources, channels,
                    channelsAt, m3u, now>>
    BY DEF registries, outputs, Active, Published, CustomStreams
  <2>5. Active \subseteq Ids
    BY DEF Active
  <2>6. \A j \in Ids : snap'[j] # NoSnap => sources'[j] # NoSource
    BY <2>1, <2>2, <2>4 DEF FilesFit
  <2>7. \/ \A j \in Active' : Due(j)' => snap'[j].channels \subseteq Published'
        \/ r.pc \in StaleLabels
    <3>1. CASE th[w].pc = "load"
      BY <3>1
    <3>2. CASE th[w].pc # "load"
      <4>1. \A j \in Active : Due(j) => snap[j].channels \subseteq Published
        BY <2>1, <3>2 DEF FilesFit, StaleLabels
      <4>2. QED
        BY <2>2, <2>4, <2>5, <4>1 DEF Due, WithinTTL
    <3>3. QED
      BY <3>1, <3>2
  <2>8. \A j \in Active' :
          \/ snap'[j] # NoSnap /\ snap'[j].channels \subseteq Serves[sources'[j].url]
          \/ snap'[j] = NoSnap /\ \A e \in channels' : e.id = j => e.url = sources'[j].url
    BY <2>1, <2>2, <2>3, <2>4, <2>5 DEF FilesFit
  <2>9. /\ \/ channelsAt' = 0 \/ r.pc \in StaleLabels
           \/ {e.stream : e \in {f \in channels' : f.id = CustomOwner}} = CustomStreams'
        /\ m3u' = Published'
        /\ \A e \in channels' :
             IF e.id = CustomOwner THEN e.url = NoUrl
             ELSE e.url \in Urls /\ e.stream \in Serves[e.url]
    BY <2>1, <2>4 DEF FilesFit, StaleLabels
  <2>10. QED
    BY <2>1, <2>6, <2>7, <2>8, <2>9 DEF FilesFit
<1>4. QED
  BY <1>2, <1>3, After

\* A refresh reads the cache entry of a source.
LEMMA FetchLoadSerial ==
    ASSUME TypeInv, SerialInv, NEW w \in Workers, Alone(w),
           NEW id \in Ids, FetchLoadCache(w, id)
    PROVE  SerialInv'
<1> DEFINE t == th[w]
           c == LoadSourceCacheEntry(id, t.view[id])
           g == [t.got[id] EXCEPT !.status = "loaded"]
<1> USE DEF At, MergeLabels, EarlyLabels, SaveLabels, RefreshLabels, RefreshOps,
            EditOps, DeleteOps, CustomOps, bounds
<1>0. /\ TypeOK /\ t \in Thread /\ ThreadOK(t) /\ ThreadSerial(t)
      /\ faults = 0 => FilesFit(t)
  BY Before
<1>r. PICK r : r = [t EXCEPT !.cached[id] = c, !.got[id] = g]
  OBVIOUS
<1>1. /\ r.pc = "fetch" /\ r.op = t.op /\ r.merged = t.merged /\ r.ok = t.ok
      /\ r.val = t.val /\ r.view = t.view /\ r.seen = t.seen /\ r.todo = t.todo
      /\ r.cached = [t.cached EXCEPT ![id] = c] /\ Become(w, r)
      /\ r.got = [t.got EXCEPT ![id] = g] /\ g.status = "loaded"
      /\ t.pc = "fetch" /\ id \in t.todo
      /\ t.got \in [Ids -> Result] /\ t.cached \in [Ids -> CacheEntry]
  BY <1>0, <1>r DEF Thread, Result, FetchLoadCache
<1>2. /\ \A j \in Ids : j # id => snap'[j] = snap[j]
      /\ snap'[id] # NoSnap => snap'[id].channels = c.channels
  BY <1>0, LoadSnap DEF FetchLoadCache
<1>3. id \in EnabledIn(t.view) /\ SameEdits(t.view)
  BY <1>0, <1>1 DEF ThreadSerial, MergedFromView, CopiesCurrent
<1>4. id \in Active /\ t.view[id].url = sources[id].url /\ sources[id] # NoSource
  BY <1>3 DEF SameEdits, EnabledIn, Registered, Active
<1>5. faults = 0 => c.channels \subseteq Serves[t.view[id].url]
  BY <1>0, <1>1, <1>4, LoadServed
<1>6. t.todo \subseteq Ids
  BY <1>0 DEF Thread
<1>7. UNCHANGED <<sources, CustomStreams, now>>
  BY DEF FetchLoadCache, registries, CustomStreams
<1> HIDE DEF c, g
<1>8. CopiesCurrent(r)' /\ MergedFromView(r)'
  BY <1>0, <1>1, <1>7 DEF ThreadSerial, CopiesCurrent, MergedFromView, SameEdits
<1>9. RequestCurrent(r)' /\ HalfSaved(r)'
  BY <1>0, <1>1 DEF RequestCurrent, HalfSaved, ThreadOK, LabelOfOp
<1>10. MergeCovers(r)'
  BY <1>0, <1>1, <1>2, <1>6 DEF MergeCovers, ThreadSerial, InHand
<1>11. faults = 0 => MergeServed(r)'
  BY <1>0, <1>1, <1>5, <1>6 DEF MergeServed, FilesFit
<1>12. ThreadSerial(r)'
  BY <1>8, <1>9, <1>10 DEF ThreadSerial
<1>13. QED
  BY <1>1, <1>4, <1>11, <1>12, LoadStep DEF FetchLoadCache

\* A snapshot past the TTL of its error is past both, and so not due.
LEMMA ExpiredNotDue ==
    ASSUME TypeOK, NEW id \in Ids, NEW src, NEW error, Due(id)
    PROVE  ~IsCacheExpired(id, src, error)
<1>1. snap[id].at \in Nat /\ now \in Nat /\ TTL \in Nat /\ TTL404 \in Nat
  BY CatalogAssumption DEF TypeOK, Due, Snapshot
<1>2. SourceCacheUpdatedAt(id, src) = snap[id].at
  BY DEF SourceCacheUpdatedAt, Due
<1>3. QED
  BY <1>1, <1>2 DEF IsCacheExpired, CacheTTL, Due, WithinTTL

\* A refresh commits a result.
LEMMA CommitSerial ==
    ASSUME TypeInv, SerialInv, NEW w \in Workers, Alone(w),
           NEW id \in Ids, CommitSource(w, id)
    PROVE  SerialInv'
<1> DEFINE t == th[w]
           g == t.got[id]
           o == Outcome(w, id)
           kept == CASE o = "valid" -> g.channels
                     [] o = "notModified" -> t.cached[id].channels
                     [] OTHER -> IF IsCacheExpired(id, t.view[id], o)
                                   THEN {} ELSE t.cached[id].channels
           good == t.ok \/ o \in {"valid", "notModified"}
<1> USE DEF At, MergeLabels, EarlyLabels, SaveLabels, RefreshLabels, RefreshOps,
            EditOps, DeleteOps, CustomOps, bounds
<1>0. /\ TypeOK /\ t \in Thread /\ ThreadOK(t) /\ ThreadSerial(t) /\ IdsInOrder
      /\ faults = 0 => FilesFit(t)
  BY Before
<1>r. PICK r : r = [t EXCEPT !.pc = "record", !.merged[id] = kept, !.ok = good]
  OBVIOUS
<1>1. /\ r.pc = "record" /\ r.op = t.op /\ r.merged = [t.merged EXCEPT ![id] = kept]
      /\ r.ok = good /\ r.val = t.val /\ r.view = t.view /\ r.seen = t.seen
      /\ r.todo = t.todo /\ r.cached = t.cached /\ r.got = t.got
      /\ t.pc = "commit" /\ id \in t.todo /\ \A j \in t.todo : id <= j
      /\ t.merged \in [Ids -> SUBSET Streams]
  BY <1>0, <1>r DEF Thread, CommitSource
<1>2. Become(w, r)
  BY <1>r DEF CommitSource
<1>3. /\ \A j \in Ids : j # id => snap'[j] = snap[j]
      /\ o # "valid" => snap' = snap
      /\ o = "valid" => /\ snap'[id].channels = g.channels
                        /\ snap'[id].hash = {g.channels}
                        /\ snap'[id] # NoSnap
                        /\ kept = g.channels
  <2> DEFINE s == [channels |-> g.channels, hash |-> {g.channels}, at |-> now]
  <2>1. g.channels \subseteq Streams /\ now \in Nat
    BY <1>0, <1>1 DEF Thread, Result, TypeOK
  <2>2. {g.channels} \in Hash
    BY <2>1 DEF Hash
  <2>3. s \in Snapshot
    BY <2>1, <2>2 DEF Snapshot
  <2>4. s # NoSnap
    BY <2>3, NullAssumption
  <2>5. o # "valid" => snap' = snap
    BY DEF CommitSource
  <2>6. o = "valid" => snap' = [snap EXCEPT ![id] = s] /\ kept = g.channels
    BY DEF CommitSource
  <2>7. s.channels = g.channels /\ s.hash = {g.channels}
    OBVIOUS
  <2>8. snap \in [Ids -> Snapshot \cup {NoSnap}]
    BY <1>0 DEF TypeOK
  <2> HIDE DEF s, o, g, kept
  <2>9. QED
    BY <2>4, <2>5, <2>6, <2>7, <2>8
<1>4. id \in EnabledIn(t.view) /\ SameEdits(t.view)
  BY <1>0, <1>1 DEF ThreadSerial, MergedFromView, CopiesCurrent
<1>5. id \in Active /\ t.view[id].url = sources[id].url /\ sources[id] # NoSource
  BY <1>4 DEF SameEdits, EnabledIn, Registered, Active
<1>6. t.todo \subseteq Ids /\ EnabledIn(t.view) \subseteq Ids
  BY <1>0, EnabledType DEF Thread
<1>7. UNCHANGED <<sources, nextId, CustomStreams, now, faults, channels, channelsAt,
                  m3u, Active, Published>>
  BY DEF CommitSource, registries, outputs, CustomStreams, Active, Published
<1>8. g.status # "none" /\ ~InHand(t, id)
  BY <1>0, <1>1 DEF ThreadOK, ResultsKnown, InHand
<1>o. /\ o \in {"valid", "notModified", "error", "notFound"}
      /\ o = "valid" => g.status = "valid"
  <2>1. g.status \in {"valid", "notModified", "error", "notFound"}
    BY <1>0, <1>1 DEF ThreadOK, ResultsKnown, Thread, Result, CommitSource, Raised
  <2>2. QED
    BY <2>1, OutcomeType
<1>9. /\ snap[id] # NoSnap => t.cached[id].channels = snap[id].channels
      /\ faults = 0 => t.cached[id].channels \subseteq Serves[t.view[id].url]
      /\ faults = 0 /\ g.status = "valid" => g.channels \subseteq Serves[t.view[id].url]
  BY <1>0, <1>1, <1>8 DEF ThreadSerial, MergeCovers, MergeServed, FilesFit
<1> HIDE DEF o
<1>10. faults = 0 => kept \subseteq Serves[t.view[id].url]
  BY <1>9, <1>o
<1>11. Due(id)' => snap'[id].channels \subseteq kept
  <2>1. CASE o = "valid"
    BY <1>3, <2>1
  <2>2. CASE o # "valid"
    <3>1. snap' = snap /\ Due(id)' = Due(id)
      BY <1>3, <1>7, <2>2 DEF Due, WithinTTL
    <3>2. Due(id) => kept = snap[id].channels
      BY <1>0, <1>9, <2>2, ExpiredNotDue DEF Due
    <3>3. QED
      BY <3>1, <3>2
  <2>3. QED
    BY <2>1, <2>2
<1> HIDE DEF kept, good
<1>12. CopiesCurrent(r)'
  BY <1>0, <1>1, <1>7 DEF ThreadSerial, CopiesCurrent, SameEdits
<1>13. MergedFromView(r)'
  BY <1>0, <1>1, <1>4 DEF ThreadSerial, MergedFromView
<1>14. RequestCurrent(r)' /\ HalfSaved(r)'
  BY <1>0, <1>1 DEF RequestCurrent, HalfSaved, ThreadOK, LabelOfOp
<1>15. MergeCovers(r)'
  <2>1. \A i \in t.todo : InHand(r, i) <=> i = id
    BY <1>1, <1>6 DEF InHand, Ids
  <2>2. \A i \in t.todo : i # id /\ t.got[i].status # "none" /\ snap'[i] # NoSnap =>
                t.cached[i].channels = snap'[i].channels
    BY <1>0, <1>1, <1>3, <1>6 DEF ThreadSerial, MergeCovers, InHand
  <2>3. \A i \in EnabledIn(t.view) : i \notin t.todo => Covered(r, i)'
    <3>1. \A i \in EnabledIn(t.view) : i \notin t.todo => Covered(t, i)
      BY <1>0, <1>1 DEF ThreadSerial, MergeCovers
    <3>2. QED
      BY <1>1, <1>3, <1>6, <1>7, <3>1 DEF Covered, Due, WithinTTL
  <2>4. Covered(r, id)'
    BY <1>1, <1>11 DEF Covered
  <2>5. QED
    BY <1>1, <2>1, <2>2, <2>3, <2>4 DEF MergeCovers, InHand
<1>16. ASSUME faults' = 0
       PROVE  FilesFit(r)'
  <2>1. FilesFit(t)
    BY <1>0, <1>7, <1>16
  <2>2. MergeServed(r)'
    BY <1>1, <1>4, <1>6, <1>7, <1>10, <1>16, <2>1 DEF FilesFit, MergeServed
  <2>3. \A j \in Ids : snap'[j] # NoSnap => sources'[j] # NoSource
    BY <1>1, <1>3, <1>5, <1>7, <2>1 DEF FilesFit
  <2>4. \/ \A j \in Active' : Due(j)' => snap'[j].channels \subseteq Published'
        \/ r.ok
    <3>1. CASE o \in {"valid", "notModified"}
      BY <1>1, <3>1 DEF good
    <3>2. CASE o \notin {"valid", "notModified"}
      BY <1>1, <1>3, <1>7, <2>1, <3>2 DEF FilesFit, StaleLabels, good, Due, WithinTTL
    <3>3. QED
      BY <3>1, <3>2
  <2>5. \A j \in Active' :
          \/ snap'[j] # NoSnap /\ snap'[j].channels \subseteq Serves[sources'[j].url]
          \/ snap'[j] = NoSnap /\ \A e \in channels' : e.id = j => e.url = sources'[j].url
    <3>1. TAKE j \in Active'
    <3>2. CASE j = id /\ o = "valid"
      BY <1>3, <1>5, <1>7, <1>9, <1>o, <1>16, <3>2
    <3>3. CASE ~(j = id /\ o = "valid")
      BY <1>1, <1>3, <1>7, <2>1, <3>3 DEF FilesFit, Active
    <3>4. QED
      BY <3>2, <3>3
  <2>6. /\ \/ channelsAt' = 0
           \/ {e.stream : e \in {f \in channels' : f.id = CustomOwner}} = CustomStreams'
        /\ m3u' = Published'
        /\ \A e \in channels' :
             IF e.id = CustomOwner THEN e.url = NoUrl
             ELSE e.url \in Urls /\ e.stream \in Serves[e.url]
    BY <1>1, <1>7, <2>1 DEF FilesFit, StaleLabels
  <2>7. QED
    BY <1>1, <2>2, <2>3, <2>4, <2>5, <2>6 DEF FilesFit
<1>17. IdsInOrder'
  BY <1>0, <1>7 DEF IdsInOrder, Registered
<1>18. QED
  BY <1>2, <1>12, <1>13, <1>14, <1>15, <1>16, <1>17, After DEF ThreadSerial

\* A thread that is alone records a result.
LEMMA RecordStep ==
    ASSUME TypeInv, SerialInv, NEW w \in Workers, NEW r, Alone(w), Become(w, r),
           NEW id \in Ids,
           NEW status \in {"valid", "notModified", "error", "notFound"},
           RecordRefresh(id, status),
           UNCHANGED <<nextId, custom, snap, outputs, now, faults>>,
           ThreadSerial(r), faults = 0 => MergeServed(r),
           r.pc \in {"commit", "idle"}, th[w].pc \in {"record", "accepted"},
           th[w].pc = "record" => r.pc = "commit" /\ r.ok = th[w].ok
    PROVE  SerialInv'
<1>0. TypeOK /\ IdsInOrder
  BY Before
<1>1. /\ Registered(sources') = Registered(sources)
      /\ \A i \in Registered(sources) :
           /\ sources'[i].url = sources[i].url
           /\ sources'[i].enabled = sources[i].enabled
  BY <1>0, RecordKeepsEdits
<1>2. \A i \in Ids : sources'[i] = NoSource <=> sources[i] = NoSource
  BY <1>1 DEF Registered
<1>3. Active' = Active /\ \A i \in Active : sources'[i].url = sources[i].url
  BY <1>1, <1>2 DEF Active, Registered
<1>4. UNCHANGED <<channels, channelsAt, m3u, Published, CustomStreams>>
  BY DEF outputs, Published, CustomStreams
<1>5. \A reg : SameEdits(reg) => SameEdits(reg)'
  BY <1>1, <1>2 DEF SameEdits, Registered
<1>6. CopiesCurrent(r)' /\ MergedFromView(r)'
  BY <1>4, <1>5 DEF ThreadSerial, CopiesCurrent, MergedFromView
<1>7. RequestCurrent(r)' /\ HalfSaved(r)'
  BY <1>4 DEF ThreadSerial, RequestCurrent, HalfSaved
<1>8. MergeCovers(r)' /\ (faults = 0 => MergeServed(r)')
  <2>1. \A i : Covered(r, i) => Covered(r, i)'
    BY DEF Covered, Due, WithinTTL
  <2>2. QED
    BY <2>1 DEF ThreadSerial, MergeCovers, MergeServed, InHand
<1>9. ASSUME faults' = 0
      PROVE  FilesFit(r)'
  <2>1. FilesFit(th[w]) /\ MergeServed(r)'
    BY <1>8, <1>9, Before
  <2>2. \/ \A i \in Active' : Due(i)' => snap'[i].channels \subseteq Published'
        \/ r.pc \in {"commit", "record"} /\ r.ok
    BY <1>3, <1>4, <2>1 DEF FilesFit, StaleLabels, Due, WithinTTL
  <2>3. \A i \in Ids : snap'[i] # NoSnap => sources'[i] # NoSource
    BY <1>2, <2>1 DEF FilesFit
  <2>4. \A i \in Active' :
          \/ snap'[i] # NoSnap /\ snap'[i].channels \subseteq Serves[sources'[i].url]
          \/ snap'[i] = NoSnap /\ \A e \in channels' : e.id = i => e.url = sources'[i].url
    BY <1>3, <1>4, <2>1 DEF FilesFit
  <2>5. QED
    BY <1>4, <2>1, <2>2, <2>3, <2>4 DEF FilesFit, StaleLabels
<1>10. IdsInOrder'
  BY <1>0, <1>1 DEF IdsInOrder
<1>11. QED
  BY <1>6, <1>7, <1>8, <1>9, <1>10, After DEF ThreadSerial

\* A refresh records a result, and a request the validation it accepted.
LEMMA RecordSerial ==
    ASSUME TypeInv, SerialInv, NEW w \in Workers, Alone(w),
           RecordAccepted(w) \/ \E id \in Ids : RecordSource(w, id)
    PROVE  SerialInv'
<1> DEFINE t == th[w]
<1> USE DEF At, MergeLabels, EarlyLabels, SaveLabels, RefreshLabels, RefreshOps,
            EditOps, DeleteOps, CustomOps, bounds
<1>0. /\ TypeOK /\ t \in Thread /\ ThreadOK(t) /\ ThreadSerial(t)
      /\ faults = 0 => MergeServed(t)
  BY Before DEF FilesFit
<1>1. CASE RecordAccepted(w)
  <2>1. t.id \in Ids /\ t.pc = "accepted"
    BY <1>0, <1>1 DEF RecordAccepted, ThreadOK, InputOfLabel
  <2>2. IdleThread.pc = "idle" /\ IdleThread.op = "none"
    BY DEF IdleThread
  <2>3. ThreadSerial(IdleThread) /\ MergeServed(IdleThread)
    BY <2>2, IdleSerial
  <2>4. QED
    BY <1>1, <2>1, <2>2, <2>3, RecordStep DEF RecordAccepted, Finish
<1>2. ASSUME NEW id \in Ids, RecordSource(w, id)
      PROVE  SerialInv'
  <2>1. PICK r : r = [t EXCEPT !.pc = "commit", !.todo = @ \ {id}]
    OBVIOUS
  <2>2. /\ r.pc = "commit" /\ r.op = t.op /\ r.merged = t.merged
        /\ r.ok = t.ok /\ r.val = t.val /\ r.view = t.view /\ r.seen = t.seen
        /\ r.todo = t.todo \ {id} /\ r.cached = t.cached /\ r.got = t.got
        /\ t.pc = "record" /\ id \in t.todo /\ \A j \in t.todo : id <= j
    BY <1>0, <1>2, <2>1 DEF Thread, RecordSource
  <2>3. Become(w, r)
    BY <1>2, <2>1 DEF RecordSource
  <2>4. t.todo \subseteq Ids
    BY <1>0 DEF Thread
  <2>5. Outcome(w, id) \in {"valid", "notModified", "error", "notFound"}
    <3>1. t.got[id].status \in {"valid", "notModified", "error", "notFound"}
      BY <1>0, <2>2 DEF Thread, Result, ThreadOK, ResultsKnown
    <3>2. QED
      BY <3>1, OutcomeType
  <2>6. CopiesCurrent(r) /\ MergedFromView(r)
    BY <1>0, <2>2 DEF ThreadSerial, CopiesCurrent, MergedFromView, ThreadOK,
       ResultsKnown
  <2>7. RequestCurrent(r) /\ HalfSaved(r)
    BY <1>0, <2>2 DEF RequestCurrent, HalfSaved, ThreadOK, LabelOfOp
  <2>8. MergeCovers(r) /\ (MergeServed(t) => MergeServed(r))
    <3>1. \A i \in t.todo : InHand(t, i) <=> i = id
      BY <2>2, <2>4 DEF InHand, Ids
    <3>2. \A i \in EnabledIn(t.view) : Covered(t, i) => Covered(r, i)
      BY <2>2 DEF Covered
    <3>3. QED
      BY <1>0, <2>2, <3>1, <3>2 DEF MergeCovers, MergeServed, ThreadSerial, InHand
  <2>9. QED
    BY <1>0, <1>2, <2>2, <2>3, <2>5, <2>6, <2>7, <2>8, RecordStep
    DEF RecordSource, ThreadSerial
<1>3. QED
  BY <1>1, <1>2

\* The steps of a rebuild.
LEMMA RebuildReadSerial ==
    ASSUME TypeInv, SerialInv, NEW w \in Workers, Alone(w),
           RebuildReadCustom(w) \/ RebuildReadSources(w)
    PROVE  SerialInv'
<1> DEFINE t == th[w]
<1> USE DEF At, MergeLabels, EarlyLabels, SaveLabels, RefreshLabels, RefreshOps,
            EditOps, DeleteOps, CustomOps, bounds
<1>0. /\ TypeOK /\ t \in Thread /\ ThreadOK(t) /\ ThreadSerial(t)
      /\ faults = 0 => MergeServed(t)
  BY Before DEF FilesFit
<1>1. CASE RebuildReadCustom(w)
  <2>1. PICK r : r = [t EXCEPT !.pc = "rebuildSources", !.seen = CustomStreams]
    OBVIOUS
  <2>2. /\ r.pc = "rebuildSources" /\ r.op = t.op /\ r.merged = t.merged
        /\ r.ok = t.ok /\ r.got = t.got /\ r.seen = CustomStreams /\ r.url = t.url
        /\ r.val = t.val /\ t.pc = "rebuildCustom"
    BY <1>0, <1>1, <2>1 DEF Thread, RebuildReadCustom
  <2>3. Become(w, r)
    BY <1>1, <2>1 DEF RebuildReadCustom
  <2>4. ThreadSerial(r) /\ MergeServed(r)
    BY <1>0, <2>2 DEF ThreadSerial, CopiesCurrent, MergedFromView,
       RequestCurrent, HalfSaved, MergeCovers, MergeServed
  <2>5. QED
    BY <1>1, <2>2, <2>3, <2>4, ThreadOnly DEF RebuildReadCustom, StaleLabels
<1>2. CASE RebuildReadSources(w)
  <2> DEFINE e == EnabledIn(sources)
             l == IF e = {} THEN "writeJson" ELSE "load"
  <2>1. PICK r : r = [t EXCEPT !.view = sources, !.todo = e, !.pc = l]
    OBVIOUS
  <2>2. l \in {"writeJson", "load"} /\ (l = "writeJson" => e = {})
    OBVIOUS
  <2>3. /\ r.pc = l /\ r.op = t.op /\ r.merged = t.merged
        /\ r.ok = t.ok /\ r.got = t.got /\ r.seen = t.seen /\ r.url = t.url
        /\ r.view = sources /\ r.todo = e
        /\ r.val = t.val /\ t.pc = "rebuildSources"
    BY <1>0, <1>2, <2>1 DEF Thread, RebuildReadSources
  <2>4. Become(w, r)
    BY <1>2, <2>1 DEF RebuildReadSources
  <2>5. e \subseteq Ids
    BY EnabledType
  <2> HIDE DEF l
  <2>6. CopiesCurrent(r) /\ MergedFromView(r)
    BY <1>0, <2>2, <2>3, <2>5 DEF ThreadSerial, CopiesCurrent, SameEdits,
       MergedFromView
  <2>7. RequestCurrent(r) /\ HalfSaved(r)
    BY <1>0, <2>2, <2>3 DEF ThreadSerial, RequestCurrent, HalfSaved
  <2>8. MergeCovers(r) /\ MergeServed(r)
    BY <1>0, <2>2, <2>3, <2>5 DEF ThreadSerial, MergedFromView, MergeCovers,
       MergeServed, InHand
  <2>9. QED
    BY <1>2, <2>2, <2>3, <2>4, <2>6, <2>7, <2>8, ThreadOnly
    DEF RebuildReadSources, StaleLabels, ThreadSerial
<1>3. QED
  BY <1>1, <1>2

\* A rebuild loads what is due of a source, or what stands in for it.
LEMMA RebuildLoadSerial ==
    ASSUME TypeInv, SerialInv, NEW w \in Workers, Alone(w),
           NEW id \in Ids, RebuildLoad(w, id)
    PROVE  SerialInv'
<1> DEFINE t == th[w]
           src == t.view[id]
           expired == IsCacheExpired(id, src, src.lastError)
           m == IF expired THEN {} ELSE LoadSourceCacheEntry(id, src).channels
           l == IF t.todo = {id} THEN "writeJson" ELSE "load"
<1> USE DEF At, MergeLabels, EarlyLabels, SaveLabels, RefreshLabels, RefreshOps,
            EditOps, DeleteOps, CustomOps, bounds
<1>0. /\ TypeOK /\ t \in Thread /\ ThreadOK(t) /\ ThreadSerial(t)
      /\ faults = 0 => FilesFit(t)
  BY Before
<1>r. PICK r : r = [t EXCEPT !.merged[id] = m, !.todo = @ \ {id}, !.pc = l]
  OBVIOUS
<1>1. l \in {"writeJson", "load"} /\ (l = "writeJson" => t.todo = {id})
  OBVIOUS
<1>2. /\ r.pc = l /\ r.op = t.op /\ r.merged = [t.merged EXCEPT ![id] = m]
      /\ r.ok = t.ok /\ r.val = t.val /\ r.view = t.view /\ r.seen = t.seen
      /\ r.todo = t.todo \ {id} /\ r.url = t.url
      /\ t.pc = "load" /\ id \in t.todo /\ t.merged \in [Ids -> SUBSET Streams]
  BY <1>0, <1>r DEF Thread, RebuildLoad
<1>3. Become(w, r)
  BY <1>r DEF RebuildLoad
<1>4. /\ snap' = snap \/ snap' = SnapAfterLoad(id, src)
      /\ expired => snap' = snap
      /\ UNCHANGED <<registries, outputs, now, faults>>
  BY DEF RebuildLoad
<1>5. /\ \A j \in Ids : j # id => snap'[j] = snap[j]
      /\ snap'[id] # NoSnap =>
           snap'[id].channels = LoadSourceCacheEntry(id, src).channels
  BY <1>0, <1>4, LoadSnap
<1>6. id \in EnabledIn(t.view) /\ SameEdits(t.view)
  BY <1>0, <1>2 DEF ThreadSerial, MergedFromView, CopiesCurrent
<1>7. id \in Active /\ src.url = sources[id].url /\ sources[id] # NoSource
  BY <1>6 DEF SameEdits, EnabledIn, Registered, Active
<1>8. faults = 0 => m \subseteq Serves[src.url]
  BY <1>0, <1>2, <1>7, LoadServed
<1>9. UNCHANGED <<sources, CustomStreams, channels>>
  BY <1>4 DEF registries, outputs, CustomStreams
<1>10. Due(id)' => snap'[id].channels \subseteq m
  <2>1. CASE expired
    <3>1. ~Due(id) /\ Due(id)' = Due(id)
      BY <1>0, <1>4, <2>1, ExpiredNotDue DEF Due, WithinTTL
    <3>2. QED
      BY <3>1
  <2>2. CASE ~expired
    BY <1>5, <2>2 DEF Due
  <2>3. QED
    BY <2>1, <2>2
<1>11. EnabledIn(t.view) \subseteq Ids
  BY EnabledType
<1> HIDE DEF m, l, expired
<1>12. CopiesCurrent(r)'
  BY <1>0, <1>1, <1>2, <1>9 DEF ThreadSerial, CopiesCurrent, SameEdits
<1>13. MergedFromView(r)'
  BY <1>0, <1>1, <1>2, <1>6 DEF ThreadSerial, MergedFromView
<1>14. RequestCurrent(r)' /\ HalfSaved(r)'
  BY <1>0, <1>1, <1>2 DEF ThreadSerial, RequestCurrent, HalfSaved
<1>15. MergeCovers(r)'
  <2>1. \A i \in EnabledIn(t.view) : i \notin t.todo => Covered(r, i)'
    <3>1. \A i \in EnabledIn(t.view) : i \notin t.todo => Covered(t, i)
      BY <1>0, <1>2 DEF ThreadSerial, MergeCovers
    <3>2. QED
      BY <1>2, <1>4, <1>5, <1>11, <3>1 DEF Covered, Due, WithinTTL
  <2>2. Covered(r, id)'
    BY <1>2, <1>10 DEF Covered
  <2>3. QED
    BY <1>1, <1>2, <2>1, <2>2 DEF MergeCovers, InHand
<1>16. faults = 0 => MergeServed(r)'
  BY <1>0, <1>1, <1>2, <1>8, <1>11 DEF FilesFit, MergeServed
<1>17. QED
  BY <1>1, <1>2, <1>3, <1>4, <1>7, <1>12, <1>13, <1>14, <1>15, <1>16, LoadStep
  DEF ThreadSerial, StaleLabels

\* Requests arrive.
LEMMA BeginSerial ==
    ASSUME TypeInv, SerialInv, NEW w \in Workers, Alone(w), BeginOperation(w)
    PROVE  SerialInv'
<1> USE DEF At, MergeLabels, EarlyLabels, SaveLabels, RefreshLabels
<1>0. /\ IdleThread.pc = "idle" /\ \A id \in Ids : IdleThread.merged[id] = {}
      /\ IdleThread.ok = FALSE /\ IdleThread.val.status = "none"
      /\ \A id \in Ids : IdleThread.got[id].status = "none"
  BY DEF IdleThread, NoResult
<1>1. ASSUME NEW r, Begin(w, r),
             r.pc \in {"lock", "viewRead", "get", "validate", "mutate", "mutateCustom"},
             r.merged = IdleThread.merged, r.ok = IdleThread.ok,
             r.got = IdleThread.got, r.val = IdleThread.val,
             r.op = "validate" => r.url = NoUrl,
             r.op = "add" => r.asked = r.url,
             r.pc \in {"validate", "mutate"} => r.op \notin {"patch", "validate"}
      PROVE  SerialInv'
  <2>1. ThreadSerial(r) /\ MergeServed(r)
    BY <1>0, <1>1 DEF ThreadSerial, CopiesCurrent, MergedFromView, RequestCurrent,
       HalfSaved, MergeCovers, MergeServed
  <2>2. QED
    BY <1>1, <2>1, ThreadOnly DEF Begin, StaleLabels
<1>2. CASE BeginRefresh(w)
  <2>1. PICK op \in {"refresh", "scheduled"} :
          Begin(w, [IdleThread EXCEPT !.pc = "lock", !.op = op])
    BY <1>2 DEF BeginRefresh
  <2> DEFINE r == [IdleThread EXCEPT !.pc = "lock", !.op = op]
  <2>2. /\ r.pc = "lock" /\ r.op = op /\ r.merged = IdleThread.merged
        /\ r.ok = IdleThread.ok /\ r.got = IdleThread.got /\ r.val = IdleThread.val
    BY DEF IdleThread
  <2> HIDE DEF r
  <2>3. QED
    BY <1>1, <2>1, <2>2 DEF r
<1>3. CASE BeginView(w)
  <2>1. PICK id \in Ids :
          Begin(w, [IdleThread EXCEPT !.pc = "viewRead", !.op = "view", !.id = id])
    BY <1>3 DEF BeginView
  <2> DEFINE r == [IdleThread EXCEPT !.pc = "viewRead", !.op = "view", !.id = id]
  <2>2. /\ r.pc = "viewRead" /\ r.op = "view" /\ r.merged = IdleThread.merged
        /\ r.ok = IdleThread.ok /\ r.got = IdleThread.got /\ r.val = IdleThread.val
    BY DEF IdleThread
  <2>3. Begin(w, r)
    BY <2>1
  <2> HIDE DEF r
  <2>4. QED
    BY <1>1, <2>2, <2>3
<1>4. CASE BeginAddSource(w)
  <2>1. PICK url \in Urls, allow \in BOOLEAN :
          Begin(w, [IdleThread EXCEPT !.pc = "validate", !.op = "add",
                                      !.url = url, !.asked = url, !.allow = allow])
    BY <1>4 DEF BeginAddSource
  <2> DEFINE r == [IdleThread EXCEPT !.pc = "validate", !.op = "add",
                                     !.url = url, !.asked = url, !.allow = allow]
  <2>2. /\ r.pc = "validate" /\ r.op = "add" /\ r.merged = IdleThread.merged
        /\ r.ok = IdleThread.ok /\ r.got = IdleThread.got /\ r.val = IdleThread.val
        /\ r.url = url /\ r.asked = url
    BY DEF IdleThread
  <2>3. Begin(w, r)
    BY <2>1
  <2> HIDE DEF r
  <2>4. QED
    BY <1>1, <2>2, <2>3
<1>5. CASE BeginUpdateSource(w)
  <2>1. PICK id \in Ids, url \in Urls \cup {NoUrl}, enable \in Switch,
             allow \in BOOLEAN :
          Begin(w, [IdleThread EXCEPT !.pc = "get", !.op = "patch", !.id = id,
                                      !.url = url, !.enable = enable,
                                      !.allow = allow])
    BY <1>5 DEF BeginUpdateSource
  <2> DEFINE r == [IdleThread EXCEPT !.pc = "get", !.op = "patch", !.id = id,
                                     !.url = url, !.enable = enable,
                                     !.allow = allow]
  <2>2. /\ r.pc = "get" /\ r.op = "patch" /\ r.merged = IdleThread.merged
        /\ r.ok = IdleThread.ok /\ r.got = IdleThread.got /\ r.val = IdleThread.val
    BY DEF IdleThread
  <2>3. Begin(w, r)
    BY <2>1
  <2> HIDE DEF r
  <2>4. QED
    BY <1>1, <2>2, <2>3
<1>6. CASE BeginValidateSource(w)
  <2>1. PICK id \in Ids, enable \in {"keep", "on"} :
          Begin(w, [IdleThread EXCEPT !.pc = "get", !.op = "validate", !.id = id,
                                      !.enable = enable, !.allow = TRUE])
    BY <1>6 DEF BeginValidateSource
  <2> DEFINE r == [IdleThread EXCEPT !.pc = "get", !.op = "validate", !.id = id,
                                     !.enable = enable, !.allow = TRUE]
  <2>2. /\ r.pc = "get" /\ r.op = "validate" /\ r.merged = IdleThread.merged
        /\ r.ok = IdleThread.ok /\ r.got = IdleThread.got /\ r.val = IdleThread.val
        /\ r.url = NoUrl
    BY DEF IdleThread
  <2>3. Begin(w, r)
    BY <2>1
  <2> HIDE DEF r
  <2>4. QED
    BY <1>1, <2>2, <2>3
<1>7. CASE BeginDeleteSource(w)
  <2>1. ASSUME NEW id \in Ids,
               Begin(w, [IdleThread EXCEPT !.pc = "mutate", !.op = "delete", !.id = id])
        PROVE  SerialInv'
    <3> DEFINE r == [IdleThread EXCEPT !.pc = "mutate", !.op = "delete", !.id = id]
    <3>1. /\ r.pc = "mutate" /\ r.op = "delete" /\ r.merged = IdleThread.merged
          /\ r.ok = IdleThread.ok /\ r.got = IdleThread.got /\ r.val = IdleThread.val
      BY DEF IdleThread
    <3>2. Begin(w, r)
      BY <2>1
    <3> HIDE DEF r
    <3>3. QED
      BY <1>1, <3>1, <3>2
  <2>2. ASSUME NEW url \in Urls,
               Begin(w, [IdleThread EXCEPT !.pc = "get", !.op = "deleteByUrl",
                                           !.url = url])
        PROVE  SerialInv'
    <3> DEFINE r == [IdleThread EXCEPT !.pc = "get", !.op = "deleteByUrl", !.url = url]
    <3>1. /\ r.pc = "get" /\ r.op = "deleteByUrl" /\ r.merged = IdleThread.merged
          /\ r.ok = IdleThread.ok /\ r.got = IdleThread.got /\ r.val = IdleThread.val
      BY DEF IdleThread
    <3>2. Begin(w, r)
      BY <2>2
    <3> HIDE DEF r
    <3>3. QED
      BY <1>1, <3>1, <3>2
  <2>3. QED
    BY <1>7, <2>1, <2>2 DEF BeginDeleteSource
<1>8. CASE BeginCustomChannel(w)
  <2>1. PICK op \in {"customCreate", "customUpdate", "customDelete"},
             c \in CustomIds, s \in Streams :
          Begin(w, [IdleThread EXCEPT !.pc = "mutateCustom", !.op = op,
                                      !.cid = c, !.stream = s])
    BY <1>8 DEF BeginCustomChannel
  <2> DEFINE r == [IdleThread EXCEPT !.pc = "mutateCustom", !.op = op,
                                     !.cid = c, !.stream = s]
  <2>2. /\ r.pc = "mutateCustom" /\ r.op = op /\ r.merged = IdleThread.merged
        /\ r.ok = IdleThread.ok /\ r.got = IdleThread.got /\ r.val = IdleThread.val
    BY DEF IdleThread
  <2>3. Begin(w, r)
    BY <2>1
  <2> HIDE DEF r
  <2>4. QED
    BY <1>1, <2>2, <2>3
<1>9. QED
  BY <1>2, <1>3, <1>4, <1>5, <1>6, <1>7, <1>8 DEF BeginOperation

\* The steps of a request that read the registry or download.
LEMMA HandleReadSerial ==
    ASSUME TypeInv, SerialInv, NEW w \in Workers, Alone(w),
           \/ ViewReadSource(w) \/ GetForUpdate(w) \/ GetForValidate(w)
           \/ GetForDelete(w) \/ Validate(w)
    PROVE  SerialInv'
<1> DEFINE t == th[w]
<1> USE DEF At, MergeLabels, EarlyLabels, SaveLabels, RefreshLabels, RefreshOps,
            EditOps, DeleteOps, CustomOps, bounds
<1>0. /\ TypeOK /\ t \in Thread /\ ThreadOK(t) /\ ThreadSerial(t)
      /\ faults = 0 => MergeServed(t)
  BY Before DEF FilesFit
<1>1. /\ UNCHANGED <<registries, snap, outputs, now, faults>>
      /\ t.pc \in {"viewRead", "get", "validate"}
  BY DEF ViewReadSource, GetForUpdate, GetForValidate, GetForDelete, Validate
<1>2. CASE Finish(w)
  BY <1>1, <1>2, FinishOnly DEF StaleLabels
<1>3. ASSUME NEW r, Become(w, r), r.pc \in {"viewLoad", "validate", "mutate"},
             RequestCurrent(r), r.pc = "viewLoad" => SameEdits(r.view),
             r.merged = t.merged, r.ok = t.ok, r.got = t.got
      PROVE  SerialInv'
  <2>1. ThreadSerial(r) /\ MergeServed(r)
    BY <1>0, <1>1, <1>3 DEF ThreadSerial, CopiesCurrent, MergedFromView,
       HalfSaved, MergeCovers, MergeServed
  <2>2. QED
    BY <1>1, <1>3, <2>1, ThreadOnly DEF StaleLabels
<1>4. ASSUME ~Finish(w), ViewReadSource(w)
      PROVE  SerialInv'
  <2>1. PICK r : r = [t EXCEPT !.pc = "viewLoad", !.view = sources]
    OBVIOUS
  <2>2. /\ r.pc = "viewLoad" /\ r.op = t.op /\ r.merged = t.merged /\ r.ok = t.ok
        /\ r.got = t.got /\ r.view = sources /\ r.id = t.id
        /\ t.pc = "viewRead" /\ sources[t.id] # NoSource
    BY <1>0, <1>4, <2>1 DEF Thread, ViewReadSource
  <2>3. Become(w, r)
    BY <1>4, <2>1 DEF ViewReadSource
  <2>4. RequestCurrent(r) /\ SameEdits(r.view)
    BY <1>0, <2>2 DEF RequestCurrent, SameEdits, ThreadOK, LabelOfOp
  <2>5. QED
    BY <1>3, <2>2, <2>3, <2>4
<1>5. ASSUME ~Finish(w), GetForUpdate(w)
      PROVE  SerialInv'
  <2> DEFINE next == WantedUrl(t)
  <2>1. /\ sources[t.id] # NoSource /\ t.pc = "get" /\ t.op = "patch"
        /\ \/ Become(w, [t EXCEPT !.pc = "validate", !.asked = next])
           \/ Become(w, [t EXCEPT !.pc = "mutate"])
    BY <1>5 DEF GetForUpdate, WantedUrl
  <2>2. t.val.status = "none"
    BY <1>0, <2>1 DEF ThreadSerial, RequestCurrent
  <2>3. CASE Become(w, [t EXCEPT !.pc = "validate", !.asked = next])
    <3>1. PICK r : r = [t EXCEPT !.pc = "validate", !.asked = next]
      OBVIOUS
    <3>2. /\ r.pc = "validate" /\ r.op = t.op /\ r.merged = t.merged /\ r.ok = t.ok
          /\ r.got = t.got /\ r.id = t.id /\ r.asked = next /\ r.val = t.val
          /\ r.url = t.url
      BY <1>0, <3>1 DEF Thread
    <3>3. RequestCurrent(r)
      BY <2>1, <2>2, <3>2 DEF RequestCurrent, WantedUrl
    <3>4. QED
      BY <1>3, <2>3, <3>1, <3>2, <3>3
  <2>4. CASE Become(w, [t EXCEPT !.pc = "mutate"])
    <3>1. PICK r : r = [t EXCEPT !.pc = "mutate"]
      OBVIOUS
    <3>2. /\ r.pc = "mutate" /\ r.op = t.op /\ r.merged = t.merged /\ r.ok = t.ok
          /\ r.got = t.got /\ r.id = t.id /\ r.val = t.val
      BY <1>0, <3>1 DEF Thread
    <3>3. RequestCurrent(r)
      BY <2>1, <2>2, <3>2 DEF RequestCurrent
    <3>4. QED
      BY <1>3, <2>4, <3>1, <3>2, <3>3
  <2>5. QED
    BY <2>1, <2>3, <2>4
<1>6. ASSUME ~Finish(w), GetForValidate(w)
      PROVE  SerialInv'
  <2>1. PICK r : r = [t EXCEPT !.pc = "validate", !.asked = sources[t.id].url]
    OBVIOUS
  <2>2. /\ r.pc = "validate" /\ r.op = t.op /\ r.merged = t.merged /\ r.ok = t.ok
        /\ r.got = t.got /\ r.id = t.id /\ r.asked = sources[t.id].url
        /\ r.val = t.val /\ r.url = t.url /\ t.op = "validate" /\ t.pc = "get"
        /\ sources[t.id] # NoSource
    BY <1>0, <1>6, <2>1 DEF Thread, GetForValidate
  <2>3. Become(w, r)
    BY <1>6, <2>1 DEF GetForValidate
  <2>4. RequestCurrent(r)
    BY <1>0, <2>2 DEF ThreadSerial, RequestCurrent, WantedUrl
  <2>5. QED
    BY <1>3, <2>2, <2>3, <2>4
<1>7. ASSUME ~Finish(w), GetForDelete(w)
      PROVE  SerialInv'
  <2>1. PICK id \in Registered(sources) :
          Become(w, [t EXCEPT !.pc = "mutate", !.id = id])
    BY <1>7 DEF GetForDelete
  <2>2. PICK r : r = [t EXCEPT !.pc = "mutate", !.id = id]
    OBVIOUS
  <2>3. /\ r.pc = "mutate" /\ r.op = t.op /\ r.merged = t.merged /\ r.ok = t.ok
        /\ r.got = t.got /\ r.val = t.val /\ t.op = "deleteByUrl" /\ t.pc = "get"
    BY <1>0, <1>7, <2>2 DEF Thread, GetForDelete
  <2>4. RequestCurrent(r)
    BY <1>0, <2>3 DEF ThreadSerial, RequestCurrent
  <2>5. QED
    BY <1>3, <2>1, <2>2, <2>3, <2>4
<1>8. ASSUME ~Finish(w), Validate(w)
      PROVE  SerialInv'
  <2>1. PICK v \in Validations(t.asked, {}) :
          Become(w, [t EXCEPT !.pc = "mutate", !.val = v])
    BY <1>8 DEF Validate
  <2>2. PICK r : r = [t EXCEPT !.pc = "mutate", !.val = v]
    OBVIOUS
  <2>3. /\ r.pc = "mutate" /\ r.op = t.op /\ r.merged = t.merged /\ r.ok = t.ok
        /\ r.got = t.got /\ r.val = v /\ r.id = t.id /\ r.url = t.url
        /\ r.asked = t.asked /\ t.pc = "validate"
    BY <1>0, <1>8, <2>2 DEF Thread, Validate
  <2>4. v.status = "valid" => v.channels \subseteq Serves[t.asked]
    BY ValidationServed
  <2>5. RequestCurrent(r)
    BY <1>0, <2>3, <2>4 DEF ThreadSerial, RequestCurrent, WantedUrl, ThreadOK,
       InputOfLabel
  <2>6. QED
    BY <1>3, <2>1, <2>2, <2>3, <2>5
<1>9. QED
  BY <1>2, <1>4, <1>5, <1>6, <1>7, <1>8

\* A view of a source reads its cache entry.
LEMMA ViewLoadSerial ==
    ASSUME TypeInv, SerialInv, NEW w \in Workers, Alone(w), ViewLoadCache(w)
    PROVE  SerialInv'
<1> DEFINE t == th[w]
<1>0. /\ TypeOK /\ t \in Thread /\ ThreadOK(t) /\ ThreadSerial(t)
  BY Before
<1>1. t.pc = "viewLoad" /\ t.id \in Ids
  BY <1>0 DEF ViewLoadCache, At, ThreadOK, LabelOfOp, InputOfLabel
<1>2. sources[t.id] # NoSource /\ t.view[t.id].url = sources[t.id].url
  BY <1>0, <1>1 DEF ThreadSerial, CopiesCurrent, RequestCurrent, SameEdits
<1>3. PICK r : r = IdleThread
  OBVIOUS
<1>4. r.pc = "idle" /\ r.op = "none"
  BY <1>3 DEF IdleThread
<1>5. ThreadSerial(r)' /\ MergeServed(r)'
  BY <1>4, IdleSerialNext
<1>6. QED
  BY <1>1, <1>2, <1>3, <1>5, LoadStep DEF ViewLoadCache, Finish, bounds

\* A request that has made its edit knows no more than its source.
LEMMA EditedSerial ==
    ASSUME NEW t, ThreadSerial(t), t.pc \in {"mutate", "mutateCustom", "snapshot", "unlink"},
           NEW r, r.pc \in {"snapshot", "unlink", "rebuildCustom"},
           r.merged = t.merged, r.ok = t.ok, r.got = t.got,
           RequestCurrent(r)'
    PROVE  ThreadSerial(r)' /\ MergeServed(r)'
<1> USE DEF MergeLabels, EarlyLabels, SaveLabels
<1>1. CopiesCurrent(r)' /\ MergedFromView(r)'
  BY DEF ThreadSerial, CopiesCurrent, MergedFromView
<1>2. HalfSaved(r)' /\ MergeCovers(r)' /\ MergeServed(r)'
  BY DEF HalfSaved, MergeCovers, MergeServed
<1>3. QED
  BY <1>1, <1>2 DEF ThreadSerial

\* A source is registered.
LEMMA CreateSerial ==
    ASSUME TypeInv, SerialInv, NEW w \in Workers, Alone(w), CreateSource(w)
    PROVE  SerialInv'
<1> DEFINE t == th[w]
           valid == t.val.status = "valid"
           new == [url |-> t.url, enabled |-> valid, lastOk |-> 0, lastError |-> "none"]
<1> USE DEF At, EditOps, DeleteOps, CustomOps, bounds
<1>0. /\ TypeOK /\ t \in Thread /\ ThreadOK(t) /\ ThreadSerial(t) /\ IdsInOrder
      /\ faults = 0 => FilesFit(t)
  BY Before
<1>1. /\ UNCHANGED <<custom, snap, outputs, now, faults>>
      /\ t.pc = "mutate" /\ t.op = "add"
  BY DEF CreateSource
<1>2. CASE Finish(w) /\ UNCHANGED <<sources, nextId>>
  BY <1>1, <1>2, FinishOnly DEF StaleLabels, registries
<1>3. CASE ~(Finish(w) /\ UNCHANGED <<sources, nextId>>)
  <2>1. /\ nextId <= MaxId
        /\ sources' = [sources EXCEPT ![nextId] = new]
        /\ nextId' = nextId + 1
        /\ valid => Become(w, [t EXCEPT !.pc = "snapshot", !.id = nextId])
        /\ ~valid => Become(w, IdleThread)
    BY <1>0, <1>3, CatalogAssumption DEF CreateSource, Finish, TypeOK
  <2>2. nextId \in Ids /\ nextId \in Nat
    BY <1>0, <2>1, CatalogAssumption DEF TypeOK, Ids
  <2>3. sources[nextId] = NoSource
    BY <1>0, <2>2 DEF IdsInOrder, Registered
  <2>4. /\ sources'[nextId] = new
        /\ \A i \in Ids : i # nextId => sources'[i] = sources[i]
    BY <1>0, <2>1, <2>2 DEF TypeOK, Registry
  <2>5. new \in Source /\ new # NoSource
    <3>1. t.url \in Urls /\ valid \in BOOLEAN
      BY <1>0, <1>1 DEF ThreadOK, InputOfLabel
    <3> HIDE DEF valid
    <3>2. new \in Source
      BY <3>1 DEF Source, Errors
    <3>3. QED
      BY <3>2, NullAssumption
  <2>6. IdsInOrder'
    <3>1. \A i \in Ids : i \in Nat
      BY CatalogAssumption DEF Ids
    <3>2. \A i \in Ids : sources'[i] # NoSource => i = nextId \/ i < nextId
      BY <1>0, <2>4 DEF IdsInOrder, Registered
    <3>3. QED
      BY <2>1, <2>2, <3>1, <3>2 DEF IdsInOrder, Registered
  <2>7. Active' = IF valid THEN Active \cup {nextId} ELSE Active
    <3>1. new.enabled = valid /\ valid \in BOOLEAN
      OBVIOUS
    <3> HIDE DEF new, valid
    <3>2. \A i \in Ids : i \in Active' <=> i \in Active \/ (i = nextId /\ valid)
      BY <2>2, <2>3, <2>4, <2>5, <3>1 DEF Active
    <3>3. QED
      BY <2>2, <3>2 DEF Active
  <2>8. nextId \notin Active /\ Active \subseteq Ids
    BY <2>3 DEF Active
  <2>9. UNCHANGED <<channels, channelsAt, m3u, Published, CustomStreams>>
    BY <1>1 DEF outputs, Published, CustomStreams
  <2>10. ASSUME faults = 0
         PROVE  /\ \A i \in Ids : snap'[i] # NoSnap => sources'[i] # NoSource
                /\ \A i \in Active : Due(i)' => snap'[i].channels \subseteq Published'
                /\ \A i \in Active :
                     \/ snap'[i] # NoSnap /\ snap'[i].channels \subseteq Serves[sources'[i].url]
                     \/ snap'[i] = NoSnap /\ \A e \in channels' : e.id = i => e.url = sources'[i].url
                /\ \/ channelsAt' = 0
                   \/ {e.stream : e \in {f \in channels' : f.id = CustomOwner}} = CustomStreams'
                /\ m3u' = Published'
                /\ \A e \in channels' :
                     IF e.id = CustomOwner THEN e.url = NoUrl
                     ELSE e.url \in Urls /\ e.stream \in Serves[e.url]
    <3>1. FilesFit(t)
      BY <1>0, <2>10
    <3>2. \A i \in Ids : snap'[i] # NoSnap => sources'[i] # NoSource
      BY <1>1, <2>3, <2>4, <3>1 DEF FilesFit
    <3>3. \A i \in Active : Due(i)' => snap'[i].channels \subseteq Published'
      BY <1>1, <2>9, <3>1 DEF FilesFit, StaleLabels, Due, WithinTTL
    <3>4. \A i \in Active :
            \/ snap'[i] # NoSnap /\ snap'[i].channels \subseteq Serves[sources'[i].url]
            \/ snap'[i] = NoSnap /\ \A e \in channels' : e.id = i => e.url = sources'[i].url
      BY <1>1, <2>4, <2>8, <2>9, <3>1 DEF FilesFit
    <3>5. QED
      BY <1>1, <2>9, <3>1, <3>2, <3>3, <3>4 DEF FilesFit, StaleLabels
  <2>11. CASE ~valid
    <3>1. PICK r : r = IdleThread
      OBVIOUS
    <3>2. r.pc = "idle" /\ r.op = "none"
      BY <3>1 DEF IdleThread
    <3>3. ThreadSerial(r)' /\ MergeServed(r)'
      BY <3>2, IdleSerialNext
    <3>4. faults = 0 => FilesFit(r)'
      BY <2>7, <2>10, <2>11, <3>2, <3>3 DEF FilesFit
    <3>5. QED
      BY <1>1, <2>1, <2>6, <2>11, <3>1, <3>3, <3>4, After
  <2>12. CASE valid
    <3>1. PICK r : r = [t EXCEPT !.pc = "snapshot", !.id = nextId]
      OBVIOUS
    <3>2. /\ r.pc = "snapshot" /\ r.op = t.op /\ r.merged = t.merged /\ r.ok = t.ok
          /\ r.got = t.got /\ r.val = t.val /\ r.id = nextId /\ r.url = t.url
          /\ r.asked = t.asked
      BY <1>0, <3>1 DEF Thread
    <3>3. RequestCurrent(r)'
      BY <1>0, <1>1, <2>4, <2>5, <2>12, <3>2 DEF ThreadSerial, RequestCurrent
    <3>4. ThreadSerial(r)' /\ MergeServed(r)'
      BY <1>0, <1>1, <3>2, <3>3, EditedSerial
    <3>5. faults = 0 => FilesFit(r)'
      BY <2>7, <2>10, <2>12, <3>2, <3>4 DEF FilesFit, StaleLabels
    <3>6. QED
      BY <1>1, <2>1, <2>6, <2>12, <3>1, <3>4, <3>5, After
  <2>13. QED
    BY <2>11, <2>12
<1>4. QED
  BY <1>2, <1>3

\* A source is deleted, ...
LEMMA DeleteSerial ==
    ASSUME TypeInv, SerialInv, NEW w \in Workers, Alone(w), DeleteSource(w)
    PROVE  SerialInv'
<1> DEFINE t == th[w]
<1> USE DEF At, EditOps, DeleteOps, CustomOps, bounds
<1>0. /\ TypeOK /\ t \in Thread /\ ThreadOK(t) /\ ThreadSerial(t) /\ IdsInOrder
      /\ faults = 0 => FilesFit(t)
  BY Before
<1>1. /\ UNCHANGED <<nextId, custom, snap, outputs, now, faults>>
      /\ t.pc = "mutate" /\ t.op \in DeleteOps /\ t.id \in Ids
  BY <1>0 DEF DeleteSource, ThreadOK, InputOfLabel
<1>2. CASE Finish(w) /\ UNCHANGED sources
  BY <1>1, <1>2, FinishOnly DEF StaleLabels, registries
<1>3. CASE ~(Finish(w) /\ UNCHANGED sources)
  <2>1. PICK r : r = [t EXCEPT !.pc = "unlink"]
    OBVIOUS
  <2>2. /\ r.pc = "unlink" /\ r.op = t.op /\ r.merged = t.merged /\ r.ok = t.ok
        /\ r.got = t.got /\ r.val = t.val /\ r.id = t.id
    BY <1>0, <2>1 DEF Thread
  <2>3. Become(w, r) /\ sources' = [sources EXCEPT ![t.id] = NoSource]
    BY <1>3, <2>1 DEF DeleteSource
  <2>4. /\ sources'[t.id] = NoSource
        /\ \A i \in Ids : i # t.id => sources'[i] = sources[i]
    BY <1>0, <1>1, <2>3 DEF TypeOK, Registry
  <2>5. RequestCurrent(r)'
    BY <1>0, <1>1, <2>2, <2>4 DEF ThreadSerial, RequestCurrent
  <2>6. ThreadSerial(r)' /\ MergeServed(r)'
    BY <1>0, <1>1, <2>2, <2>5, EditedSerial
  <2>7. IdsInOrder'
    BY <1>0, <1>1, <2>4 DEF IdsInOrder, Registered
  <2>8. Active' \subseteq Active \ {t.id} /\ Active \subseteq Ids
    BY <2>4 DEF Active
  <2>9. UNCHANGED <<channels, channelsAt, m3u, Published, CustomStreams>>
    BY <1>1 DEF outputs, Published, CustomStreams
  <2>10. ASSUME faults = 0
         PROVE  FilesFit(r)'
    <3>1. FilesFit(t)
      BY <1>0, <2>10
    <3>2. \A i \in Ids : snap'[i] # NoSnap => sources'[i] # NoSource \/ i = t.id
      BY <1>1, <2>4, <3>1 DEF FilesFit
    <3>3. \A i \in Active' :
            \/ snap'[i] # NoSnap /\ snap'[i].channels \subseteq Serves[sources'[i].url]
            \/ snap'[i] = NoSnap /\ \A e \in channels' : e.id = i => e.url = sources'[i].url
      BY <1>1, <2>4, <2>8, <2>9, <3>1 DEF FilesFit
    <3>4. QED
      BY <1>1, <2>2, <2>6, <2>9, <3>1, <3>2, <3>3 DEF FilesFit, StaleLabels
  <2>11. QED
    BY <1>1, <2>3, <2>6, <2>7, <2>10, After
<1>4. QED
  BY <1>2, <1>3

\* ... edited, ...
LEMMA UpdateSerial ==
    ASSUME TypeInv, SerialInv, NEW w \in Workers, Alone(w), UpdateSource(w)
    PROVE  SerialInv'
<1> DEFINE t == th[w]
           next == WantedUrl(t)
           wanted == IF t.enable = "keep" THEN sources[t.id].enabled
                     ELSE t.enable = "on"
           status == t.val.status
           on == wanted /\ status \in {"none", "valid"}
<1> USE DEF At, EditOps, DeleteOps, CustomOps, bounds
<1>0. /\ TypeOK /\ t \in Thread /\ ThreadOK(t) /\ ThreadSerial(t) /\ IdsInOrder
      /\ faults = 0 => FilesFit(t)
  BY Before
<1>1. /\ UNCHANGED <<nextId, custom, snap, outputs, now, faults>>
      /\ t.pc = "mutate" /\ t.op \in {"patch", "validate"} /\ t.id \in Ids
  BY <1>0 DEF UpdateSource, ThreadOK, InputOfLabel
<1>2. CASE Finish(w) /\ UNCHANGED sources
  BY <1>1, <1>2, FinishOnly DEF StaleLabels, registries
<1>3. CASE ~(Finish(w) /\ UNCHANGED sources)
  <2>1. /\ sources[t.id] # NoSource
        /\ ~(NeedsValidation(sources[t.id], next, wanted) /\ status = "none")
        /\ sources' = [sources EXCEPT ![t.id] = [@ EXCEPT !.url = next, !.enabled = on]]
        /\ IF status = "valid" THEN Become(w, [t EXCEPT !.pc = "snapshot"])
           ELSE IF t.op = "patch" THEN Become(w, [t EXCEPT !.pc = "rebuildCustom"])
           ELSE Finish(w)
    BY <1>3 DEF UpdateSource, WantedUrl
  <2>2. sources[t.id] \in Source /\ next \in Urls /\ on \in BOOLEAN
    BY <1>0, <1>1, <2>1 DEF TypeOK, Registry, WantedUrl, Thread, Source
  <2> HIDE DEF on
  <2>3. /\ sources'[t.id] # NoSource
        /\ sources'[t.id].url = next /\ sources'[t.id].enabled = on
        /\ \A i \in Ids : i # t.id => sources'[i] = sources[i]
    <3>1. [sources[t.id] EXCEPT !.url = next, !.enabled = on] \in Source
      BY <2>2 DEF Source
    <3>2. sources'[t.id] = [sources[t.id] EXCEPT !.url = next, !.enabled = on]
      BY <1>0, <1>1, <2>1 DEF TypeOK, Registry
    <3>3. QED
      BY <1>0, <1>1, <2>1, <2>2, <3>1, <3>2, NullAssumption
      DEF TypeOK, Registry, Source
  <2> HIDE DEF next, wanted
  <2>4. IdsInOrder'
    BY <1>0, <1>1, <2>1, <2>3 DEF IdsInOrder, Registered
  <2>5. UNCHANGED <<channels, channelsAt, m3u, Published, CustomStreams>>
    BY <1>1 DEF outputs, Published, CustomStreams
  <2>6. status # "valid" /\ t.id \in Active' => t.id \in Active /\ next = sources[t.id].url
    <3>1. status # "valid" /\ on => ~NeedsValidation(sources[t.id], next, wanted)
      BY <2>1 DEF on
    <3>2. QED
      BY <1>1, <2>1, <2>3, <3>1 DEF NeedsValidation, Active, on
  <2>7. Active' \subseteq Active \cup {t.id} /\ Active \subseteq Ids
    BY <2>3 DEF Active
  <2>8. status # "valid" =>
          Active' \subseteq Active /\ \A i \in Active' : sources'[i].url = sources[i].url
    BY <2>3, <2>6, <2>7
  <2>9. ASSUME faults = 0
        PROVE  /\ \A i \in Ids : snap'[i] # NoSnap => sources'[i] # NoSource
               /\ \A i \in Active : Due(i)' => snap'[i].channels \subseteq Published'
               /\ \A i \in Active' : i = t.id \/
                     \/ snap'[i] # NoSnap /\ snap'[i].channels \subseteq Serves[sources'[i].url]
                     \/ snap'[i] = NoSnap /\ \A e \in channels' : e.id = i => e.url = sources'[i].url
               /\ status # "valid" => \A i \in Active' :
                     \/ snap'[i] # NoSnap /\ snap'[i].channels \subseteq Serves[sources'[i].url]
                     \/ snap'[i] = NoSnap /\ \A e \in channels' : e.id = i => e.url = sources'[i].url
               /\ \/ channelsAt' = 0
                  \/ {e.stream : e \in {f \in channels' : f.id = CustomOwner}} = CustomStreams'
               /\ m3u' = Published'
               /\ \A e \in channels' :
                    IF e.id = CustomOwner THEN e.url = NoUrl
                    ELSE e.url \in Urls /\ e.stream \in Serves[e.url]
    <3>1. FilesFit(t)
      BY <1>0, <2>9
    <3>2. \A i \in Ids : snap'[i] # NoSnap => sources'[i] # NoSource
      BY <1>1, <2>3, <3>1 DEF FilesFit
    <3>3. \A i \in Active : Due(i)' => snap'[i].channels \subseteq Published'
      BY <1>1, <2>5, <3>1 DEF FilesFit, StaleLabels, Due, WithinTTL
    <3>4. \A i \in Active :
            \/ snap[i] # NoSnap /\ snap[i].channels \subseteq Serves[sources[i].url]
            \/ snap[i] = NoSnap /\ \A e \in channels : e.id = i => e.url = sources[i].url
      BY <1>1, <3>1 DEF FilesFit
    <3>5. \A i \in Active' : i = t.id \/
            \/ snap'[i] # NoSnap /\ snap'[i].channels \subseteq Serves[sources'[i].url]
            \/ snap'[i] = NoSnap /\ \A e \in channels' : e.id = i => e.url = sources'[i].url
      BY <1>1, <2>3, <2>5, <2>7, <3>4
    <3>6. status # "valid" => \A i \in Active' :
            \/ snap'[i] # NoSnap /\ snap'[i].channels \subseteq Serves[sources'[i].url]
            \/ snap'[i] = NoSnap /\ \A e \in channels' : e.id = i => e.url = sources'[i].url
      BY <1>1, <2>5, <2>8, <3>4
    <3>7. QED
      BY <1>1, <2>5, <3>1, <3>2, <3>3, <3>5, <3>6 DEF FilesFit, StaleLabels
  <2>10. CASE status = "valid"
    <3>1. PICK r : r = [t EXCEPT !.pc = "snapshot"]
      OBVIOUS
    <3>2. /\ r.pc = "snapshot" /\ r.op = t.op /\ r.merged = t.merged /\ r.ok = t.ok
          /\ r.got = t.got /\ r.val = t.val /\ r.id = t.id /\ r.url = t.url
          /\ r.asked = t.asked
      BY <1>0, <3>1 DEF Thread
    <3>3. RequestCurrent(r)'
      BY <1>0, <1>1, <2>3, <2>10, <3>2 DEF ThreadSerial, RequestCurrent, next
    <3>4. ThreadSerial(r)' /\ MergeServed(r)'
      BY <1>0, <1>1, <3>2, <3>3, EditedSerial
    <3>5. faults = 0 => FilesFit(r)'
      BY <2>9, <3>2, <3>4 DEF FilesFit, StaleLabels
    <3>6. QED
      BY <1>1, <2>1, <2>4, <2>10, <3>1, <3>4, <3>5, After
  <2>11. CASE status # "valid" /\ t.op = "patch"
    <3>1. PICK r : r = [t EXCEPT !.pc = "rebuildCustom"]
      OBVIOUS
    <3>2. /\ r.pc = "rebuildCustom" /\ r.op = t.op /\ r.merged = t.merged
          /\ r.ok = t.ok /\ r.got = t.got /\ r.val = t.val
      BY <1>0, <3>1 DEF Thread
    <3>3. RequestCurrent(r)'
      BY <2>11, <3>2 DEF RequestCurrent
    <3>4. ThreadSerial(r)' /\ MergeServed(r)'
      BY <1>0, <1>1, <3>2, <3>3, EditedSerial
    <3>5. faults = 0 => FilesFit(r)'
      BY <2>9, <2>11, <3>2, <3>4 DEF FilesFit, StaleLabels
    <3>6. QED
      BY <1>1, <2>1, <2>4, <2>11, <3>1, <3>4, <3>5, After
  <2>12. CASE status # "valid" /\ t.op # "patch"
    <3>1. PICK r : r = IdleThread
      OBVIOUS
    <3>2. r.pc = "idle" /\ r.op = "none" /\ Become(w, r)
      BY <2>1, <2>12, <3>1 DEF IdleThread, Finish
    <3>3. ThreadSerial(r)' /\ MergeServed(r)'
      BY <3>2, IdleSerialNext
    <3>4. faults = 0 => FilesFit(r)'
      BY <2>8, <2>9, <2>12, <3>2, <3>3 DEF FilesFit
    <3>5. QED
      BY <1>1, <2>4, <3>2, <3>3, <3>4, After
  <2>13. QED
    BY <2>10, <2>11, <2>12
<1>4. QED
  BY <1>2, <1>3

\* ... or the custom channels are.
LEMMA CustomSerial ==
    ASSUME TypeInv, SerialInv, NEW w \in Workers, Alone(w), MutateCustomChannel(w)
    PROVE  SerialInv'
<1> DEFINE t == th[w]
<1> USE DEF At, EditOps, DeleteOps, CustomOps, bounds
<1>0. /\ TypeOK /\ t \in Thread /\ ThreadOK(t) /\ ThreadSerial(t) /\ IdsInOrder
      /\ faults = 0 => FilesFit(t)
  BY Before
<1>1. /\ UNCHANGED <<sources, nextId, snap, outputs, now, faults>>
      /\ t.pc = "mutateCustom" /\ t.op \in CustomOps
  BY <1>0 DEF MutateCustomChannel, ThreadOK, LabelOfOp
<1>2. CASE Finish(w) /\ UNCHANGED custom
  BY <1>1, <1>2, FinishOnly DEF StaleLabels, registries
<1>3. CASE ~(Finish(w) /\ UNCHANGED custom)
  <2>1. PICK r : r = [t EXCEPT !.pc = "rebuildCustom"]
    OBVIOUS
  <2>2. /\ r.pc = "rebuildCustom" /\ r.op = t.op /\ r.merged = t.merged
        /\ r.ok = t.ok /\ r.got = t.got /\ r.val = t.val /\ r.url = t.url
    BY <1>0, <2>1 DEF Thread
  <2>3. Become(w, r)
    BY <1>3, <2>1 DEF MutateCustomChannel
  <2>4. RequestCurrent(r)'
    BY <1>1, <2>2 DEF RequestCurrent
  <2>5. ThreadSerial(r)' /\ MergeServed(r)'
    BY <1>0, <1>1, <2>2, <2>4, EditedSerial
  <2>6. IdsInOrder'
    BY <1>0, <1>1 DEF IdsInOrder, Registered
  <2>7. UNCHANGED <<channels, channelsAt, m3u, Published, Active>>
    BY <1>1 DEF outputs, Published, Active
  <2>8. ASSUME faults = 0
        PROVE  FilesFit(r)'
    <3>1. FilesFit(t)
      BY <1>0, <2>8
    <3>2. QED
      BY <1>1, <2>2, <2>5, <2>7, <3>1 DEF FilesFit, StaleLabels, Active
  <2>9. QED
    BY <1>1, <2>3, <2>5, <2>6, <2>8, After
<1>4. QED
  BY <1>2, <1>3

\* A snapshot is replaced by a validated body, or removed after its source.
LEMMA SnapshotSerial ==
    ASSUME TypeInv, SerialInv, NEW w \in Workers, Alone(w),
           SaveValidatedSnapshot(w) \/ DeleteSourceSnapshot(w)
    PROVE  SerialInv'
<1> DEFINE t == th[w]
<1> USE DEF At, EditOps, DeleteOps, CustomOps, bounds
<1>0. /\ TypeOK /\ t \in Thread /\ ThreadOK(t) /\ ThreadSerial(t) /\ IdsInOrder
      /\ faults = 0 => FilesFit(t)
  BY Before
<1>1. /\ UNCHANGED <<registries, outputs, now, faults>>
      /\ t.pc \in {"snapshot", "unlink"}
  BY DEF SaveValidatedSnapshot, DeleteSourceSnapshot
<1>2. PICK r : r = [t EXCEPT !.pc = "rebuildCustom"]
  OBVIOUS
<1>3. /\ r.pc = "rebuildCustom" /\ r.op = t.op /\ r.merged = t.merged
      /\ r.ok = t.ok /\ r.got = t.got /\ r.val = t.val /\ r.url = t.url
  BY <1>0, <1>2 DEF Thread
<1>4. Become(w, r)
  BY <1>2 DEF SaveValidatedSnapshot, DeleteSourceSnapshot
<1>5. RequestCurrent(r)'
  BY <1>0, <1>3 DEF ThreadSerial, RequestCurrent
<1>6. ThreadSerial(r)' /\ MergeServed(r)'
  BY <1>0, <1>1, <1>3, <1>5, EditedSerial
<1>7. IdsInOrder'
  BY <1>0, <1>1 DEF IdsInOrder, Registered, registries
<1>8. UNCHANGED <<sources, channels, channelsAt, m3u, Published, Active, CustomStreams>>
  BY <1>1 DEF registries, outputs, Published, Active, CustomStreams
<1>9. t.id \in Ids
  BY <1>0, <1>1 DEF ThreadOK, LabelOfOp, InputOfLabel
<1>10. \A i \in Ids : i # t.id => snap'[i] = snap[i]
  BY <1>0, <1>9 DEF TypeOK, SaveValidatedSnapshot, DeleteSourceSnapshot
<1>11. \/ /\ sources[t.id] = NoSource /\ snap'[t.id] = NoSnap
       \/ /\ sources[t.id] # NoSource /\ snap'[t.id] # NoSnap
          /\ snap'[t.id].channels \subseteq Serves[sources[t.id].url]
  <2>1. CASE DeleteSourceSnapshot(w)
    BY <1>0, <1>9, <2>1 DEF DeleteSourceSnapshot, ThreadSerial, RequestCurrent, TypeOK
  <2>2. CASE SaveValidatedSnapshot(w)
    <3>1. /\ snap'[t.id] = [channels |-> t.val.channels, hash |-> {}, at |-> now]
          /\ t.val.channels \subseteq Streams /\ now \in Nat
      BY <1>0, <1>9, <2>2 DEF SaveValidatedSnapshot, TypeOK, Thread, Result
    <3>2. snap'[t.id] # NoSnap
      <4>1. snap'[t.id] \in Snapshot
        BY <3>1, NoHash DEF Snapshot
      <4>2. QED
        BY <4>1, NullAssumption
    <3>3. /\ sources[t.id] # NoSource
          /\ t.val.channels \subseteq Serves[sources[t.id].url]
      BY <1>0, <2>2 DEF SaveValidatedSnapshot, ThreadOK, ResultsKnown, ThreadSerial,
         RequestCurrent
    <3>4. QED
      BY <3>1, <3>2, <3>3
  <2>3. QED
    BY <2>1, <2>2
<1>12. ASSUME faults = 0
       PROVE  FilesFit(r)'
  <2>1. FilesFit(t)
    BY <1>0, <1>12
  <2>2. \A i \in Ids : snap'[i] # NoSnap => sources'[i] # NoSource
    BY <1>8, <1>10, <1>11, <2>1 DEF FilesFit
  <2>3. \A i \in Active' :
          \/ snap'[i] # NoSnap /\ snap'[i].channels \subseteq Serves[sources'[i].url]
          \/ snap'[i] = NoSnap /\ \A e \in channels' : e.id = i => e.url = sources'[i].url
    BY <1>8, <1>10, <1>11, <2>1 DEF FilesFit, Active
  <2>4. QED
    BY <1>1, <1>3, <1>6, <1>8, <2>1, <2>2, <2>3 DEF FilesFit, StaleLabels
<1>13. QED
  BY <1>1, <1>4, <1>6, <1>7, <1>12, After

-----------------------------------------------------------------------------
(* The saves.                                                              *)

Below == {p \in Nat \X Nat : p[1] < p[2]}

\* A set of numbers that is not empty has a least member.
LEMMA LeastNatural ==
    ASSUME NEW S, S \subseteq Nat, S # {}
    PROVE  \E m \in S : \A n \in S : m <= n
<1>1. Below = OpToRel(<, Nat)
  BY Zenon DEF Below, OpToRel
<1>2. IsWellFoundedOn(Below, Nat)
  BY <1>1, NatLessThanWellFounded, Zenon
<1>3. PICK m \in S : \A n \in S : ~(<<n, m>> \in Below)
  BY <1>2, WFMin
<1>4. ASSUME NEW n \in S
      PROVE  m <= n
  <2>1. <<n, m>> \in Nat \X Nat /\ <<n, m>> \notin Below
    BY <1>3
  <2>2. QED
    BY <2>1 DEF Below
<1>5. QED
  BY <1>4

\* A merge publishes all it was given: a stream of several snapshots is
\* published by the one of the least id.
LEMMA MergeListsAll ==
    ASSUME NEW t \in Thread, NEW id \in Registered(t.view)
    PROVE  t.merged[id] \subseteq {e.stream : e \in MergeOf(t)}
<1> SUFFICES ASSUME NEW s \in t.merged[id]
             PROVE  \E e \in MergeOf(t) : e.stream = s
  OBVIOUS
<1>1. CASE s \in t.seen
  <2>1. [stream |-> s, id |-> CustomOwner, url |-> NoUrl] \in MergeOf(t)
    BY <1>1 DEF MergeOf, MergeSourceSnapshots
  <2>2. QED
    BY <2>1
<1>2. CASE s \notin t.seen
  <2> DEFINE S == {j \in Registered(t.view) : s \in t.merged[j]}
  <2>1. S \subseteq Nat /\ S # {}
    BY CatalogAssumption DEF Registered, Ids
  <2>2. PICK m \in S : \A n \in S : m <= n
    BY <2>1, LeastNatural
  <2>3. \A j \in Registered(t.view) : j < m => s \notin t.merged[j]
    BY <2>1, <2>2
  <2>4. [stream |-> s, id |-> m, url |-> t.view[m].url] \in MergeOf(t)
    BY <1>2, <2>2, <2>3 DEF MergeOf, MergeSourceSnapshots
  <2>5. QED
    BY <2>4
<1>3. QED
  BY <1>1, <1>2

\* Whose an entry of a merge is.
LEMMA MergeOwners ==
    ASSUME NEW t \in Thread, NEW e \in MergeOf(t)
    PROVE  \/ e.id = CustomOwner /\ e.url = NoUrl /\ e.stream \in t.seen
           \/ /\ e.id \in Registered(t.view) /\ e.id # CustomOwner
              /\ e.stream \in t.merged[e.id] /\ e.url = t.view[e.id].url
<1>1. \A id \in Registered(t.view) : id # CustomOwner
  BY CatalogAssumption DEF Registered, Ids, CustomOwner
<1>2. QED
  BY <1>1 DEF MergeOf, MergeSourceSnapshots

\* channels.json is written.
LEMMA SaveJsonSerial ==
    ASSUME TypeInv, SerialInv, NEW w \in Workers, Alone(w), SaveJson(w)
    PROVE  SerialInv'
<1> DEFINE t == th[w]
<1> USE DEF At, MergeLabels, EarlyLabels, SaveLabels, RefreshLabels, RefreshOps,
            EditOps, DeleteOps, CustomOps, bounds
<1>0. /\ TypeOK /\ t \in Thread /\ ThreadOK(t) /\ ThreadSerial(t) /\ IdsInOrder
      /\ faults = 0 => FilesFit(t)
  BY Before
<1>1. PICK r : r = [t EXCEPT !.pc = "writeM3u"]
  OBVIOUS
<1>2. /\ r.pc = "writeM3u" /\ r.op = t.op /\ r.merged = t.merged /\ r.ok = t.ok
      /\ r.val = t.val /\ r.view = t.view /\ r.seen = t.seen /\ r.todo = t.todo
      /\ r.url = t.url /\ t.pc = "writeJson" /\ t.todo = {} /\ t \in Thread
  BY <1>0, <1>1 DEF Thread, SaveJson, ThreadOK, TodoFromView
<1>3. /\ Become(w, r) /\ channels' = MergeOf(t)
      /\ UNCHANGED <<snap, m3u, registries, now, faults>>
  BY <1>1 DEF SaveJson, MergeOf
<1>4. UNCHANGED <<sources, nextId, CustomStreams, Active>>
  BY <1>3 DEF registries, CustomStreams, Active
<1>5. SameEdits(t.view) /\ t.seen = CustomStreams
  BY <1>0, <1>2 DEF ThreadSerial, CopiesCurrent
<1>6. Active = EnabledIn(t.view) /\ Active \subseteq Registered(t.view)
  BY <1>5 DEF SameEdits, Active, EnabledIn, Registered
<1>7. CopiesCurrent(r)' /\ MergedFromView(r)'
  BY <1>0, <1>2, <1>4 DEF ThreadSerial, CopiesCurrent, SameEdits, MergedFromView
<1>8. RequestCurrent(r)'
  BY <1>0, <1>2 DEF ThreadSerial, RequestCurrent
<1>9. HalfSaved(r)'
  BY <1>2, <1>3 DEF HalfSaved, MergeOf
<1>10. \A i \in Active : Covered(t, i) /\ Covered(r, i)'
  <2>1. \A i \in Active : Covered(t, i)
    BY <1>0, <1>2, <1>6 DEF ThreadSerial, MergeCovers
  <2>2. QED
    BY <1>2, <1>3, <2>1 DEF Covered, Due, WithinTTL
<1>11. MergeCovers(r)'
  BY <1>2, <1>6, <1>10 DEF MergeCovers
<1>12. ASSUME faults = 0
       PROVE  FilesFit(r)'
  <2>1. FilesFit(t) /\ MergeServed(t)
    BY <1>0, <1>12 DEF FilesFit
  <2>2. MergeServed(r)'
    BY <1>2, <2>1 DEF MergeServed
  <2>3. \A i \in Ids : snap'[i] # NoSnap => sources'[i] # NoSource
    BY <1>2, <1>3, <1>4, <2>1 DEF FilesFit
  <2>4. {e.stream : e \in {f \in channels' : f.id = CustomOwner}} = CustomStreams'
    <3>1. \A s \in t.seen : [stream |-> s, id |-> CustomOwner, url |-> NoUrl] \in MergeOf(t)
      BY DEF MergeOf, MergeSourceSnapshots
    <3>2. \A e \in MergeOf(t) : e.id = CustomOwner => e.stream \in t.seen
      BY <1>2, MergeOwners
    <3>3. \A s \in t.seen : \E e \in MergeOf(t) : e.id = CustomOwner /\ e.stream = s
      <4>1. TAKE s \in t.seen
      <4> DEFINE e == [stream |-> s, id |-> CustomOwner, url |-> NoUrl]
      <4>2. e \in MergeOf(t) /\ e.id = CustomOwner /\ e.stream = s
        BY <3>1
      <4>3. QED
        BY <4>2
    <3>4. {e.stream : e \in {f \in MergeOf(t) : f.id = CustomOwner}} = t.seen
      BY <3>2, <3>3
    <3>5. QED
      BY <1>3, <1>4, <1>5, <3>4
  <2>5. \A i \in Active' : Due(i)' => snap'[i].channels \subseteq Published'
    <3>1. TAKE i \in Active'
    <3>2. t.merged[i] \subseteq {e.stream : e \in MergeOf(t)}
      BY <1>2, <1>4, <1>6, MergeListsAll
    <3>3. Due(i)' => snap'[i].channels \subseteq t.merged[i]
      BY <1>2, <1>4, <1>10 DEF Covered
    <3>4. QED
      BY <1>3, <3>2, <3>3 DEF Published
  <2>6. \A e \in channels' :
          IF e.id = CustomOwner THEN e.url = NoUrl
          ELSE e.url \in Urls /\ e.stream \in Serves[e.url]
    <3>1. TAKE e \in channels'
    <3>2. CASE e.id = CustomOwner
      BY <1>2, <1>3, <3>2, MergeOwners DEF CustomOwner, Registered, Ids
    <3>3. CASE e.id # CustomOwner
      <4>1. /\ e.id \in Registered(t.view) /\ e.stream \in t.merged[e.id]
            /\ e.url = t.view[e.id].url
        BY <1>2, <1>3, <3>3, MergeOwners
      <4>2. e.id \in EnabledIn(t.view)
        BY <1>0, <1>2, <4>1 DEF ThreadSerial, MergedFromView, Registered
      <4>3. e.stream \in Serves[e.url]
        BY <1>2, <2>1, <4>1, <4>2 DEF MergeServed
      <4>4. e.url \in Urls
        BY <1>2, <4>1 DEF Thread, Registry, Registered, Source
      <4>5. QED
        BY <3>3, <4>3, <4>4
    <3>4. QED
      BY <3>2, <3>3
  <2>7. \A i \in Active' :
          \/ snap'[i] # NoSnap /\ snap'[i].channels \subseteq Serves[sources'[i].url]
          \/ snap'[i] = NoSnap /\ \A e \in channels' : e.id = i => e.url = sources'[i].url
    <3>1. \A e \in channels', i \in Active : e.id = i => e.url = sources[i].url
      <4>1. \A i \in Active : i # CustomOwner /\ t.view[i].url = sources[i].url
        BY <1>5, CatalogAssumption DEF Active, SameEdits, Ids, CustomOwner
      <4>2. QED
        BY <1>2, <1>3, <4>1, MergeOwners
    <3>2. QED
      BY <1>2, <1>3, <1>4, <2>1, <3>1 DEF FilesFit
  <2>8. QED
    BY <1>2, <2>2, <2>3, <2>4, <2>5, <2>6, <2>7 DEF FilesFit
<1>13. IdsInOrder'
  BY <1>0, <1>4 DEF IdsInOrder, Registered
<1>14. QED
  BY <1>3, <1>7, <1>8, <1>9, <1>11, <1>12, <1>13, After DEF ThreadSerial

\* ace_hls.m3u is written, or either write fails.
LEMMA SaveEndSerial ==
    ASSUME TypeInv, SerialInv, NEW w \in Workers, Alone(w), SaveM3u(w) \/ SaveFails(w)
    PROVE  SerialInv'
<1> DEFINE t == th[w]
<1> USE DEF At, MergeLabels, EarlyLabels, SaveLabels, RefreshLabels, RefreshOps,
            EditOps, DeleteOps, CustomOps, bounds
<1>0. /\ TypeOK /\ t \in Thread /\ ThreadOK(t) /\ ThreadSerial(t) /\ IdsInOrder
      /\ faults = 0 => FilesFit(t)
  BY Before
<1>1. UNCHANGED <<snap, channels, channelsAt, registries, now>>
  BY DEF SaveM3u, SaveFails, outputs
<1>2. UNCHANGED <<sources, nextId, Published, CustomStreams, Active>>
  BY <1>1 DEF registries, Published, CustomStreams, Active
<1>3. PICK r : /\ Become(w, r)
               /\ \/ r = IdleThread
                  \/ r = [t EXCEPT !.pc = "accepted"]
  BY DEF SaveM3u, SaveFails, AfterSave, Finish
<1>4. ThreadSerial(r)' /\ MergeServed(r)' /\ r.pc \in {"idle", "accepted"}
  <2>1. CASE r = IdleThread
    <3>1. r.pc = "idle" /\ r.op = "none"
      BY <2>1 DEF IdleThread
    <3>2. QED
      BY <3>1, IdleSerialNext
  <2>2. CASE r = [t EXCEPT !.pc = "accepted"]
    <3>1. r.pc = "accepted" /\ r.op = t.op /\ r.url = t.url
      BY <1>0, <2>2 DEF Thread
    <3>2. CopiesCurrent(r)' /\ MergedFromView(r)'
      BY <3>1 DEF CopiesCurrent, MergedFromView
    <3>3. RequestCurrent(r)' /\ HalfSaved(r)'
      BY <1>0, <3>1 DEF ThreadSerial, RequestCurrent, HalfSaved
    <3>4. MergeCovers(r)' /\ MergeServed(r)'
      BY <3>1 DEF MergeCovers, MergeServed
    <3>5. QED
      BY <3>1, <3>2, <3>3, <3>4 DEF ThreadSerial
  <2>3. QED
    BY <1>3, <2>1, <2>2
<1>5. IdsInOrder'
  BY <1>0, <1>2 DEF IdsInOrder, Registered
<1>6. ASSUME faults' = 0
      PROVE  FilesFit(r)'
  <2>1. SaveM3u(w) /\ faults = 0
    BY <1>0, <1>6 DEF SaveFails, SaveM3u, TypeOK
  <2>2. FilesFit(t) /\ t.pc = "writeM3u"
    BY <1>0, <2>1 DEF SaveM3u
  <2>3. m3u' = Published'
    <3>1. channels = MergeOf(t)
      BY <1>0, <2>2 DEF ThreadSerial, HalfSaved
    <3>2. m3u' = {e.stream : e \in MergeOf(t)}
      BY <2>1 DEF SaveM3u, RenderDirectM3u, MergeOf
    <3>3. QED
      BY <1>1, <3>1, <3>2 DEF Published
  <2>4. /\ \A i \in Ids : snap'[i] # NoSnap => sources'[i] # NoSource
        /\ \A i \in Active' : Due(i)' => snap'[i].channels \subseteq Published'
    BY <1>1, <1>2, <2>2 DEF FilesFit, StaleLabels, Due, WithinTTL
  <2>5. \A i \in Active' :
          \/ snap'[i] # NoSnap /\ snap'[i].channels \subseteq Serves[sources'[i].url]
          \/ snap'[i] = NoSnap /\ \A e \in channels' : e.id = i => e.url = sources'[i].url
    BY <1>1, <1>2, <2>2 DEF FilesFit
  <2>6. QED
    BY <1>1, <1>2, <1>4, <2>2, <2>3, <2>4, <2>5 DEF FilesFit, StaleLabels
<1>7. QED
  BY <1>3, <1>4, <1>5, <1>6, After

-----------------------------------------------------------------------------
(* The catalogue while operations do not overlap.                          *)

\* At first nothing is published, nothing is cached and no operation is under way.
LEMMA SerialInit == Init => SerialInv
<1> SUFFICES ASSUME Init PROVE SerialInv
  OBVIOUS
<1>1. IdsInOrder
  <2>1. PICK k \in 0..MaxId : InitialUrl \in [1..k -> Urls]
    BY CatalogAssumption
  <2>2. DOMAIN InitialUrl = 1..k /\ k \in Nat
    BY <2>1, CatalogAssumption
  <2>3. nextId = k + 1
    <3>1. Cardinality(1..k) = k
      BY <2>2, FS_Interval
    <3>2. QED
      BY <2>2, <3>1 DEF Init
  <2>4. Registered(sources) \subseteq 1..k
    BY <2>2 DEF Init, Registered
  <2>5. QED
    BY <2>2, <2>3, <2>4 DEF IdsInOrder
<1>2. \A w \in Workers : ThreadSerial(th[w]) /\ MergeServed(th[w])
  BY IdleSerial DEF Init, IdleThread
<1>3. SnapshotsOwned /\ CustomListed /\ DuePublished /\ OutputsRendered
  BY DEF Init, SnapshotsOwned, CustomListed, DuePublished, Due, Active,
     OutputsRendered, Published
<1>4. ServedByUrl
  BY <1>2 DEF Init, ServedByUrl, Active
<1>5. QED
  BY <1>1, <1>2, <1>3, <1>4 DEF SerialInv

\* A tick lets snapshots expire and does nothing else.
LEMMA TickSerial ==
    ASSUME TypeInv, SerialInv, Tick
    PROVE  SerialInv'
<1>1. /\ now' = now + 1 /\ UNCHANGED <<snap, th, faults, registries, outputs>>
      /\ TypeOK
  BY DEF Tick, TypeInv
<1>2. UNCHANGED <<sources, nextId, custom, channels, channelsAt, m3u, Active, Published,
                  CustomStreams>>
  BY <1>1 DEF registries, outputs, Active, Published, CustomStreams
<1>3. \A id \in Ids : Due(id)' => Due(id)
  <2>1. \A id \in Ids : snap[id] # NoSnap => snap[id].at \in Nat
    BY <1>1 DEF TypeOK, Snapshot
  <2>2. QED
    BY <1>1, <2>1, CatalogAssumption DEF Due, WithinTTL, TypeOK
<1>4. ASSUME NEW w \in Workers
      PROVE  ThreadSerial(th[w])' /\ (MergeServed(th[w]) => MergeServed(th[w])')
  <2>1. PICK t : t = th[w]
    OBVIOUS
  <2>2. th'[w] = t /\ ThreadSerial(t) /\ EnabledIn(t.view) \subseteq Ids
    BY <1>1, <2>1, EnabledType DEF SerialInv
  <2>3. CopiesCurrent(t)' /\ MergedFromView(t)'
    BY <1>2, <2>2 DEF ThreadSerial, CopiesCurrent, SameEdits, MergedFromView
  <2>4. RequestCurrent(t)' /\ HalfSaved(t)'
    BY <1>2, <2>2 DEF ThreadSerial, RequestCurrent, WantedUrl, HalfSaved, MergeOf
  <2>5. MergeCovers(t)'
    <3>1. \A id \in Ids : Covered(t, id) => Covered(t, id)'
      BY <1>1, <1>3 DEF Covered
    <3>2. QED
      BY <1>1, <2>2, <3>1 DEF ThreadSerial, MergeCovers, InHand
  <2>6. MergeServed(t) => MergeServed(t)'
    BY DEF MergeServed
  <2>7. QED
    BY <2>1, <2>2, <2>3, <2>4, <2>5, <2>6 DEF ThreadSerial
<1>5. IdsInOrder'
  BY <1>2 DEF SerialInv, IdsInOrder, Registered
<1>6. ASSUME faults' = 0
      PROVE  (SnapshotsOwned /\ CustomListed /\ DuePublished /\ OutputsRendered
                /\ ServedByUrl)'
  <2>1. SnapshotsOwned /\ CustomListed /\ DuePublished /\ OutputsRendered /\ ServedByUrl
    BY <1>1, <1>6 DEF SerialInv
  <2>2. SnapshotsOwned' /\ CustomListed' /\ OutputsRendered'
    BY <1>1, <1>2, <2>1 DEF SnapshotsOwned, CustomListed, OutputsRendered, About,
       Somewhere, At
  <2>3. DuePublished'
    BY <1>1, <1>2, <1>3, <2>1 DEF DuePublished, Active, Somewhere
  <2>4. ServedByUrl'
    BY <1>1, <1>2, <1>4, <2>1 DEF ServedByUrl, About, At
  <2>5. QED
    BY <2>2, <2>3, <2>4
<1>7. QED
  BY <1>4, <1>5, <1>6 DEF SerialInv

\* A crash forgets what threads knew.
LEMMA CrashSerial ==
    ASSUME TypeInv, SerialInv, Crash
    PROVE  SerialInv'
<1>1. faults' # 0 /\ UNCHANGED <<sources, nextId>>
  BY DEF Crash, TypeInv, TypeOK, registries
<1>2. PICK r : r = IdleThread
  OBVIOUS
<1>3. \A w \in Workers : th'[w] = r
  BY <1>2 DEF Crash
<1>4. ThreadSerial(r)'
  BY <1>2, IdleSerialNext DEF IdleThread
<1>5. IdsInOrder'
  BY <1>1 DEF SerialInv, IdsInOrder, Registered
<1>6. QED
  BY <1>1, <1>3, <1>4, <1>5 DEF SerialInv

\* A stuttering step disturbs nothing.
LEMMA StutterSerial ==
    ASSUME SerialInv, UNCHANGED vars
    PROVE  SerialInv'
<1> USE DEF vars, registries, outputs, bounds
<1>1. IdsInOrder'
  BY DEF SerialInv, IdsInOrder, Registered
<1>2. \A w \in Workers : /\ ThreadSerial(th[w])'
                         /\ MergeServed(th[w]) => MergeServed(th[w])'
  <2>1. TAKE w \in Workers
  <2>2. PICK t : t = th[w]
    OBVIOUS
  <2>3. th'[w] = t /\ ThreadSerial(t)
    BY <2>2 DEF SerialInv
  <2>4. ThreadSerial(t)' /\ (MergeServed(t) => MergeServed(t)')
    BY <2>3, SameFiles
  <2>5. QED
    BY <2>2, <2>3, <2>4
<1>3. ASSUME faults' = 0
      PROVE  (SnapshotsOwned /\ CustomListed /\ DuePublished /\ OutputsRendered
                /\ ServedByUrl)'
  <2>1. SnapshotsOwned /\ CustomListed /\ DuePublished /\ OutputsRendered /\ ServedByUrl
    BY <1>3 DEF SerialInv
  <2>2. SnapshotsOwned' /\ CustomListed' /\ OutputsRendered'
    BY <2>1 DEF SnapshotsOwned, CustomListed, OutputsRendered, About, Somewhere, At,
       Published, CustomStreams
  <2>3. DuePublished'
    BY <2>1 DEF DuePublished, Active, Somewhere, Due, WithinTTL, Published
  <2>4. ServedByUrl'
    BY <1>2, <2>1 DEF ServedByUrl, About, At, Active
  <2>5. QED
    BY <2>2, <2>3, <2>4
<1>4. QED
  BY <1>1, <1>2, <1>3 DEF SerialInv

\* Every step of a thread that is alone, and every step of the rest, keeps the
\* invariant.
LEMMA SerialStep ==
    TypeInv /\ SerialInv /\ OneAtATime /\ OneAtATime' /\ [Next]_vars => SerialInv'
<1> SUFFICES ASSUME TypeInv, SerialInv, OneAtATime, OneAtATime', [Next]_vars
             PROVE  SerialInv'
  OBVIOUS
<1>1. ASSUME NEW w \in Workers, BeginOperation(w) \/ Work(w) \/ SaveFails(w)
      PROVE  SerialInv'
  <2>1. Alone(w)
    BY <1>1, AloneStep
  <2>2. CASE BeginOperation(w)
    BY <2>1, <2>2, BeginSerial
  <2>3. CASE Refresh(w)
    BY <2>1, <2>3, RefreshReadSerial, FetchSerial, FetchLoadSerial, CommitSerial,
       RecordSerial DEF Refresh
  <2>4. CASE Rebuild(w)
    BY <2>1, <2>4, RebuildReadSerial, RebuildLoadSerial DEF Rebuild
  <2>5. CASE Save(w) \/ SaveFails(w)
    BY <2>1, <2>5, SaveJsonSerial, SaveEndSerial DEF Save
  <2>6. CASE Handle(w)
    BY <2>1, <2>6, HandleReadSerial, ViewLoadSerial, CreateSerial, UpdateSerial,
       DeleteSerial, CustomSerial, SnapshotSerial, RecordSerial DEF Handle
  <2>7. QED
    BY <1>1, <2>2, <2>3, <2>4, <2>5, <2>6 DEF Work
<1>2. CASE Tick
  BY <1>2, TickSerial
<1>3. CASE Crash
  BY <1>3, CrashSerial
<1>4. CASE UNCHANGED vars
  BY <1>4, StutterSerial
<1>5. QED
  BY <1>1, <1>2, <1>3, <1>4 DEF Next, Rest

\* One thread always takes turns.
LEMMA OneThread ==
    ASSUME \A v, w \in Workers : v = w
    PROVE  OneAtATime
BY DEF OneAtATime

\* While operations do not overlap, an operation works from what the files
\* hold, and leaves them agreeing.
THEOREM SerialCorrect == Spec /\ []OneAtATime => []SerialInv
BY SerialInit, SerialStep, TypeCorrectness, PTL DEF Spec

\* After each operation ace_hls.m3u lists what channels.json does.
THEOREM OutputsAgreeCorrect == Spec /\ []OneAtATime => []OutputsAgree
<1>1. SerialInv => OutputsAgree
  BY DEF SerialInv, OutputsRendered, OutputsAgree, Undisturbed, Quiet, Somewhere, At
<1>2. QED
  BY <1>1, SerialCorrect, PTL

\* After each operation the custom channels published are those of the file.
THEOREM CustomPublishedCorrect == Spec /\ []OneAtATime => []CustomPublished
<1>1. SerialInv => CustomPublished
  BY DEF SerialInv, CustomListed, CustomPublished, Undisturbed, Quiet, Somewhere, At,
     StaleLabels
<1>2. QED
  BY <1>1, SerialCorrect, PTL

\* After each operation every snapshot belongs to a source.
THEOREM NoOrphanSnapshotCorrect == Spec /\ []OneAtATime => []NoOrphanSnapshot
<1>1. SerialInv => NoOrphanSnapshot
  BY DEF SerialInv, SnapshotsOwned, NoOrphanSnapshot, Undisturbed, Quiet, About, At,
     Registered
<1>2. QED
  BY <1>1, SerialCorrect, PTL

\* After each operation whatever an enabled source has that is within both
\* TTLs is published.
THEOREM FreshSourcesPublishedCorrect == Spec /\ []OneAtATime => []FreshSourcesPublished
<1>1. SerialInv => FreshSourcesPublished
  BY DEF SerialInv, DuePublished, Due, FreshSourcesPublished, Undisturbed, Quiet,
     Somewhere, At, StaleLabels
<1>2. QED
  BY <1>1, SerialCorrect, PTL

\* In every state what is published under a URL was listed by it.
THEOREM EntriesServedCorrect == Spec /\ []OneAtATime => []EntriesServed
<1>1. SerialInv => EntriesServed
  BY DEF SerialInv, ServedByUrl, EntriesServed
<1>2. QED
  BY <1>1, SerialCorrect, PTL

\* A source is enabled only by a request that has just validated its URL.
THEOREM EnabledOnlyAfterValidationCorrect ==
    Spec /\ []OneAtATime => EnabledOnlyAfterValidation
<1> DEFINE Validated == \A id \in Active' \ Active :
                          \E w \in Workers : /\ th[w].val.status = "valid"
                                             /\ th[w].asked = sources'[id].url
<1>1. TypeInv /\ SerialInv /\ [Next]_vars => Validated
  <2> SUFFICES ASSUME TypeInv, SerialInv, [Next]_vars, NEW id \in Active' \ Active
               PROVE  \E w \in Workers : /\ th[w].val.status = "valid"
                                         /\ th[w].asked = sources'[id].url
    OBVIOUS
  <2>1. TypeOK /\ \A w \in Workers : /\ th[w] \in Thread /\ ThreadOK(th[w])
                                     /\ ThreadSerial(th[w])
    BY DEF TypeInv, TypeOK, SerialInv
  <2>2. CASE UNCHANGED sources
    BY <2>2 DEF Active
  <2>3. ASSUME NEW w \in Workers, CreateSource(w)
        PROVE  th[w].val.status = "valid" /\ th[w].asked = sources'[id].url
    <3> DEFINE valid == th[w].val.status = "valid"
               new == [url |-> th[w].url, enabled |-> valid, lastOk |-> 0,
                       lastError |-> "none"]
    <3>1. ~UNCHANGED sources
      BY DEF Active
    <3>2. sources' = [sources EXCEPT ![nextId] = new]
      BY <2>3, <3>1 DEF CreateSource
    <3> HIDE DEF new
    <3>3. id = nextId /\ sources'[id] = new
      BY <2>1, <3>2 DEF TypeOK, Registry, Active
    <3>4. new.enabled /\ sources'[id].url = new.url
      BY <3>3 DEF Active
    <3>5. new.enabled = valid /\ new.url = th[w].url
      BY DEF new
    <3>6. th[w].asked = th[w].url
      BY <2>1, <2>3 DEF CreateSource, At, ThreadSerial, RequestCurrent
    <3>7. QED
      BY <3>4, <3>5, <3>6
  <2>4. ASSUME NEW w \in Workers, UpdateSource(w)
        PROVE  th[w].val.status = "valid" /\ th[w].asked = sources'[id].url
    <3> DEFINE t == th[w]
               next == WantedUrl(t)
               wanted == IF t.enable = "keep" THEN sources[t.id].enabled
                         ELSE t.enable = "on"
               on == wanted /\ t.val.status \in {"none", "valid"}
    <3>1. ~UNCHANGED sources
      BY DEF Active
    <3>2. /\ sources' = [sources EXCEPT ![t.id] = [@ EXCEPT !.url = next, !.enabled = on]]
          /\ sources[t.id] # NoSource
          /\ ~(NeedsValidation(sources[t.id], next, wanted) /\ t.val.status = "none")
          /\ t.pc = "mutate" /\ t.op \in {"patch", "validate"}
      BY <2>4, <3>1 DEF UpdateSource, WantedUrl, At
    <3>3. t.id \in Ids /\ sources[t.id] \in Source
      BY <2>1, <3>2 DEF ThreadOK, InputOfLabel, TypeOK, Registry
    <3> HIDE DEF next, on
    <3>4. id = t.id /\ sources'[id].url = next /\ sources'[id].enabled = on
      BY <2>1, <3>2, <3>3 DEF TypeOK, Registry, Active, Source
    <3>5. on /\ ~sources[t.id].enabled
      BY <3>2, <3>3, <3>4 DEF Active
    <3>6. NeedsValidation(sources[t.id], next, wanted)
      BY <3>5 DEF on, NeedsValidation
    <3>7. t.val.status = "valid"
      BY <3>2, <3>5, <3>6 DEF on
    <3>8. t.asked = next
      BY <2>1, <3>2, <3>7 DEF ThreadSerial, RequestCurrent, next
    <3>9. QED
      BY <3>4, <3>7, <3>8
  <2>5. ASSUME NEW w \in Workers, DeleteSource(w)
        PROVE  FALSE
    BY <2>1, <2>5 DEF DeleteSource, TypeOK, Registry, Active
  <2>6. ASSUME NEW w \in Workers, RecordAccepted(w) \/ \E i \in Ids : RecordSource(w, i)
        PROVE  FALSE
    <3>1. \E i \in Ids, status \in {"valid", "notModified", "error", "notFound"} :
            RecordRefresh(i, status)
      <4>1. CASE RecordAccepted(w)
        BY <2>1, <4>1 DEF RecordAccepted, At, ThreadOK, InputOfLabel
      <4>2. ASSUME NEW i \in Ids, RecordSource(w, i)
            PROVE  /\ RecordRefresh(i, Outcome(w, i))
                   /\ Outcome(w, i) \in {"valid", "notModified", "error", "notFound"}
        <5>1. th[w].got[i].status \in {"valid", "notModified", "error", "notFound"}
          BY <2>1, <4>2 DEF RecordSource, At, ThreadOK, ResultsKnown, Thread, Result
        <5>2. QED
          BY <4>2, <5>1, OutcomeType DEF RecordSource
      <4>3. QED
        BY <2>6, <4>1, <4>2
    <3>2. /\ Registered(sources') = Registered(sources)
          /\ \A j \in Registered(sources) : sources'[j].enabled = sources[j].enabled
      BY <2>1, <3>1, RecordKeepsEdits
    <3>3. QED
      BY <3>2 DEF Active, Registered
  <2>7. QED
    BY <2>2, <2>3, <2>4, <2>5, <2>6, SourcesFrame
<1>2. TypeInv /\ SerialInv /\ [Next]_vars => [Validated]_vars
  BY <1>1
<1>3. QED
  BY <1>2, TypeCorrectness, SerialCorrect, PTL DEF Spec, EnabledOnlyAfterValidation

\* The owners a merge of the current sources publishes are enabled.
LEMMA MergeEnabled ==
    ASSUME NEW t \in Thread, ThreadSerial(t), t.pc \in SaveLabels
    PROVE  {e.id : e \in MergeOf(t)} \ {CustomOwner} \subseteq Active
<1>1. SameEdits(t.view) /\ \A id \in Ids : t.merged[id] # {} => id \in EnabledIn(t.view)
  BY DEF ThreadSerial, CopiesCurrent, MergedFromView, MergeLabels, SaveLabels
<1>2. EnabledIn(t.view) \subseteq Active
  BY <1>1 DEF SameEdits, EnabledIn, Registered, Active
<1>3. \A e \in MergeOf(t) : e.id # CustomOwner => e.id \in EnabledIn(t.view)
  BY <1>1, MergeOwners DEF Registered
<1>4. QED
  BY <1>2, <1>3

\* A save that completes repairs what a crash or a failed write left.
THEOREM SaveRepairsOutputsCorrect == Spec /\ []OneAtATime => SaveRepairsOutputs
<1> DEFINE Repairs == \A w \in Workers :
              At(w, "writeM3u") /\ ~At(w, "writeM3u")' /\ faults' = faults =>
                /\ m3u' = Published'
                /\ Owners' \subseteq Active'
<1>1. TypeInv /\ SerialInv /\ [Next]_vars => Repairs
  <2> SUFFICES ASSUME TypeInv, SerialInv, [Next]_vars, NEW w \in Workers,
                      At(w, "writeM3u"), ~At(w, "writeM3u")', faults' = faults
               PROVE  m3u' = Published' /\ Owners' \subseteq Active'
    OBVIOUS
  <2>1. TypeOK /\ faults \in Nat /\ \A v \in Workers : th[v] \in Thread /\ ThreadSerial(th[v])
    BY DEF TypeInv, TypeOK, SerialInv
  <2>2. th'[w] # th[w]
    BY DEF At
  <2>3. SaveM3u(w)
    <3>1. ~UNCHANGED vars /\ ~Tick /\ ~Crash /\ ~Rest
      BY <2>1, <2>2 DEF vars, Tick, Crash, Rest
    <3>2. PICK v \in Workers : BeginOperation(v) \/ Work(v)
      BY <2>1, <3>1 DEF Next, SaveFails
    <3>3. v = w
      <4>1. CASE Work(v)
        BY <2>1, <2>2, <4>1, OthersKept
      <4>2. CASE BeginOperation(v)
        BY <2>1, <2>2, <4>2, BeginOnly
      <4>3. QED
        BY <3>2, <4>1, <4>2
    <3>4. QED
      BY <2>1, <3>2, <3>3, BeginNotSaving, RefreshNotSaving, HandleNotSaving
      DEF Work, Save, SaveJson, At
  <2>4. channels = MergeOf(th[w])
    BY <2>1 DEF ThreadSerial, HalfSaved, At
  <2>5. m3u' = Published' /\ channels' = channels
    BY <2>3, <2>4 DEF SaveM3u, RenderDirectM3u, MergeOf, Published
  <2>6. Active' = Active
    BY <2>3 DEF SaveM3u, registries, Active
  <2>7. Owners \subseteq Active
    BY <2>1, <2>4, MergeEnabled DEF Owners, At, SaveLabels
  <2>8. QED
    BY <2>5, <2>6, <2>7 DEF Owners
<1>2. TypeInv /\ SerialInv /\ [Next]_vars => [Repairs]_vars
  BY <1>1
<1>3. QED
  BY <1>2, TypeCorrectness, SerialCorrect, PTL DEF Spec, SaveRepairsOutputs

\* A result that lists nothing is not committed over a snapshot that does.
LEMMA CommitKeepsChannels ==
    ASSUME TypeInv, SerialInv, NEW w \in Workers, NEW id \in Ids, CommitSource(w, id),
           NEW j \in Ids, snap[j] # NoSnap, snap[j].channels # {}
    PROVE  snap'[j] # NoSnap /\ snap'[j].channels # {}
<1> DEFINE t == th[w]
           fresh == t.got[id].channels
           s == [channels |-> fresh, hash |-> {fresh}, at |-> now]
<1>1. TypeOK /\ t \in Thread /\ ThreadOK(t) /\ MergeCovers(t)
  BY DEF TypeInv, TypeOK, SerialInv, ThreadSerial
<1>2. /\ t.pc = "commit" /\ id \in t.todo
      /\ snap' = IF Outcome(w, id) = "valid" THEN [snap EXCEPT ![id] = s] ELSE snap
  BY DEF CommitSource, At
<1>3. CASE j = id /\ Outcome(w, id) = "valid"
  <2>1. t.cached[id].channels = snap[id].channels
    BY <1>1, <1>2, <1>3 DEF MergeCovers, InHand, ThreadOK, ResultsKnown
  <2>2. fresh # {}
    BY <1>3, <2>1 DEF Outcome
  <2>3. fresh \subseteq Streams /\ now \in Nat
    BY <1>1 DEF Thread, Result, TypeOK
  <2>4. {fresh} \in Hash
    BY <2>3 DEF Hash
  <2>5. s \in Snapshot /\ s.channels = fresh
    BY <2>3, <2>4 DEF Snapshot
  <2>6. snap'[id] = s
    BY <1>1, <1>2, <1>3 DEF TypeOK
  <2>7. QED
    BY <1>3, <2>2, <2>5, <2>6, NullAssumption
<1>4. CASE ~(j = id /\ Outcome(w, id) = "valid")
  <2>1. snap'[j] = snap[j]
    BY <1>1, <1>2, <1>4 DEF TypeOK
  <2>2. QED
    BY <2>1
<1>5. QED
  BY <1>3, <1>4

\* A refresh leaves no source without the channels it had, whatever the
\* sources answer.
THEOREM EmptyNeverReplacesCorrect == Spec /\ []OneAtATime => EmptyNeverReplaces
<1> DEFINE Kept == \A w \in Workers : th[w].op \in RefreshOps /\ th'[w] # th[w] =>
              \A id \in Ids : snap[id] # NoSnap /\ snap[id].channels # {} =>
                snap'[id] # NoSnap /\ snap'[id].channels # {}
<1>1. TypeInv /\ SerialInv /\ [Next]_vars => Kept
  <2> SUFFICES ASSUME TypeInv, SerialInv, [Next]_vars, NEW w \in Workers,
                      th[w].op \in RefreshOps, th'[w] # th[w],
                      NEW id \in Ids, snap[id] # NoSnap, snap[id].channels # {}
               PROVE  snap'[id] # NoSnap /\ snap'[id].channels # {}
    OBVIOUS
  <2>1. TypeOK /\ ThreadOK(th[w])
    BY DEF TypeInv
  <2>2. CASE UNCHANGED snap
    BY <2>2
  <2>3. CASE \E i, src : snap' = SnapAfterLoad(i, src)
    <3>1. PICK i, src : snap' = SnapAfterLoad(i, src)
      BY <2>3
    <3>2. CASE snap' = snap
      BY <3>2
    <3>3. CASE snap[i] = NoSnap /\ \E s : snap' = [snap EXCEPT ![i] = s]
      BY <2>1, <3>3 DEF TypeOK
    <3>4. QED
      BY <3>1, <3>2, <3>3 DEF SnapAfterLoad
  <2>4. ASSUME NEW v \in Workers, SaveValidatedSnapshot(v) \/ DeleteSourceSnapshot(v)
        PROVE  FALSE
    <3>1. Work(v)
      BY <2>4 DEF Work, Handle
    <3>2. v = w
      BY <2>1, <3>1, OthersKept
    <3>3. QED
      BY <2>1, <2>4, <3>2
      DEF SaveValidatedSnapshot, DeleteSourceSnapshot, At, ThreadOK, LabelOfOp,
          RefreshOps, EditOps, DeleteOps
  <2>5. ASSUME NEW v \in Workers, NEW i \in Ids, CommitSource(v, i)
        PROVE  snap'[id] # NoSnap /\ snap'[id].channels # {}
    BY <2>5, CommitKeepsChannels
  <2>6. QED
    BY <2>2, <2>3, <2>4, <2>5, SnapFrame
<1>2. TypeInv /\ SerialInv /\ [Next]_vars => [Kept]_vars
  BY <1>1
<1>3. QED
  BY <1>2, TypeCorrectness, SerialCorrect, PTL DEF Spec, EmptyNeverReplaces
=============================================================================
