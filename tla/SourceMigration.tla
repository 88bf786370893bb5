-------------------------- MODULE SourceMigration --------------------------
(***************************************************************************)
(* The document of SourceManager (src/src/app/services/source_manager.py): *)
(* every access takes the locks, reads sources.json whatever version wrote *)
(* it, migrates a version 1 list after copying it aside, lets a callback   *)
(* edit the document and writes it.  What the callbacks check is in the    *)
(* modules of the catalogue; here they add a URL or remove one of its      *)
(* records.  A registry is a bag of URLs: a version 1 list may hold a URL  *)
(* twice, and its two records then have one id, made from the URL.         *)
(***************************************************************************)
EXTENDS ServerThreads

CONSTANTS
    Urls,          \* URLs of sources
    Blank,         \* an item of a version 1 list with no usable URL
    UrlOrigen,     \* the sources of a new registry: one URL or none
    FirstRegistry, \* the files a first start may find
    Nobody         \* the owner of free locks

Items == Urls \cup {Blank}

\* How many records a list has of each URL.
Lists == [Items -> Nat]
NoSources == [u \in Items |-> 0]

Registry == [version: {"none", "v1", "v2", "future", "corrupt"}, sources: Lists]

ASSUME MigrationAssumption ==
    /\ Blank \notin Urls
    /\ UrlOrigen \subseteq Urls
    /\ FirstRegistry \subseteq Registry
    /\ \A r \in FirstRegistry :
          /\ r.version = "v2" => r.sources[Blank] = 0
          /\ r.version = "none" => r.sources = NoSources
    /\ Nobody \notin Threads

VARIABLES
    registry,      \* sources.json
    backup,        \* sources.v1.backup.json; a version "none" until written
    docLock,       \* owner of _thread_lock and of the file lock
    original,      \* history: the registry the first start found
    edited         \* history: the sources acknowledged edits make of it

migrationVars == <<registry, backup, docLock, original, edited>>

V2(s) == [version |-> "v2", sources |-> s]

(* _default_document().                                                    *)
DefaultSources == [u \in Items |-> IF u \in UrlOrigen THEN 1 ELSE 0]

(* _migrate_v1(): items without a URL are left out; a URL the list repeats *)
(* gets a record for each time.                                            *)
Migrated(list) == [list EXCEPT ![Blank] = 0]

MigrationInit ==
    /\ registry \in FirstRegistry
    /\ backup = [version |-> "none", sources |-> NoSources]
    /\ docLock = Nobody
    /\ original = registry
    /\ edited = IF registry.version = "none" THEN DefaultSources
                ELSE Migrated(registry.sources)

LoseDocLock ==
    /\ docLock' = Nobody
    /\ UNCHANGED <<registry, backup, original, edited>>

Edits == [what: {"read", "add", "remove"}, url: Urls]

(* A thread inside the locks: its step, its edit and the document it read. *)
Access(step, edit, doc) == [at |-> step, edit |-> edit, doc |-> doc]

(* _with_document() and the start of _read_locked(): a corrupt document or *)
(* one of a future version raises and is left alone.                       *)
Supported(version) == version \in {"none", "v1", "v2"}

NextStepUncopied(version) ==
    CASE version = "v1" -> "migrate"
      [] version = "v2" -> "edit"
      [] OTHER          -> "default"

NextStep(version) ==
    CASE version = "v1" -> "copyAside"
      [] version = "v2" -> "edit"
      [] OTHER          -> "default"

OpenDocument(t, edit) ==
    /\ docLock = Nobody
    /\ Supported(registry.version)
    /\ Serve(t, Access(NextStep(registry.version), edit, registry.sources))
    /\ docLock' = t
    /\ UNCHANGED <<registry, backup, original, edited, faults>>

(* A write that fails raises through the locks.                            *)
Raise(t) ==
    /\ docLock' = Nobody
    /\ Return(t)
    /\ UNCHANGED <<registry, backup>>

(* _read_locked(): a missing file gets the default document.               *)
WriteDefault(t, ok) ==
    /\ th[t].at = "default"
    /\ Works(ok)
    /\ IF ok
       THEN /\ registry' = V2(DefaultSources)
            /\ Goto(t, Access("edit", th[t].edit, DefaultSources))
            /\ UNCHANGED <<backup, docLock>>
       ELSE Raise(t)
    /\ UNCHANGED <<original, edited>>

(* _migrate_v1() lines 96-97: the list is copied aside, once.              *)
CopyAside(t, ok) ==
    /\ th[t].at = "copyAside"
    /\ Works(ok)
    /\ IF ok
       THEN /\ backup' = IF backup.version = "none"
                         THEN [version |-> "v1", sources |-> th[t].doc] ELSE backup
            /\ Goto(t, Access("migrate", th[t].edit, th[t].doc))
            /\ UNCHANGED <<registry, docLock>>
       ELSE Raise(t)
    /\ UNCHANGED <<original, edited>>

(* _migrate_v1() lines 99-113.                                             *)
Migrate(t, ok) ==
    /\ th[t].at = "migrate"
    /\ Works(ok)
    /\ IF ok
       THEN /\ registry' = V2(Migrated(th[t].doc))
            /\ Goto(t, Access("edit", th[t].edit, Migrated(th[t].doc)))
            /\ UNCHANGED <<backup, docLock>>
       ELSE Raise(t)
    /\ UNCHANGED <<original, edited>>

(* The callbacks: a URL there already is refused, and so is the removal of *)
(* one there is not; a removal drops one record, the first of its id.      *)
Accepted(edit, doc) ==
    \/ edit.what = "add" /\ doc[edit.url] = 0
    \/ edit.what = "remove" /\ doc[edit.url] > 0

Applied(edit, doc) ==
    [doc EXCEPT ![edit.url] = IF edit.what = "add" THEN @ + 1 ELSE @ - 1]

(* _with_document() lines 147-150: the callback and its write.             *)
EditDocument(t, ok) ==
    /\ th[t].at = "edit"
    /\ Accepted(th[t].edit, th[t].doc)
    /\ Works(ok)
    /\ IF ok
       THEN /\ registry' = V2(Applied(th[t].edit, th[t].doc))
            /\ edited' = Applied(th[t].edit, edited)
       ELSE UNCHANGED <<registry, edited>>
    /\ docLock' = Nobody
    /\ Return(t)
    /\ UNCHANGED <<backup, original>>

(* A reader, without a callback, and a refused edit, which raises, leave   *)
(* without a write.                                                        *)
LeaveDocument(t) ==
    /\ th[t].at = "edit"
    /\ ~Accepted(th[t].edit, th[t].doc)
    /\ Raise(t)
    /\ UNCHANGED <<original, edited, faults>>

MigrationStep(t) ==
    \/ \E edit \in Edits : OpenDocument(t, edit)
    \/ LeaveDocument(t)
    \/ \E ok \in BOOLEAN : WriteDefault(t, ok) \/ CopyAside(t, ok)
                              \/ Migrate(t, ok) \/ EditDocument(t, ok)

-----------------------------------------------------------------------------
MigrationTypeOK ==
    /\ {registry, backup, original} \subseteq Registry
    /\ docLock \in Threads \cup {Nobody}
    /\ edited \in Lists

(* A version 1 registry is replaced only when its copy is complete, and    *)
(* whatever crashes and failures interrupt the migration, the registry     *)
(* holds each source of the old one, as often as it did, with the          *)
(* acknowledged edits.                                                     *)
MigrationLosesNothing ==
    registry.version = "v2" =>
        /\ original.version = "v1" => backup = original
        /\ registry.sources = edited

(* A document this version cannot read is never overwritten ("sources.json *)
(* contiene JSON corrupto; no se ha sobrescrito", source_manager.py:125).  *)
UnreadableRegistryKept ==
    original.version \in {"future", "corrupt"} => registry = original
=============================================================================
