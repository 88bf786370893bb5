----------------------------- MODULE GuideStore -----------------------------
(***************************************************************************)
(* What get_agenda promises: one document that survives restarts, replaced *)
(* as a whole by a newer one, and handed to readers as it is.              *)
(***************************************************************************)
CONSTANTS Readers, Documents, None

VARIABLES
    doc,    \* the stored document, None before the first
    held    \* the document each reader was given

vars == <<doc, held>>

Init ==
    /\ doc = None
    /\ held = [r \in Readers |-> None]

\* A reader is given the stored document, which may be none yet.
Take(r) ==
    /\ held' = [held EXCEPT ![r] = doc]
    /\ UNCHANGED doc

\* A newer document is stored and given to the reader that brought it.
Replace(r) ==
    /\ doc' \in Documents
    /\ held' = [held EXCEPT ![r] = doc']

Drop(r) ==
    /\ held' = [held EXCEPT ![r] = None]
    /\ UNCHANGED doc

\* Every reader is gone; the document stays.
Restart ==
    /\ held' = [r \in Readers |-> None]
    /\ UNCHANGED doc

Next == (\E r \in Readers : Take(r) \/ Replace(r) \/ Drop(r)) \/ Restart

Spec == Init /\ [][Next]_vars
=============================================================================
