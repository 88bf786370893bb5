---------------------------- MODULE AgendaProofs ----------------------------
(***************************************************************************)
(* The agenda service, for every number of threads, requests, faults and   *)
(* pages, every time to live and every set of instants: the two copies of  *)
(* the document agree, answers are fresh or the best there is, and the     *)
(* service implements the store of one document.                           *)
(***************************************************************************)
EXTENDS Agenda, TLAPS

-----------------------------------------------------------------------------
(* The inductive invariant.                                                *)

\* A downloaded page is a document, and a request came in before now.
ThreadOK(r) ==
    /\ r.pc = "store" => r.page \in Documents
    /\ r.asked <= now

\* Whoever downloads holds the lock.
LockHeld == \A t \in Threads : th[t].pc \in {"fetch", "store"} => lock = t

IInv ==
    /\ TypeOK
    /\ \A t \in Threads : ThreadOK(th[t])
    /\ LockHeld
    /\ MemoryIsDisk

LEMMA IdleTyped == IdleThread \in Thread /\ IdleThread.pc = "idle"
                   /\ IdleThread.asked = 0 /\ IdleThread.doc = NoDoc
  BY DEF IdleThread, Thread

LEMMA InitInv == Init => IInv
  <1> SUFFICES ASSUME Init PROVE IInv
    OBVIOUS
  <1>1. now \in Nat
    BY AgendaAssumption DEF Init
  <1>a. site \in Pages /\ catalog \in Catalogs
    <2>1. PICK w \in FirstWorlds : site = w[1] /\ catalog = w[2]
      BY DEF Init
    <2> QED  BY <2>1, AgendaAssumption
  <1>2. TypeOK
    BY <1>1, <1>a, IdleTyped DEF Init, TypeOK
  <1>3. \A t \in Threads : ThreadOK(th[t]) /\ th[t].pc \notin {"fetch", "store"}
    BY <1>1, IdleTyped DEF Init, ThreadOK
  <1> QED  BY <1>2, <1>3 DEF Init, IInv, LockHeld, MemoryIsDisk

\* A thread t becomes r: the others stay as they are.
LEMMA BecomeInv ==
    ASSUME IInv, NEW t \in Threads, NEW r \in Thread, Become(t, r),
           r.pc = "store" => r.page \in Documents, r.asked <= now,
           now' = now
    PROVE  /\ th' \in [Threads -> Thread]
           /\ \A u \in Threads : ThreadOK(th[u])'
           /\ th'[t] = r
           /\ \A u \in Threads : u # t => th'[u] = th[u]
  <1>1. /\ th' \in [Threads -> Thread] /\ th'[t] = r
        /\ \A u \in Threads : u # t => th'[u] = th[u]
    BY DEF IInv, TypeOK, Become
  <1>2. \A u \in Threads : ThreadOK(th[u])'
    BY <1>1 DEF IInv, ThreadOK
  <1> QED  BY <1>1, <1>2

\* The steps that neither take nor hold the lock and leave the copies alone.
LEMMA QuietStep ==
    ASSUME IInv, NEW t \in Threads, NEW r \in Thread, Become(t, r),
           r.pc \notin {"fetch", "store"}, r.asked <= now,
           UNCHANGED <<world, cache, now>>,
           lock' = lock \/ (lock' = Free /\ lock = t),
           requests' \in Nat, changes' \in Nat, faults' \in Nat
    PROVE  IInv'
  <1>1. /\ th' \in [Threads -> Thread] /\ \A u \in Threads : ThreadOK(th[u])'
        /\ th'[t] = r /\ \A u \in Threads : u # t => th'[u] = th[u]
    BY BecomeInv
  <1>2. LockHeld'
    BY <1>1 DEF IInv, LockHeld
  <1>3. TypeOK' /\ MemoryIsDisk'
    BY <1>1 DEF IInv, TypeOK, MemoryIsDisk, world, cache
  <1> QED  BY <1>1, <1>2, <1>3 DEF IInv

-----------------------------------------------------------------------------
(* The steps.                                                              *)

LEMMA Subscription ==
    ASSUME IInv, NEW t \in Threads
    PROVE  /\ th[t] \in Thread /\ th[t].asked \in Nat /\ th[t].asked <= now
           /\ th[t].doc \in Documents \cup {NoDoc}
           /\ mem \in Documents \cup {NoDoc} /\ disk \in Documents \cup {NoDoc}
           /\ now \in Nat /\ requests \in Nat /\ changes \in Nat /\ faults \in Nat
           /\ diskAt \in Nat /\ memAt \in Nat
  BY DEF IInv, TypeOK, ThreadOK, Thread

LEMMA RequestInv ==
    ASSUME IInv, NEW t \in Threads, Request(t)
    PROVE  IInv'
  <1>1. PICK force \in BOOLEAN :
           Become(t, [IdleThread EXCEPT !.pc = "wait", !.force = force,
                                        !.asked = now, !.catalog = catalog])
    BY DEF Request
  <1>2. PICK r : r = [IdleThread EXCEPT !.pc = "wait", !.force = force,
                                        !.asked = now, !.catalog = catalog]
    OBVIOUS
  <1>3. r \in Thread /\ r.pc = "wait" /\ r.asked = now
    BY <1>2, IdleTyped DEF Thread, IInv, TypeOK
  <1>4. Become(t, r)  BY <1>1, <1>2
  <1>5. r.asked <= now  BY <1>3, Subscription
  <1>6. requests' \in Nat /\ changes' \in Nat /\ faults' \in Nat
    BY Subscription DEF Request
  <1> QED  BY <1>3, <1>4, <1>5, <1>6, QuietStep DEF Request, world, cache

LEMMA MemoryInv ==
    ASSUME IInv, NEW t \in Threads, UseMemory(t)
    PROVE  IInv'
  <1>1. PICK r : r = [th[t] EXCEPT !.pc = "cross", !.doc = mem]
    OBVIOUS
  <1>2. r \in Thread /\ r.pc = "cross" /\ r.asked = th[t].asked
    BY <1>1, Subscription DEF Thread
  <1> QED  BY <1>1, <1>2, QuietStep, Subscription DEF UseMemory, bounds

LEMMA DiskInv ==
    ASSUME IInv, NEW t \in Threads, UseDisk(t)
    PROVE  IInv'
  <1>1. PICK r : r = [th[t] EXCEPT !.pc = "cross", !.doc = disk]
    OBVIOUS
  <1>2. r \in Thread /\ r.pc = "cross" /\ r.asked = th[t].asked
    BY <1>1, Subscription DEF Thread
  <1>3. /\ Become(t, r) /\ mem' = disk /\ memAt' = diskAt
        /\ UNCHANGED <<world, disk, diskAt, lock, now, bounds>>
    BY <1>1 DEF UseDisk
  <1>4. /\ th' \in [Threads -> Thread] /\ \A u \in Threads : ThreadOK(th[u])'
        /\ th'[t] = r /\ \A u \in Threads : u # t => th'[u] = th[u]
    BY <1>2, <1>3, BecomeInv, Subscription
  <1>5. LockHeld'
    BY <1>2, <1>3, <1>4 DEF IInv, LockHeld
  <1>6. MemoryIsDisk'
    BY <1>3, Subscription DEF MemoryIsDisk
  <1>7. TypeOK'
    BY <1>3, <1>4, Subscription DEF IInv, TypeOK, world, bounds
  <1> QED  BY <1>4, <1>5, <1>6, <1>7 DEF IInv

LEMMA FetchInv ==
    ASSUME IInv, NEW t \in Threads, StartFetch(t)
    PROVE  IInv'
  <1>1. PICK r : r = [th[t] EXCEPT !.pc = "fetch"]
    OBVIOUS
  <1>2. r \in Thread /\ r.pc = "fetch" /\ r.asked = th[t].asked
    BY <1>1, Subscription DEF Thread
  <1>3. /\ Become(t, r) /\ lock = Free /\ lock' = t
        /\ UNCHANGED <<world, cache, now, requests, changes>>
    BY <1>1 DEF StartFetch
  <1>4. /\ th' \in [Threads -> Thread] /\ \A u \in Threads : ThreadOK(th[u])'
        /\ th'[t] = r /\ \A u \in Threads : u # t => th'[u] = th[u]
    BY <1>2, <1>3, BecomeInv, Subscription
  <1>5. LockHeld'
    BY <1>3, <1>4, AgendaAssumption DEF IInv, LockHeld
  <1>6. faults' \in Nat
    BY Subscription DEF StartFetch, Fault
  <1>7. TypeOK' /\ MemoryIsDisk'
    BY <1>3, <1>4, <1>6 DEF IInv, TypeOK, MemoryIsDisk, world, cache
  <1> QED  BY <1>4, <1>5, <1>7 DEF IInv

LEMMA PageInv ==
    ASSUME IInv, NEW t \in Threads, FetchPage(t)
    PROVE  IInv'
  <1>1. PICK r : r = [th[t] EXCEPT !.pc = "store", !.page = ParseAgenda(site)]
    OBVIOUS
  <1>2. ParseAgenda(site) \in Documents
    BY DEF IInv, TypeOK, Documents
  <1>3. /\ r \in Thread /\ r.pc = "store" /\ r.asked = th[t].asked
        /\ r.page \in Documents
    BY <1>1, <1>2, Subscription DEF Thread
  <1>4. /\ Become(t, r) /\ th[t].pc = "fetch"
        /\ UNCHANGED <<world, cache, lock, now, bounds>>
    BY <1>1 DEF FetchPage, At
  <1>5. /\ th' \in [Threads -> Thread] /\ \A u \in Threads : ThreadOK(th[u])'
        /\ th'[t] = r /\ \A u \in Threads : u # t => th'[u] = th[u]
    BY <1>3, <1>4, BecomeInv, Subscription
  <1>6. LockHeld'
    BY <1>4, <1>5 DEF IInv, LockHeld
  <1>7. TypeOK' /\ MemoryIsDisk'
    BY <1>4, <1>5 DEF IInv, TypeOK, MemoryIsDisk, world, cache, bounds
  <1> QED  BY <1>5, <1>6, <1>7 DEF IInv

LEMMA StoreInv ==
    ASSUME IInv, NEW t \in Threads, Store(t)
    PROVE  IInv'
  <1>1. PICK r : r = [th[t] EXCEPT !.pc = "cross", !.doc = th[t].page, !.page = NoDoc]
    OBVIOUS
  <1>2. PICK p : p = th[t].page
    OBVIOUS
  <1>3. p \in Documents /\ lock = t
    BY <1>2 DEF IInv, ThreadOK, LockHeld, Store, At
  <1>4. r \in Thread /\ r.pc = "cross" /\ r.asked = th[t].asked
    BY <1>1, <1>2, <1>3, Subscription DEF Thread
  <1>5. /\ Become(t, r) /\ disk' = p /\ diskAt' = now /\ mem' = p
        /\ memAt' = th[t].asked /\ lock' = Free /\ UNCHANGED <<world, now, bounds>>
    BY <1>1, <1>2 DEF Store
  <1>6. /\ th' \in [Threads -> Thread] /\ \A u \in Threads : ThreadOK(th[u])'
        /\ th'[t] = r /\ \A u \in Threads : u # t => th'[u] = th[u]
    BY <1>4, <1>5, BecomeInv, Subscription
  <1>7. LockHeld'
    BY <1>3, <1>4, <1>5, <1>6 DEF IInv, LockHeld
  <1>8. MemoryIsDisk'
    BY <1>5, Subscription DEF MemoryIsDisk
  <1>9. TypeOK'
    BY <1>3, <1>5, <1>6, Subscription DEF IInv, TypeOK, world, bounds
  <1> QED  BY <1>6, <1>7, <1>8, <1>9 DEF IInv

LEMMA FallbackInv ==
    ASSUME IInv, NEW t \in Threads, Fallback(t), th[t].pc \in {"fetch", "store"},
           UNCHANGED <<world, cache, now>>,
           requests' \in Nat, changes' \in Nat, faults' \in Nat
    PROVE  IInv'
  <1>1. PICK d : d = IF mem # NoDoc THEN mem ELSE disk
    OBVIOUS
  <1>2. PICK r : r = [th[t] EXCEPT !.pc = "cross", !.page = NoDoc,
                                   !.doc = d]
    OBVIOUS
  <1>3. d \in Documents \cup {NoDoc}
    BY <1>1, Subscription
  <1>4. r \in Thread /\ r.pc = "cross" /\ r.asked = th[t].asked
    BY <1>2, <1>3, Subscription DEF Thread
  <1>5. Become(t, r) /\ lock' = Free /\ lock = t
    BY <1>1, <1>2 DEF Fallback, IInv, LockHeld
  <1> QED  BY <1>4, <1>5, QuietStep, Subscription

LEMMA NextInv == IInv /\ [Next]_vars => IInv'
  <1> SUFFICES ASSUME IInv, [Next]_vars PROVE IInv'
    OBVIOUS
  <1>1. CASE UNCHANGED vars
    BY <1>1 DEF vars, world, cache, bounds, IInv, TypeOK, ThreadOK, LockHeld, MemoryIsDisk
  <1>2. ASSUME NEW t \in Threads, Request(t) \/ Enter(t) PROVE IInv'
    BY <1>2, RequestInv, MemoryInv, DiskInv, FetchInv DEF Enter
  <1>3. ASSUME NEW t \in Threads, FetchPage(t) \/ Store(t) PROVE IInv'
    BY <1>3, PageInv, StoreInv
  <1>4. ASSUME NEW t \in Threads, FetchFails(t) PROVE IInv'
    BY <1>4, FallbackInv, Subscription DEF FetchFails, At, bounds
  <1>5. ASSUME NEW t \in Threads, StoreFails(t) PROVE IInv'
    <2>1. requests' \in Nat /\ changes' \in Nat /\ faults' \in Nat
      BY <1>5, Subscription DEF StoreFails, Fault
    <2> QED  BY <1>5, <2>1, FallbackInv DEF StoreFails, At
  <1>6. ASSUME NEW t \in Threads, FallbackFails(t) PROVE IInv'
    <2>1. requests' \in Nat /\ changes' \in Nat /\ faults' \in Nat
      BY <1>6, Subscription DEF FallbackFails, Fault
    <2>2. lock = t  BY <1>6 DEF FallbackFails, IInv, LockHeld
    <2> QED  BY <1>6, <2>1, <2>2, IdleTyped, QuietStep, Subscription DEF FallbackFails
  <1>7. ASSUME NEW t \in Threads, Cross(t) PROVE IInv'
    <2>1. PICK r : r = [th[t] EXCEPT !.pc = "answered", !.at = now,
                                            !.force = FALSE, !.asked = 0]
      OBVIOUS
    <2>2. r \in Thread /\ r.pc = "answered" /\ r.asked = 0
      BY <2>1, Subscription DEF Thread
    <2>3. 0 <= now  BY DEF IInv, TypeOK
    <2> QED  BY <1>7, <2>1, <2>2, <2>3, QuietStep, Subscription DEF Cross, bounds
  <1>8. ASSUME NEW t \in Threads, Reply(t) PROVE IInv'
    BY <1>8, IdleTyped, QuietStep, Subscription DEF Reply, bounds
  <1>9. CASE Tick
    <2>1. now' \in Nat /\ now <= now' /\ UNCHANGED <<world, cache, lock, th, bounds>>
      BY <1>9, AgendaAssumption DEF Tick, IInv, TypeOK
    <2>2. \A u \in Threads : ThreadOK(th[u])'
      BY <2>1, Subscription DEF IInv, ThreadOK
    <2> QED  BY <2>1, <2>2 DEF IInv, TypeOK, LockHeld, MemoryIsDisk, world, cache, bounds
  <1>10. CASE Change
    <2>1. /\ site' \in Pages /\ catalog' \in Catalogs /\ changes' \in Nat
          /\ UNCHANGED <<cache, lock, th, now, requests, faults>>
      BY <1>10 DEF Change, IInv, TypeOK
    <2> QED  BY <2>1 DEF IInv, TypeOK, ThreadOK, LockHeld, MemoryIsDisk, cache
  <1>11. CASE Crash
    <2>1. /\ mem' = NoDoc /\ memAt' = 0 /\ lock' = Free
          /\ th' = [t \in Threads |-> IdleThread]
          /\ UNCHANGED <<world, disk, diskAt, now, requests, changes>>
      BY <1>11 DEF Crash
    <2>2. faults' \in Nat
      BY <1>11 DEF Crash, Fault, IInv, TypeOK
    <2>3. TypeOK'
      BY <2>1, <2>2, IdleTyped DEF IInv, TypeOK, world
    <2>4. \A u \in Threads : ThreadOK(th[u])' /\ th'[u].pc \notin {"fetch", "store"}
      BY <2>1, IdleTyped DEF ThreadOK, IInv, TypeOK
    <2> QED  BY <2>1, <2>3, <2>4 DEF IInv, LockHeld, MemoryIsDisk
  <1>12. CASE Rest
    BY <1>1, <1>12 DEF Rest
  <1> QED  BY <1>1, <1>2, <1>3, <1>4, <1>5, <1>6, <1>7, <1>8, <1>9, <1>10, <1>11, <1>12
           DEF Next, Download

-----------------------------------------------------------------------------
(* What follows.                                                           *)

LEMMA Invariance == Spec => []IInv
  BY InitInv, NextInv, PTL DEF Spec

\* TypeOK: every thread, copy and lock of the service is well typed.
THEOREM TypeSafety == Spec => []TypeOK
  <1>1. IInv => TypeOK  BY DEF IInv
  <1> QED  BY <1>1, Invariance, PTL

\* MemoryIsDisk (get_agenda lines 475-503): no order of downloads, failed
\* writes and restarts makes the two copies differ, or the memory one younger.
THEOREM MemoryIsDiskCorrect == Spec => []MemoryIsDisk
  <1>1. IInv => MemoryIsDisk  BY DEF IInv
  <1> QED  BY <1>1, Invariance, PTL

\* The steps that give a thread a document, and which one.
LEMMA Given ==
    ASSUME IInv, NEW t \in Threads, [Next]_vars
    PROVE  \/ th'[t].doc = th[t].doc /\ (At(t, "cross")' => At(t, "cross"))
           \/ th'[t].doc = NoDoc /\ ~At(t, "cross")' /\ disk' = disk
           \/ /\ UseMemory(t) \/ UseDisk(t)
              /\ th'[t].doc = disk /\ disk # NoDoc /\ th[t].asked - diskAt < TTL
              /\ disk' = disk
           \/ At(t, "store") /\ th'[t].doc \in Documents /\ disk' = th'[t].doc
           \/ th[t].pc \in {"fetch", "store"} /\ th'[t].doc = disk /\ disk' = disk
  <1> DEFINE Goal ==
           \/ th'[t].doc = th[t].doc /\ (At(t, "cross")' => At(t, "cross"))
           \/ th'[t].doc = NoDoc /\ ~At(t, "cross")' /\ disk' = disk
           \/ /\ UseMemory(t) \/ UseDisk(t)
              /\ th'[t].doc = disk /\ disk # NoDoc /\ th[t].asked - diskAt < TTL
              /\ disk' = disk
           \/ At(t, "store") /\ th'[t].doc \in Documents /\ disk' = th'[t].doc
           \/ th[t].pc \in {"fetch", "store"} /\ th'[t].doc = disk /\ disk' = disk
  <1>0. th \in [Threads -> Thread]
    BY DEF IInv, TypeOK
  <1>1. CASE th' = th
    BY <1>1 DEF At
  <1>2. ASSUME NEW u \in Threads, NEW r, u # t, Become(u, r) PROVE Goal
    <2>1. th'[t] = th[t]  BY <1>0, <1>2 DEF Become
    <2> QED  BY <2>1 DEF At
  <1>3. ASSUME NEW r, Become(t, r) PROVE th'[t] = r
    BY <1>0, <1>3 DEF Become
  <1>4. CASE Request(t)
    <2>1. PICK force \in BOOLEAN :
             Become(t, [IdleThread EXCEPT !.pc = "wait", !.force = force,
                                          !.asked = now, !.catalog = catalog])
      BY <1>4 DEF Request
    <2>2. th'[t].doc = NoDoc /\ th'[t].pc = "wait"
      BY <1>3, <2>1 DEF IdleThread
    <2> QED  BY <1>4, <2>2 DEF Request, cache, At
  <1>5. CASE UseMemory(t)
    <2>1. th'[t].doc = mem
      BY <1>0, <1>3, <1>5 DEF UseMemory, Thread
    <2>2. mem # NoDoc /\ th[t].asked - memAt < TTL /\ disk' = disk
      BY <1>5 DEF UseMemory, Fresh, cache
    <2>3. mem = disk /\ memAt <= diskAt
      BY <2>2 DEF IInv, MemoryIsDisk
    <2>4. th[t].asked - diskAt < TTL
      BY <2>2, <2>3, Subscription, AgendaAssumption
    <2> QED  BY <1>5, <2>1, <2>2, <2>3, <2>4
  <1>6. CASE UseDisk(t)
    <2>1. th'[t].doc = disk
      BY <1>0, <1>3, <1>6 DEF UseDisk, Thread
    <2> QED  BY <1>6, <2>1 DEF UseDisk, Fresh
  <1>7. CASE StartFetch(t)
    <2>1. th'[t].doc = th[t].doc /\ th'[t].pc = "fetch"
      BY <1>0, <1>3, <1>7 DEF StartFetch, Thread
    <2> QED  BY <2>1 DEF At
  <1>8. CASE FetchPage(t)
    <2>1. th'[t].doc = th[t].doc /\ th'[t].pc = "store"
      BY <1>0, <1>3, <1>8 DEF FetchPage, Thread
    <2> QED  BY <2>1 DEF At
  <1>9. CASE Store(t)
    <2>1. th'[t].doc = th[t].page
      BY <1>0, <1>3, <1>9 DEF Store, Thread
    <2>2. th[t].page \in Documents /\ At(t, "store") /\ disk' = th[t].page
      BY <1>9 DEF Store, At, IInv, ThreadOK
    <2> QED  BY <2>1, <2>2
  <1>10. ASSUME Fallback(t), th[t].pc \in {"fetch", "store"}, UNCHANGED cache PROVE Goal
    <2>1. th'[t].doc = IF mem # NoDoc THEN mem ELSE disk
      BY <1>0, <1>3, <1>10 DEF Fallback, Thread
    <2>2. th'[t].doc = disk /\ disk' = disk
      BY <1>10, <2>1 DEF IInv, MemoryIsDisk, cache
    <2> QED  BY <1>10, <2>2
  <1>11. CASE FetchFails(t) \/ StoreFails(t)
    BY <1>10, <1>11 DEF FetchFails, StoreFails, At
  <1>12. CASE FallbackFails(t) \/ Reply(t)
    <2>1. th'[t] = IdleThread /\ disk' = disk
      BY <1>3, <1>12 DEF FallbackFails, Reply, cache
    <2> QED  BY <2>1, IdleTyped DEF At
  <1>13. CASE Cross(t)
    <2>1. th'[t].doc = th[t].doc /\ th'[t].pc = "answered"
      BY <1>0, <1>3, <1>13 DEF Cross, Thread
    <2> QED  BY <2>1 DEF At
  <1>14. CASE Crash
    <2>1. th'[t] = IdleThread /\ disk' = disk
      BY <1>14 DEF Crash
    <2> QED  BY <2>1, IdleTyped DEF At
  <1>15. CASE Tick \/ Change \/ Rest \/ UNCHANGED vars
    BY <1>1, <1>15 DEF Tick, Change, Rest, vars
  <1>16. ASSUME NEW u \in Threads, u # t,
                Request(u) \/ Enter(u) \/ Download(u) \/ Cross(u) \/ Reply(u)
         PROVE  Goal
    <2>1. PICK r : Become(u, r)
      BY <1>16 DEF Request, Enter, UseMemory, UseDisk, StartFetch, Download, FetchPage,
         Store, FetchFails, StoreFails, Fallback, FallbackFails, Cross, Reply
    <2> QED  BY <1>2, <1>16, <2>1
  <1> QED  BY <1>4, <1>5, <1>6, <1>7, <1>8, <1>9, <1>11, <1>12, <1>13, <1>14, <1>15, <1>16
           DEF Next, Enter, Download

\* AnswersFresh (get_agenda lines 475-489): an answer without a download is
\* the stored document, less than a time to live old.
THEOREM AnswersFreshCorrect == Spec => AnswersFresh
  <1>1. IInv /\ [Next]_vars =>
          [\A t \in Threads : Takes(t) =>
             th'[t].doc = disk /\ disk # NoDoc /\ th[t].asked - diskAt < TTL]_vars
    BY Given DEF Takes, At
  <1> QED  BY <1>1, Invariance, PTL DEF AnswersFresh, Spec

\* What ends a request that has no answer.
LEMMA GivesUp ==
    ASSUME IInv, NEW t \in Threads, [Next]_vars,
           th[t].pc \notin {"idle", "answered"}, th'[t].pc = "idle"
    PROVE  mem' = NoDoc /\ faults' > faults
  <1>0. th \in [Threads -> Thread] /\ faults \in Nat
    BY DEF IInv, TypeOK
  <1>1. ASSUME NEW u \in Threads, NEW r, Become(u, r),
               u # t \/ r.pc # "idle"
        PROVE  FALSE
    BY <1>0, <1>1 DEF Become
  <1>2. CASE Crash
    BY <1>0, <1>2 DEF Crash, Fault
  <1>3. ASSUME NEW u \in Threads, FallbackFails(u)
        PROVE  mem' = NoDoc /\ faults' > faults
    BY <1>0, <1>3 DEF FallbackFails, Fault, cache
  <1>4. ASSUME NEW u \in Threads, Reply(u) PROVE FALSE
    <2>1. u # t  BY <1>4 DEF Reply, At
    <2> QED  BY <1>1, <1>4, <2>1 DEF Reply
  <1>5. ASSUME NEW u \in Threads, Request(u) PROVE FALSE
    <2>1. u # t  BY <1>5 DEF Request, At
    <2> QED  BY <1>1, <1>5, <2>1 DEF Request
  <1>6. ASSUME NEW u \in Threads, NEW r, Become(u, r),
               r.pc \in {"cross", "fetch", "store", "answered"}
        PROVE  FALSE
    BY <1>1, <1>6
  <1>7. ASSUME NEW u \in Threads, Fallback(u) PROVE FALSE
    <2>1. PICK r : r = [th[u] EXCEPT !.pc = "cross", !.page = NoDoc,
                                     !.doc = IF mem # NoDoc THEN mem ELSE disk]
      OBVIOUS
    <2>2. r.pc = "cross"  BY <1>0, <2>1 DEF Thread
    <2> QED  BY <1>6, <1>7, <2>1, <2>2 DEF Fallback
  <1>8. ASSUME NEW u \in Threads, FetchFails(u) \/ StoreFails(u) PROVE FALSE
    BY <1>7, <1>8 DEF FetchFails, StoreFails
  <1>9. ASSUME NEW u \in Threads, UseMemory(u) PROVE FALSE
    <2>1. PICK r : r = [th[u] EXCEPT !.pc = "cross", !.doc = mem]  OBVIOUS
    <2>2. r.pc = "cross"  BY <1>0, <2>1 DEF Thread
    <2> QED  BY <1>6, <1>9, <2>1, <2>2 DEF UseMemory
  <1>10. ASSUME NEW u \in Threads, UseDisk(u) PROVE FALSE
    <2>1. PICK r : r = [th[u] EXCEPT !.pc = "cross", !.doc = disk]  OBVIOUS
    <2>2. r.pc = "cross"  BY <1>0, <2>1 DEF Thread
    <2> QED  BY <1>6, <1>10, <2>1, <2>2 DEF UseDisk
  <1>11. ASSUME NEW u \in Threads, StartFetch(u) PROVE FALSE
    <2>1. PICK r : r = [th[u] EXCEPT !.pc = "fetch"]  OBVIOUS
    <2>2. r.pc = "fetch"  BY <1>0, <2>1 DEF Thread
    <2> QED  BY <1>6, <1>11, <2>1, <2>2 DEF StartFetch
  <1>12. ASSUME NEW u \in Threads, FetchPage(u) PROVE FALSE
    <2>1. PICK r : r = [th[u] EXCEPT !.pc = "store", !.page = ParseAgenda(site)]
      OBVIOUS
    <2>2. r.pc = "store"  BY <1>0, <2>1 DEF Thread
    <2> QED  BY <1>6, <1>12, <2>1, <2>2 DEF FetchPage
  <1>13. ASSUME NEW u \in Threads, Store(u) PROVE FALSE
    <2>1. PICK r : r = [th[u] EXCEPT !.pc = "cross", !.doc = th[u].page, !.page = NoDoc]
      OBVIOUS
    <2>2. r.pc = "cross"  BY <1>0, <2>1 DEF Thread
    <2> QED  BY <1>6, <1>13, <2>1, <2>2 DEF Store
  <1>14. ASSUME NEW u \in Threads, Cross(u) PROVE FALSE
    <2>1. PICK r : r = [th[u] EXCEPT !.pc = "answered", !.at = now,
                                     !.force = FALSE, !.asked = 0]
      OBVIOUS
    <2>2. r.pc = "answered"  BY <1>0, <2>1 DEF Thread
    <2> QED  BY <1>6, <1>14, <2>1, <2>2 DEF Cross
  <1>15. CASE Tick \/ Change \/ Rest \/ UNCHANGED vars
    BY <1>15 DEF Tick, Change, Rest, vars
  <1> QED  BY <1>2, <1>3, <1>4, <1>5, <1>8, <1>9, <1>10, <1>11, <1>12, <1>13, <1>14,
             <1>15 DEF Next, Enter, Download

\* ErrorIsLastResort (get_agenda lines 504-519): the answer without events is
\* given only when no document was stored, and status 500 only when memory is
\* empty and the file cannot be used.
THEOREM ErrorIsLastResortCorrect == Spec => ErrorIsLastResort
  <1>1. IInv /\ [Next]_vars =>
          [\A t \in Threads :
             /\ At(t, "cross")' /\ ~At(t, "cross") /\ th'[t].doc = NoDoc => disk = NoDoc
             /\ ~At(t, "answered") /\ ~At(t, "idle") /\ At(t, "idle")' =>
                  mem' = NoDoc /\ faults' > faults]_vars
    BY Given, GivesUp, NoDocAssumption DEF At
  <1> QED  BY <1>1, Invariance, PTL DEF ErrorIsLastResort, Spec

\* LiveEventsListed (_calculate_live_status, the filters of get_agenda,
\* generate_agenda_m3u and generate_xmltv): the three windows, different as
\* they are, all hold the live events with streams.
THEOREM LiveEventsListedCorrect == Spec => []LiveEventsListed
  <1>1. ASSUME NEW doc, NEW minute, NEW cat, NEW i \in DOMAIN doc,
               NEW s \in StreamsOf(doc[i], cat), IsLive(doc[i], minute)
        PROVE  /\ i \in LiveEvents(doc, minute)
               /\ <<i, s>> \in AgendaM3u(doc, minute, cat, TRUE)
               /\ doc[i].printed # NoTime => <<i, s>> \in Programmes(doc, minute, cat)
    <2>1. StartsIn(doc[i], minute) \in -135..5
      BY <1>1 DEF IsLive
    <2>2. i \in Listed(doc, minute)
      BY <2>1 DEF Listed
    <2>3. i \in PlaylistEvents(doc, minute, cat, TRUE)
      BY <1>1, <2>2 DEF PlaylistEvents, Available
    <2>4. <<i, s>> \in AgendaM3u(doc, minute, cat, TRUE)
      <3>1. PICK X : X = {<<i, x>> : x \in StreamsOf(doc[i], cat)}
        OBVIOUS
      <3>2. X \in {{<<j, x>> : x \in StreamsOf(doc[j], cat)} :
                     j \in PlaylistEvents(doc, minute, cat, TRUE)}
        BY <2>3, <3>1
      <3>3. <<i, s>> \in X
        BY <3>1
      <3> QED  BY <3>2, <3>3 DEF AgendaM3u
    <2>5. ASSUME doc[i].printed # NoTime PROVE <<i, s>> \in Programmes(doc, minute, cat)
      BY <2>2, <2>5 DEF Programmes, Timed
    <2> QED  BY <1>1, <2>2, <2>4, <2>5 DEF LiveEvents
  <1>2. LiveEventsListed
    BY <1>1 DEF LiveEventsListed
  <1> QED  BY <1>2, PTL

\* PlaylistHasGuide (generate_agenda_m3u, generate_xmltv): no entry of the
\* playlist whose hour the guide can read is without its programme.
THEOREM PlaylistHasGuideCorrect == Spec => []PlaylistHasGuide
  <1>1. ASSUME NEW doc, NEW minute, NEW cat,
               NEW p \in AgendaM3u(doc, minute, cat, FALSE),
               doc[p[1]].printed # NoTime
        PROVE  p \in Programmes(doc, minute, cat)
    <2>a. PICK i \in PlaylistEvents(doc, minute, cat, FALSE) :
             p \in {<<i, s>> : s \in StreamsOf(doc[i], cat)}
      BY DEF AgendaM3u
    <2>b. PICK s \in StreamsOf(doc[i], cat) : p = <<i, s>>
      BY <2>a
    <2>1. i \in Listed(doc, minute)
      BY DEF PlaylistEvents, Available
    <2>2. doc[i].printed # NoTime
      BY <1>1, <2>b
    <2>3. i \in Timed(doc, minute)
      BY <2>1, <2>2 DEF Timed
    <2>4. p \in {<<i, id>> : id \in StreamsOf(doc[i], cat)
                                        \cup NewTvgIds(doc, minute, cat, i)}
      BY <2>b
    <2> QED  BY <2>3, <2>4 DEF Programmes
  <1>2. PlaylistHasGuide
    BY <1>1 DEF PlaylistHasGuide
  <1> QED  BY <1>2, PTL

-----------------------------------------------------------------------------
(* The refinement.                                                         *)

LEMMA StoreInitially == Init => Guide!Init
  BY IdleTyped DEF Init, Guide!Init

LEMMA StoreStep == IInv /\ [Next]_vars => [Guide!Next]_(Guide!vars)
  <1> SUFFICES ASSUME IInv, [Next]_vars PROVE [Guide!Next]_(Guide!vars)
    OBVIOUS
  <1> DEFINE held == [t \in Threads |-> th[t].doc]
  <1>0. th \in [Threads -> Thread]
    BY DEF IInv, TypeOK
  <1>1. CASE UNCHANGED <<th, disk>>
    BY <1>1 DEF Guide!vars
  <1>2. CASE Crash
    <2>1. held' = [t \in Threads |-> NoDoc] /\ disk' = disk
      BY <1>2, IdleTyped DEF Crash
    <2> QED  BY <2>1 DEF Guide!Next, Guide!Restart
  <1>3. ASSUME NEW t \in Threads, NEW r, Become(t, r)
        PROVE  held' = [held EXCEPT ![t] = th'[t].doc]
    BY <1>0, <1>3 DEF Become
  <1>4. ASSUME NEW t \in Threads, Store(t) PROVE Guide!Replace(t)
    <2>1. disk' = th[t].page /\ th[t].page \in Documents
      BY <1>4 DEF Store, At, IInv, ThreadOK
    <2>a. PICK r : r = [th[t] EXCEPT !.pc = "cross", !.doc = th[t].page, !.page = NoDoc]
      OBVIOUS
    <2>b. Become(t, r)
      BY <1>4, <2>a DEF Store
    <2>c. th'[t] = r /\ r.doc = th[t].page
      BY <1>0, <2>a, <2>b DEF Become, Thread
    <2>2. th'[t].doc = th[t].page /\ held' = [held EXCEPT ![t] = th'[t].doc]
      BY <1>3, <2>b, <2>c
    <2>3. disk' \in Documents /\ held' = [held EXCEPT ![t] = disk']
      BY <2>1, <2>2
    <2> HIDE DEF held
    <2> QED  BY <2>3 DEF Guide!Replace, held
  <1>5. ASSUME NEW t \in Threads, NEW r, Become(t, r), disk' = disk
        PROVE  [Guide!Next]_(Guide!vars)
    <2>1. held' = [held EXCEPT ![t] = th'[t].doc]
      BY <1>3, <1>5
    <2>2. CASE th'[t].doc = th[t].doc
      <3>1. held' = held  BY <2>1, <2>2
      <3> QED  BY <1>5, <3>1 DEF Guide!vars
    <2>3. CASE th'[t].doc = NoDoc
      BY <1>5, <2>1, <2>3 DEF Guide!Next, Guide!Drop
    <2>4. CASE th'[t].doc = disk
      BY <1>5, <2>1, <2>4 DEF Guide!Next, Guide!Take
    <2> QED  BY <1>5, <2>2, <2>3, <2>4, Given
  <1>6. ASSUME NEW t \in Threads,
               Request(t) \/ Enter(t) \/ Download(t) \/ Cross(t) \/ Reply(t), ~Store(t)
        PROVE  [Guide!Next]_(Guide!vars)
    <2>1. \E r : Become(t, r)
      BY <1>6 DEF Request, Enter, UseMemory, UseDisk, StartFetch, Download, FetchPage,
         FetchFails, StoreFails, Fallback, FallbackFails, Cross, Reply
    <2>2. disk' = disk
      BY <1>6 DEF Request, Enter, UseMemory, UseDisk, StartFetch, Download, FetchPage,
         FetchFails, StoreFails, FallbackFails, Cross, Reply, cache
    <2> QED  BY <1>5, <2>1, <2>2
  <1>7. CASE Tick \/ Change \/ Rest \/ UNCHANGED vars
    BY <1>1, <1>7 DEF Tick, Change, Rest, vars, cache
  <1> QED  BY <1>2, <1>4, <1>6, <1>7 DEF Next, Guide!Next, Download

\* ImplementsGuideStore: lock, memory and file together are one document that
\* survives restarts, is replaced only by a finished download and is handed to
\* requests as it is.
THEOREM Implementation == Spec => ImplementsGuideStore
  BY StoreInitially, StoreStep, Invariance, PTL
     DEF ImplementsGuideStore, Spec, Guide!Spec
=============================================================================
