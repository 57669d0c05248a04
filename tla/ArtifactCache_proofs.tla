------------------------- MODULE ArtifactCache_proofs -------------------------
(***************************************************************************)
(* Proofs about the session file cache, for any processes, threads and     *)
(* messages: CacheInv is inductive, the invariants of the artifact_cache   *)
(* run follow from it, and every step of the threads, evictors and crashes *)
(* is a step of PinnedStore or leaves the store alone.                     *)
(***************************************************************************)
EXTENDS ArtifactCache, TLAPS

(* A thread that has, or is about to give up, the exclusive lock it took.  *)
Locked == {"open", "stream", "drain", "finalize", "convert"}

(* A thread whose process reserved the identity for it.                    *)
Reserved == Locked \cup {"revalidate", "refuse", "oslock", "relookup", "restore",
                         "restoreCheck", "check", "lock", "relock", "handoff",
                         "abort", "join", "release"}

Places == Reserved \cup {"ticket", "memory", "memoryCheck", "begin", "ended"}
Outcomes == {"none", "gaveUp", "concurrent", "inUse", "failed", "aborted",
             "served", "finalized"}

(* The variables are of their types.                                       *)
Typed ==
    /\ file \in [gen : Nat, content : {"absent", "whole", "short", "damaged"}]
    /\ refs \in [Procs -> Nat] /\ ticket \in [Procs -> Threads \cup {None}]
    /\ entry \in [Procs -> {"none", "unbound", "bound"}]
    /\ query \in [Procs -> {"idle", "leased", "lookup"}]
    /\ evict \in [Procs -> {"idle", "holding"}]
    /\ pc \in [Threads -> Places] /\ outcome \in [Threads -> Outcomes]
    /\ enq \in [Threads -> Nat]

(* So are those that hold flags.                                           *)
Flags ==
    /\ complete \in [Threads -> BOOLEAN] /\ alive \in [Procs -> BOOLEAN]
    /\ partial \in [Procs -> [owner : Threads \cup {None}, closed : BOOLEAN]]

(* Who relies on the sidecar lock has it.                                  *)
LocksHeld ==
    /\ \A t \in Threads : pc[t] \in Locked => excl = t
    /\ \A t \in Threads : pc[t] \in {"restoreCheck", "handoff"} => t \in shared
    /\ \A p \in Procs : query[p] = "leased" => Query(p) \in shared
    /\ \A p \in Procs : evict[p] = "holding" => excl = Evictor(p)

(* One materialization of the identity at a time in a process.             *)
TicketHeld == \A t \in Threads : pc[t] \in Reserved => ticket[Home[t]] = t

(* The partial a tee writes is its own.                                    *)
PartialOwned == \A t \in Threads :
    pc[t] \in {"stream", "drain", "finalize"} => partial[Home[t]].owner = t

(* What is finalized was delivered to the last message.                    *)
CountsFull == \A t \in Threads :
    \/ pc[t] = "drain" /\ complete[t]
    \/ pc[t] = "finalize"
    => enq[t] = Messages

(* What is pinned is readable, and who was promised a pin has it.          *)
PinsTruthful ==
    /\ \A p \in Procs : refs[p] > 0 => Valid
    /\ \A p \in Procs : entry[p] = "bound" => refs[p] > 0
    /\ ServedIsPinned

CacheInv == /\ Typed /\ Flags /\ LeaseInv /\ LocksHeld /\ TicketHeld /\ PartialOwned
            /\ CountsFull /\ PinsTruthful /\ PublishedWhole

(* The handles of a process are distinct from each other, from those of    *)
(* other processes, from the threads and from None.                        *)
LEMMA HandleFacts ==
    /\ \A p \in Procs, q \in Procs :
          /\ Registry(p) = Registry(q) => p = q
          /\ Query(p) = Query(q) => p = q
          /\ Evictor(p) = Evictor(q) => p = q
          /\ Registry(p) # Query(q) /\ Registry(p) # Evictor(q)
          /\ Query(p) # Evictor(q)
    /\ \A p \in Procs : {Registry(p), Query(p), Evictor(p)} \cap (Threads \cup {None}) = {}
    /\ None \notin Threads
    /\ \A t \in Threads : Home[t] \in Procs
    /\ Messages \in Nat
<1>1. \A p, q : /\ Registry(p) = Registry(q) => p = q
                /\ Query(p) = Query(q) => p = q
                /\ Evictor(p) = Evictor(q) => p = q
                /\ Registry(p) # Query(q) /\ Registry(p) # Evictor(q)
                /\ Query(p) # Evictor(q)
    BY DEF Registry, Query, Evictor
<1>2. ASSUME NEW p \in Procs
      PROVE  {Registry(p), Query(p), Evictor(p)} \cap (Threads \cup {None}) = {}
    <2>1. \A role \in {"registry", "query", "evictor"} :
              <<p, role>> \notin Threads \cup {None}
        BY CacheConstants, Zenon DEF CacheConstants
    <2>2. /\ Registry(p) \notin Threads \cup {None}
          /\ Query(p) \notin Threads \cup {None}
          /\ Evictor(p) \notin Threads \cup {None}
        BY <2>1, Zenon DEF Registry, Query, Evictor
    <2> QED  BY <2>2
<1>3. None \notin Threads /\ (\A t \in Threads : Home[t] \in Procs) /\ Messages \in Nat
    BY CacheConstants DEF CacheConstants
<1> QED  BY <1>1, <1>2, <1>3

LEMMA HomeFacts ==
    None \notin Threads /\ (\A t \in Threads : Home[t] \in Procs) /\ Messages \in Nat
BY CacheConstants DEF CacheConstants

(* What a dying process takes with it: its own handles, and no others.     *)
LEMMA CrashFacts ==
    ASSUME NEW p \in Procs
    PROVE  /\ \A t \in Threads : t \in HandlesOf(p) <=> Home[t] = p
           /\ \A q \in Procs : /\ Registry(q) \in HandlesOf(p) <=> q = p
                               /\ Query(q) \in HandlesOf(p) <=> q = p
                               /\ Evictor(q) \in HandlesOf(p) <=> q = p
BY HandleFacts DEF HandlesOf, ThreadsOf

(* Init establishes the invariant.                                         *)
LEMMA InitInv == Init => CacheInv
<1> SUFFICES ASSUME Init PROVE CacheInv
    OBVIOUS
<1> USE HandleFacts
<1>0. pc \in [Threads -> {"ended", "ticket", "memory"}]
    BY DEF Init
<1>1. Typed
    BY <1>0 DEF Init, Typed, Places, Outcomes
<1>2. LeaseInv /\ PublishedWhole
    BY DEF Init, LeaseInv, PublishedWhole
<1>3. LocksHeld /\ TicketHeld /\ PartialOwned /\ CountsFull
    BY <1>0 DEF Init, LocksHeld, TicketHeld, PartialOwned, CountsFull, Locked, Reserved
<1>4. PinsTruthful
    BY DEF Init, PinsTruthful, ServedIsPinned
<1>5. Flags
    BY Zenon DEF Init, Flags, NoPartial
<1> QED  BY <1>1, <1>2, <1>3, <1>4, <1>5 DEF CacheInv

(* A thread goes from one place to one of several; the others stay.        *)
Moves(t, from, to) ==
    /\ pc[t] = from /\ pc'[t] \in to
    /\ \A u \in Threads \ {t} : pc'[u] = pc[u]

(* The control flow of a materializing thread.                             *)
LEMMA Flow ==
    ASSUME Typed, NEW t \in Threads
    PROVE
      /\ jobTicket(t) => Moves(t, "ticket", {"ticket", "revalidate", "refuse", "ended"})
      /\ jobRevalidate(t) => Moves(t, "revalidate", {"refuse", "ended"})
      /\ jobRefuse(t) => Moves(t, "refuse", {"oslock", "ended"})
      /\ jobLock(t) => Moves(t, "oslock", {"oslock", "relookup", "begin", "ended"})
      /\ jobRelookup(t) => Moves(t, "relookup", {"restore", "begin"})
      /\ restoreAcquire(t) => Moves(t, "restore", {"restore", "restoreCheck", "ended"})
      /\ restoreCheck(t) => Moves(t, "restoreCheck", {"restore", "ended"})
      /\ memoryLookup(t) => Moves(t, "memory", {"begin", "memoryCheck"})
      /\ memoryServe(t) => Moves(t, "memoryCheck", {"begin", "ended"})
      /\ beginTicket(t) => Moves(t, "begin", {"check", "ended"})
      /\ beginRefuse(t) => Moves(t, "check", {"lock", "abort"})
      /\ beginLock(t) => Moves(t, "lock", {"open", "abort"})
      /\ openWriter(t) => Moves(t, "open", {"stream", "abort"})
      /\ enqueue(t) => Moves(t, "stream", {"stream"})
      /\ teeEnqueueFailed(t) => Moves(t, "stream", {"abort"})
      /\ endDownload(t) => Moves(t, "stream", {"drain"})
      /\ drainAndClose(t) => Moves(t, "drain", {"finalize", "abort"})
      /\ finalize(t) => Moves(t, "finalize", {"convert", "abort"})
      /\ downgradeUnlock(t) => Moves(t, "convert", {"relock"})
      /\ downgradeRelock(t) => Moves(t, "relock", {"handoff", "abort"})
      /\ handoff(t) => Moves(t, "handoff", {"abort"})
      /\ abortAndCleanup(t) => Moves(t, "abort", {"join"})
      /\ cleanup(t) => Moves(t, "join", {"release"})
      /\ finishPull(t) => Moves(t, "release", {"ended"})
<1> USE DEF Typed, Moves, Goto, control, Places
<1>1. jobTicket(t) => Moves(t, "ticket", {"ticket", "revalidate", "refuse", "ended"})
    BY DEF jobTicket
<1>2. jobRevalidate(t) => Moves(t, "revalidate", {"refuse", "ended"})
    BY DEF jobRevalidate
<1>3. jobRefuse(t) => Moves(t, "refuse", {"oslock", "ended"})
    BY DEF jobRefuse
<1>4. jobLock(t) => Moves(t, "oslock", {"oslock", "relookup", "begin", "ended"})
    BY DEF jobLock
<1>5. jobRelookup(t) => Moves(t, "relookup", {"restore", "begin"})
    BY DEF jobRelookup
<1>6. restoreAcquire(t) => Moves(t, "restore", {"restore", "restoreCheck", "ended"})
    BY DEF restoreAcquire
<1>7. restoreCheck(t) => Moves(t, "restoreCheck", {"restore", "ended"})
    BY DEF restoreCheck
<1>8. memoryLookup(t) => Moves(t, "memory", {"begin", "memoryCheck"})
    BY DEF memoryLookup
<1>9. memoryServe(t) => Moves(t, "memoryCheck", {"begin", "ended"})
    BY DEF memoryServe
<1>10. beginTicket(t) => Moves(t, "begin", {"check", "ended"})
    BY DEF beginTicket
<1>11. beginRefuse(t) => Moves(t, "check", {"lock", "abort"})
    BY DEF beginRefuse
<1>12. beginLock(t) => Moves(t, "lock", {"open", "abort"})
    BY DEF beginLock
<1>13. openWriter(t) => Moves(t, "open", {"stream", "abort"})
    BY DEF openWriter
<1>14. enqueue(t) => Moves(t, "stream", {"stream"})
    BY DEF enqueue
<1>15. teeEnqueueFailed(t) => Moves(t, "stream", {"abort"})
    BY DEF teeEnqueueFailed
<1>16. endDownload(t) => Moves(t, "stream", {"drain"})
    BY DEF endDownload
<1>17. drainAndClose(t) => Moves(t, "drain", {"finalize", "abort"})
    BY DEF drainAndClose
<1>18. finalize(t) => Moves(t, "finalize", {"convert", "abort"})
    BY DEF finalize
<1>19. downgradeUnlock(t) => Moves(t, "convert", {"relock"})
    BY DEF downgradeUnlock
<1>20. downgradeRelock(t) => Moves(t, "relock", {"handoff", "abort"})
    BY DEF downgradeRelock
<1>21. handoff(t) => Moves(t, "handoff", {"abort"})
    BY DEF handoff
<1>22. abortAndCleanup(t) => Moves(t, "abort", {"join"})
    BY DEF abortAndCleanup
<1>23. cleanup(t) => Moves(t, "join", {"release"})
    BY DEF cleanup
<1>24. finishPull(t) => Moves(t, "release", {"ended"})
    BY DEF finishPull
<1> QED  BY <1>1, <1>2, <1>3, <1>4, <1>5, <1>6, <1>7, <1>8, <1>9, <1>10, <1>11,
            <1>12, <1>13, <1>14, <1>15, <1>16, <1>17, <1>18, <1>19, <1>20, <1>21,
            <1>22, <1>23, <1>24, Zenon

(* A reference more, and a ticket given back, are of their types.          *)
LEMMA RegistryTypes ==
    ASSUME Typed, NEW t \in Threads
    PROVE  /\ insertLeaseLocked(Home[t], t) => refs' \in [Procs -> Nat]
           /\ endMaterialize(t) => ticket' \in [Procs -> Threads \cup {None}]
BY HomeFacts DEF Typed, insertLeaseLocked, endMaterialize

(* The types are preserved by every step.                                  *)
LEMMA TypedStep == ASSUME Typed, [Next]_vars PROVE Typed'
<1> USE HomeFacts DEF Typed, Places, Reserved, Locked, Outcomes, Goto, Result, disk, locks,
        registry, control, tee, asking, world, insertLeaseLocked, release,
        tryShared, tryExclusive, tryBeginMaterialize, endMaterialize
<1>1. ASSUME NEW t \in Threads, jobTicket(t) PROVE Typed'
    BY <1>1 DEF jobTicket
<1>2. ASSUME NEW t \in Threads, jobRevalidate(t) PROVE Typed'
    BY <1>2 DEF jobRevalidate
<1>3. ASSUME NEW t \in Threads, jobRefuse(t) PROVE Typed'
    BY <1>3 DEF jobRefuse
<1>4. ASSUME NEW t \in Threads, jobLock(t) PROVE Typed'
    BY <1>4 DEF jobLock
<1>5. ASSUME NEW t \in Threads, jobRelookup(t) PROVE Typed'
    BY <1>5 DEF jobRelookup
<1>6. ASSUME NEW t \in Threads, restoreAcquire(t) PROVE Typed'
    BY <1>6 DEF restoreAcquire
<1>7. ASSUME NEW t \in Threads, restoreCheck(t) PROVE Typed'
    <2>1. CASE Valid
        <3>1. /\ refs' \in [Procs -> Nat]
              /\ ticket' \in [Procs -> Threads \cup {None}]
            BY <1>7, <2>1, RegistryTypes DEF restoreCheck
        <3> QED  BY <1>7, <2>1, <3>1 DEF restoreCheck
    <2>2. CASE ~Valid
        BY <1>7, <2>2 DEF restoreCheck
    <2> QED  BY <2>1, <2>2
<1>8. ASSUME NEW t \in Threads, memoryLookup(t) PROVE Typed'
    BY <1>8 DEF memoryLookup
<1>9. ASSUME NEW t \in Threads, memoryServe(t) PROVE Typed'
    <2>1. CASE Valid /\ entry[Home[t]] = "bound" /\ t \in shared
        BY <1>9, <2>1 DEF memoryServe
    <2>2. CASE Valid /\ entry[Home[t]] = "bound" /\ t \notin shared
        BY <1>9, <2>2 DEF memoryServe
    <2>3. CASE ~(Valid /\ entry[Home[t]] = "bound")
        BY <1>9, <2>3 DEF memoryServe
    <2> QED  BY <2>1, <2>2, <2>3
<1>10. ASSUME NEW t \in Threads, beginTicket(t) PROVE Typed'
    BY <1>10 DEF beginTicket
<1>11. ASSUME NEW t \in Threads, beginRefuse(t) PROVE Typed'
    BY <1>11 DEF beginRefuse
<1>12. ASSUME NEW t \in Threads, beginLock(t) PROVE Typed'
    BY <1>12 DEF beginLock
<1>13. ASSUME NEW t \in Threads, openWriter(t) PROVE Typed'
    BY <1>13 DEF openWriter
<1>14. ASSUME NEW t \in Threads, enqueue(t) PROVE Typed'
    BY <1>14 DEF enqueue
<1>15. ASSUME NEW t \in Threads, teeEnqueueFailed(t) PROVE Typed'
    BY <1>15 DEF teeEnqueueFailed
<1>16. ASSUME NEW t \in Threads, endDownload(t) PROVE Typed'
    BY <1>16 DEF endDownload
<1>17. ASSUME NEW t \in Threads, drainAndClose(t) PROVE Typed'
    BY <1>17 DEF drainAndClose
<1>18. ASSUME NEW t \in Threads, finalize(t) PROVE Typed'
    BY <1>18 DEF finalize
<1>19. ASSUME NEW t \in Threads, downgradeUnlock(t) PROVE Typed'
    BY <1>19 DEF downgradeUnlock
<1>20. ASSUME NEW t \in Threads, downgradeRelock(t) PROVE Typed'
    BY <1>20 DEF downgradeRelock
<1>21. ASSUME NEW t \in Threads, handoff(t) PROVE Typed'
    <2>1. CASE Valid
        <3>1. refs' \in [Procs -> Nat]
            BY <1>21, <2>1, RegistryTypes DEF handoff
        <3> QED  BY <1>21, <2>1, <3>1, Zenon DEF handoff
    <2>2. CASE ~Valid
        BY <1>21, <2>2 DEF handoff
    <2> QED  BY <2>1, <2>2
<1>22. ASSUME NEW t \in Threads, abortAndCleanup(t) PROVE Typed'
    BY <1>22 DEF abortAndCleanup
<1>23. ASSUME NEW t \in Threads, cleanup(t) PROVE Typed'
    BY <1>23 DEF cleanup
<1>24. ASSUME NEW t \in Threads, finishPull(t) PROVE Typed'
    BY <1>24 DEF finishPull
<1>25. ASSUME NEW t \in Threads, writerLoop(t) PROVE Typed'
    BY <1>25 DEF writerLoop
<1>26. ASSUME NEW t \in Threads, writerExit(t) PROVE Typed'
    BY <1>26 DEF writerExit
<1>27. ASSUME NEW t \in Threads, requestCancel(t) PROVE Typed'
    BY <1>27, Zenon DEF requestCancel
<1>28. ASSUME NEW p \in Procs, retainLease(p) PROVE Typed'
    BY <1>28 DEF retainLease
<1>29. ASSUME NEW p \in Procs, retainValidated(p) PROVE Typed'
    BY <1>29 DEF retainValidated
<1>30. ASSUME NEW p \in Procs, queryLookup(p) PROVE Typed'
    BY <1>30 DEF queryLookup
<1>31. ASSUME NEW p \in Procs, evictLock(p) PROVE Typed'
    BY <1>31 DEF evictLock
<1>32. ASSUME NEW p \in Procs, evictRemove(p) PROVE Typed'
    BY <1>32 DEF evictRemove
<1>33. ASSUME NEW p \in Procs, crash(p) PROVE Typed'
    BY <1>33 DEF crash
<1>34. CASE UNCHANGED vars
    BY <1>34 DEF vars
<1> QED
    BY <1>1, <1>2, <1>3, <1>4, <1>5, <1>6, <1>7, <1>8, <1>9, <1>10, <1>11, <1>12,
       <1>13, <1>14, <1>15, <1>16, <1>17, <1>18, <1>19, <1>20, <1>21, <1>22, <1>23,
       <1>24, <1>25, <1>26, <1>27, <1>28, <1>29, <1>30, <1>31, <1>32, <1>33, <1>34
   , ZenonT(40) DEF Next, ThreadStep, JobStep, TeeStep, QueryStep

(* The steps that touch neither the locks nor the lease registry.          *)
LocklessThread(t) ==
    \/ jobTicket(t) \/ jobRevalidate(t) \/ jobRefuse(t) \/ beginTicket(t)
    \/ beginRefuse(t) \/ openWriter(t) \/ enqueue(t) \/ teeEnqueueFailed(t)
    \/ endDownload(t) \/ drainAndClose(t) \/ finalize(t)
    \/ abortAndCleanup(t) \/ finishPull(t) \/ writerLoop(t) \/ writerExit(t)
    \/ requestCancel(t)

LEMMA LocklessFrame ==
    /\ \A t \in Threads :
          LocklessThread(t) => UNCHANGED <<excl, shared, refs, query, evict>>
    /\ \A p \in Procs : queryLookup(p) => UNCHANGED <<excl, shared, refs, evict, pc>>
BY DEF LocklessThread, jobTicket, jobRevalidate, jobRefuse, beginTicket,
       beginRefuse, openWriter, enqueue, teeEnqueueFailed, endDownload,
       drainAndClose, finalize, abortAndCleanup, finishPull, writerLoop,
       writerExit, requestCancel, queryLookup, locks, registry, asking, world,
       control

(* LeaseInv is a fact about the four primitives of the sidecar lock, used  *)
(* by a handle that is not a registry's.                                   *)
LEMMA LeasePrimitives ==
    ASSUME Typed, LeaseInv, NEW h, \A p \in Procs : h # Registry(p), h # None
    PROVE  /\ tryExclusive(h) /\ UNCHANGED refs => LeaseInv'
           /\ tryShared(h) /\ UNCHANGED refs => LeaseInv'
           /\ release(h) /\ UNCHANGED refs => LeaseInv'
           /\ UNCHANGED <<excl, shared, refs>> => LeaseInv'
           /\ h \in shared => \A p \in Procs : insertLeaseLocked(p, h) => LeaseInv'
<1>1. tryExclusive(h) /\ UNCHANGED refs => LeaseInv'
    BY DEF tryExclusive, Contended, LeaseInv
<1>2. tryShared(h) /\ UNCHANGED refs => LeaseInv'
    BY DEF tryShared, LeaseInv
<1>3. release(h) /\ UNCHANGED refs => LeaseInv'
    BY DEF release, LeaseInv
<1>4. UNCHANGED <<excl, shared, refs>> => LeaseInv'
    BY DEF LeaseInv
<1>5. ASSUME NEW p \in Procs, h \in shared, insertLeaseLocked(p, h) PROVE LeaseInv'
    <2>1. excl' = None
        BY <1>5 DEF insertLeaseLocked, LeaseInv
    <2>2. ASSUME NEW q \in Procs PROVE refs'[q] > 0 <=> Registry(q) \in shared'
        <3>1. CASE q = p
            BY <1>5, <3>1 DEF insertLeaseLocked, Typed
        <3>2. CASE q # p
            <4>1. refs'[q] = refs[q] /\ Registry(q) # Registry(p)
                BY <1>5, <3>2, HandleFacts DEF insertLeaseLocked, Typed
            <4> QED  BY <1>5, <4>1 DEF insertLeaseLocked, LeaseInv
        <3> QED  BY <3>1, <3>2
    <2> QED  BY <2>1, <2>2 DEF LeaseInv
<1> QED  BY <1>1, <1>2, <1>3, <1>4, <1>5

(* LeaseInv is preserved: who inserts a lease holds a shared lock.         *)
LEMMA LeaseStep == ASSUME CacheInv, [Next]_vars PROVE LeaseInv'
<1>0. Typed /\ LeaseInv /\ LocksHeld
    BY DEF CacheInv
<1>1. ASSUME NEW t \in Threads, LocklessThread(t) PROVE LeaseInv'
    BY <1>0, <1>1, LocklessFrame DEF LeaseInv
<1>2. ASSUME NEW p \in Procs, queryLookup(p) PROVE LeaseInv'
    BY <1>0, <1>2, LocklessFrame DEF LeaseInv
<1>3. ASSUME NEW t \in Threads
      PROVE  /\ Home[t] \in Procs /\ t # None
             /\ \A p \in Procs : t # Registry(p)
    BY HandleFacts
<1>4. ASSUME NEW p \in Procs
      PROVE  /\ Query(p) # None /\ \A q \in Procs : Query(p) # Registry(q)
             /\ Evictor(p) # None /\ \A q \in Procs : Evictor(p) # Registry(q)
    BY HandleFacts
<1>5. ASSUME NEW t \in Threads, jobLock(t) PROVE LeaseInv'
    BY <1>0, <1>3, <1>5, LeasePrimitives, ZenonT(40) DEF jobLock, locks, registry
<1>6. ASSUME NEW t \in Threads, jobRelookup(t) PROVE LeaseInv'
    BY <1>0, <1>3, <1>6, LeasePrimitives, ZenonT(40) DEF jobRelookup, locks, registry
<1>7. ASSUME NEW t \in Threads, restoreAcquire(t) PROVE LeaseInv'
    BY <1>0, <1>3, <1>7, LeasePrimitives, ZenonT(40) DEF restoreAcquire, locks, registry
<1>8. ASSUME NEW t \in Threads, memoryLookup(t) PROVE LeaseInv'
    BY <1>0, <1>3, <1>8, LeasePrimitives DEF memoryLookup, locks, registry
<1>9. ASSUME NEW t \in Threads, beginLock(t) PROVE LeaseInv'
    BY <1>0, <1>3, <1>9, LeasePrimitives, ZenonT(40) DEF beginLock, locks, registry
<1>10. ASSUME NEW t \in Threads, downgradeUnlock(t) PROVE LeaseInv'
    BY <1>0, <1>3, <1>10, LeasePrimitives DEF downgradeUnlock, locks, registry
<1>11. ASSUME NEW t \in Threads, downgradeRelock(t) PROVE LeaseInv'
    BY <1>0, <1>3, <1>11, LeasePrimitives, Zenon DEF downgradeRelock, locks, registry
<1>12. ASSUME NEW t \in Threads, cleanup(t) PROVE LeaseInv'
    BY <1>0, <1>3, <1>12, LeasePrimitives DEF cleanup, locks, registry
<1>13. ASSUME NEW t \in Threads, restoreCheck(t) PROVE LeaseInv'
    <2>1. t \in shared
        BY <1>0, <1>13 DEF restoreCheck, LocksHeld
    <2> QED  BY <1>0, <1>3, <1>13, <2>1, LeasePrimitives, ZenonT(40) DEF restoreCheck
<1>14. ASSUME NEW t \in Threads, handoff(t) PROVE LeaseInv'
    <2>1. t \in shared
        BY <1>0, <1>14, ZenonT(40) DEF handoff, LocksHeld
    <2> QED  BY <1>0, <1>3, <1>14, <2>1, LeasePrimitives, ZenonT(40) DEF handoff
<1>15. ASSUME NEW t \in Threads, memoryServe(t) PROVE LeaseInv'
    BY <1>0, <1>3, <1>15, LeasePrimitives DEF memoryServe, locks
<1>16. ASSUME NEW p \in Procs, retainLease(p) PROVE LeaseInv'
    <2>1. CASE refs[p] > 0
        BY <1>0, <1>16, <2>1, SMTT(30) DEF retainLease, LeaseInv, Typed, locks
    <2>2. CASE ~(refs[p] > 0)
        BY <1>0, <1>4, <1>16, <2>2, LeasePrimitives DEF retainLease, locks
    <2> QED  BY <2>1, <2>2, ZenonT(40)
<1>17. ASSUME NEW p \in Procs, retainValidated(p) PROVE LeaseInv'
    <2>1. Query(p) \in shared
        BY <1>0, <1>17 DEF retainValidated, LocksHeld
    <2> QED  BY <1>0, <1>4, <1>17, <2>1, LeasePrimitives, ZenonT(40) DEF retainValidated
<1>18. ASSUME NEW p \in Procs, evictLock(p) PROVE LeaseInv'
    BY <1>0, <1>4, <1>18, LeasePrimitives DEF evictLock, registry
<1>19. ASSUME NEW p \in Procs, evictRemove(p) PROVE LeaseInv'
    BY <1>0, <1>4, <1>19, LeasePrimitives, ZenonT(40) DEF evictRemove, registry
<1>20. ASSUME NEW p \in Procs, crash(p) PROVE LeaseInv'
    BY <1>0, <1>20, CrashFacts DEF crash, Typed, LeaseInv
<1>21. CASE UNCHANGED vars
    BY <1>0, <1>21 DEF vars, locks, registry, LeaseInv
<1> QED
    BY <1>1, <1>2, <1>5, <1>6, <1>7, <1>8, <1>9, <1>10, <1>11, <1>12, <1>13, <1>14,
       <1>15, <1>16, <1>17, <1>18, <1>19, <1>20, <1>21, ZenonT(40)
    DEF Next, ThreadStep, JobStep, TeeStep, QueryStep, LocklessThread

(* A step of handle h takes no lock from another handle.                   *)
KeepsOthers(h) == \A g : g # h /\ g # None =>
    (g \in shared => g \in shared') /\ (excl = g => excl' = g)

LEMMA LockPrimitives ==
    ASSUME NEW h
    PROVE  /\ tryExclusive(h) => KeepsOthers(h)
           /\ tryShared(h) => KeepsOthers(h)
           /\ release(h) => KeepsOthers(h)
           /\ \A p \in Procs : insertLeaseLocked(p, h) => KeepsOthers(h)
           /\ UNCHANGED locks => KeepsOthers(h)
BY ZenonT(40) DEF KeepsOthers, tryExclusive, tryShared, release, insertLeaseLocked, locks,
       Contended

(* What a thread that moved needs, if nobody lost a lock.                  *)
HasLocks(t) ==
    /\ pc'[t] \in Locked => excl' = t
    /\ pc'[t] \in {"restoreCheck", "handoff"} => t \in shared'

LEMMA LockedThread ==
    ASSUME LocksHeld, NEW t \in Threads, KeepsOthers(t), HasLocks(t),
           \A u \in Threads \ {t} : pc'[u] = pc[u], UNCHANGED <<query, evict>>
    PROVE  LocksHeld'
BY HandleFacts, ZenonT(40) DEF LocksHeld, KeepsOthers, HasLocks

(* LocksHeld is preserved.                                                 *)
LEMMA LocksStep == ASSUME CacheInv, [Next]_vars PROVE LocksHeld'
<1>0. Typed /\ LeaseInv /\ LocksHeld
    BY DEF CacheInv
<1>1. ASSUME NEW t \in Threads, LocklessThread(t)
      PROVE  /\ \A u \in Threads : pc'[u] \in Locked => pc[u] \in Locked
             /\ \A u \in Threads :
                   pc'[u] \in {"restoreCheck", "handoff"} => pc'[u] = pc[u]
    <2>1. CASE writerLoop(t) \/ writerExit(t) \/ requestCancel(t)
        BY <2>1, ZenonT(40) DEF writerLoop, writerExit, requestCancel, control
    <2> QED  BY <1>0, <1>1, <2>1, Flow, Zenon DEF LocklessThread, Moves, Locked
<1>2. ASSUME NEW t \in Threads, LocklessThread(t) PROVE LocksHeld'
    BY <1>0, <1>1, <1>2, LocklessFrame DEF LocksHeld
<1>3. ASSUME NEW p \in Procs, queryLookup(p) PROVE LocksHeld'
    BY <1>0, <1>3, LocklessFrame, ZenonT(40) DEF LocksHeld, queryLookup, Typed
<1>4. ASSUME NEW t \in Threads, jobLock(t) PROVE LocksHeld'
    <2>1. KeepsOthers(t) /\ UNCHANGED <<query, evict>>
        BY <1>0, <1>4, LockPrimitives DEF jobLock, locks, asking, world
    <2>2. HasLocks(t) /\ \A u \in Threads \ {t} : pc'[u] = pc[u]
        BY <1>0, <1>4, Flow, Zenon DEF jobLock, Moves, HasLocks, Locked
    <2> QED  BY <1>0, <2>1, <2>2, LockedThread, ZenonT(40)
<1>5. ASSUME NEW t \in Threads, jobRelookup(t) PROVE LocksHeld'
    <2>1. KeepsOthers(t) /\ UNCHANGED <<query, evict>>
        BY <1>0, <1>5, LockPrimitives DEF jobRelookup, locks, asking, world
    <2>2. HasLocks(t) /\ \A u \in Threads \ {t} : pc'[u] = pc[u]
        BY <1>0, <1>5, Flow, Zenon DEF jobRelookup, Moves, HasLocks, Locked
    <2> QED  BY <1>0, <2>1, <2>2, LockedThread
<1>6. ASSUME NEW t \in Threads, restoreAcquire(t) PROVE LocksHeld'
    <2>1. KeepsOthers(t) /\ UNCHANGED <<query, evict>>
        BY <1>0, <1>6, LockPrimitives, ZenonT(40) DEF restoreAcquire, locks, asking, world
    <2>2. HasLocks(t) /\ \A u \in Threads \ {t} : pc'[u] = pc[u]
        BY <1>0, <1>6, ZenonT(40) DEF restoreAcquire, Typed, Goto, HasLocks, Locked, tryShared,
           tryExclusive, locks
    <2> QED  BY <1>0, <2>1, <2>2, LockedThread
<1>7. ASSUME NEW t \in Threads, restoreCheck(t) PROVE LocksHeld'
    <2>1. KeepsOthers(t) /\ UNCHANGED <<query, evict>>
        BY <1>0, <1>7, HomeFacts, LockPrimitives, Zenon DEF restoreCheck, locks, asking, world
    <2>2. HasLocks(t) /\ \A u \in Threads \ {t} : pc'[u] = pc[u]
        BY <1>0, <1>7, Flow, Zenon DEF restoreCheck, Moves, HasLocks, Locked
    <2> QED  BY <1>0, <2>1, <2>2, LockedThread
<1>8. ASSUME NEW t \in Threads, memoryLookup(t) PROVE LocksHeld'
    <2>1. KeepsOthers(t) /\ UNCHANGED <<query, evict>>
        BY <1>0, <1>8, LockPrimitives, Zenon DEF memoryLookup, locks, asking, world
    <2>2. HasLocks(t) /\ \A u \in Threads \ {t} : pc'[u] = pc[u]
        BY <1>0, <1>8, Flow, ZenonT(30) DEF memoryLookup, Moves, HasLocks, Locked
    <2> QED  BY <1>0, <2>1, <2>2, LockedThread
<1>9. ASSUME NEW t \in Threads, memoryServe(t) PROVE LocksHeld'
    <2>1. KeepsOthers(t) /\ UNCHANGED <<query, evict>>
        BY <1>0, <1>9, HomeFacts, LockPrimitives, Zenon DEF memoryServe, locks, asking, world
    <2>2. HasLocks(t) /\ \A u \in Threads \ {t} : pc'[u] = pc[u]
        BY <1>0, <1>9, Flow, Zenon DEF memoryServe, Moves, HasLocks, Locked
    <2> QED  BY <1>0, <2>1, <2>2, LockedThread
<1>10. ASSUME NEW t \in Threads, beginLock(t) PROVE LocksHeld'
    <2>1. KeepsOthers(t) /\ UNCHANGED <<query, evict>>
        BY <1>0, <1>10, LockPrimitives DEF beginLock, locks, asking, world
    <2>2. HasLocks(t) /\ \A u \in Threads \ {t} : pc'[u] = pc[u]
        BY <1>0, <1>10 DEF beginLock, Typed, Goto, HasLocks, Locked, tryShared,
           tryExclusive, locks
    <2> QED  BY <1>0, <2>1, <2>2, LockedThread
<1>11. ASSUME NEW t \in Threads, downgradeUnlock(t) PROVE LocksHeld'
    <2>1. KeepsOthers(t) /\ UNCHANGED <<query, evict>>
        BY <1>0, <1>11, LockPrimitives DEF downgradeUnlock, locks, asking, world
    <2>2. HasLocks(t) /\ \A u \in Threads \ {t} : pc'[u] = pc[u]
        BY <1>0, <1>11, Flow, ZenonT(40) DEF downgradeUnlock, Moves, HasLocks, Locked
    <2> QED  BY <1>0, <2>1, <2>2, LockedThread
<1>12. ASSUME NEW t \in Threads, downgradeRelock(t) PROVE LocksHeld'
    <2>1. KeepsOthers(t) /\ UNCHANGED <<query, evict>>
        BY <1>0, <1>12, LockPrimitives DEF downgradeRelock, locks, asking, world
    <2>2. HasLocks(t) /\ \A u \in Threads \ {t} : pc'[u] = pc[u]
        BY <1>0, <1>12, ZenonT(40) DEF downgradeRelock, Typed, Goto, HasLocks, Locked, tryShared,
           tryExclusive, locks
    <2> QED  BY <1>0, <2>1, <2>2, LockedThread
<1>13. ASSUME NEW t \in Threads, handoff(t) PROVE LocksHeld'
    <2>1. KeepsOthers(t) /\ UNCHANGED <<query, evict>>
        BY <1>0, <1>13, HomeFacts, LockPrimitives DEF handoff, locks, asking, world
    <2>2. HasLocks(t) /\ \A u \in Threads \ {t} : pc'[u] = pc[u]
        BY <1>0, <1>13, Flow, Zenon DEF handoff, Moves, HasLocks, Locked
    <2> QED  BY <1>0, <2>1, <2>2, LockedThread
<1>14. ASSUME NEW t \in Threads, cleanup(t) PROVE LocksHeld'
    <2>1. KeepsOthers(t) /\ UNCHANGED <<query, evict>>
        BY <1>0, <1>14, LockPrimitives, Zenon DEF cleanup, locks, asking, world
    <2>2. HasLocks(t) /\ \A u \in Threads \ {t} : pc'[u] = pc[u]
        BY <1>0, <1>14, Flow, Zenon DEF cleanup, Moves, HasLocks, Locked
    <2> QED  BY <1>0, <2>1, <2>2, LockedThread
<1>15. ASSUME NEW p \in Procs, retainLease(p) PROVE LocksHeld'
    <2>1. CASE refs[p] > 0
        BY <1>0, <1>15, <2>1, Zenon DEF retainLease, LocksHeld, locks, world, control
    <2>2. CASE ~(refs[p] > 0)
        <3>1. excl' = excl /\ shared \subseteq shared' /\ pc' = pc /\ evict' = evict
            BY <1>15, <2>2, ZenonT(40) DEF retainLease, tryShared, locks, control, world
        <3>2. \A q \in Procs : query'[q] = "leased" =>
                  query[q] = "leased" \/ (q = p /\ Query(p) \in shared')
            BY <1>0, <1>15, <2>2, ZenonT(40) DEF retainLease, tryShared, locks, Typed
        <3> QED  BY <1>0, <3>1, <3>2, HandleFacts, Zenon DEF LocksHeld
    <2> QED  BY <2>1, <2>2
<1>16. ASSUME NEW p \in Procs, retainValidated(p) PROVE LocksHeld'
    <2>1. KeepsOthers(Query(p)) /\ pc' = pc /\ evict' = evict
        BY <1>16, LockPrimitives DEF retainValidated, control, world
    <2>2. \A q \in Procs : query'[q] = "leased" => query[q] = "leased" /\ q # p
        BY <1>0, <1>16 DEF retainValidated, Typed
    <2> QED  BY <1>0, <2>1, <2>2, HandleFacts DEF LocksHeld, KeepsOthers
<1>17. ASSUME NEW p \in Procs, evictLock(p) PROVE LocksHeld'
    BY <1>0, <1>17, HandleFacts, LockPrimitives, ZenonT(30) DEF evictLock, Typed, LocksHeld, KeepsOthers,
       tryShared, tryExclusive, locks, asking, world, control
<1>18. ASSUME NEW p \in Procs, evictRemove(p) PROVE LocksHeld'
    BY <1>0, <1>18, HandleFacts, LockPrimitives DEF evictRemove, Typed, LocksHeld, KeepsOthers,
       tryShared, tryExclusive, locks, asking, world, control
<1>19. ASSUME NEW p \in Procs, crash(p) PROVE LocksHeld'
    <2>1. \A h : h \notin HandlesOf(p) =>
              (excl = h => excl' = h) /\ (h \in shared => h \in shared')
        BY <1>19, ZenonT(40) DEF crash
    <2>2. \A t \in Threads : pc'[t] # "ended" => pc'[t] = pc[t] /\ Home[t] # p
        BY <1>19, ZenonT(40) DEF crash
    <2>3. \A q \in Procs : /\ query'[q] = "leased" => query[q] = "leased" /\ q # p
                           /\ evict'[q] = "holding" => evict[q] = "holding" /\ q # p
        BY <1>0, <1>19 DEF crash, Typed
    <2> QED  BY <1>0, <2>1, <2>2, <2>3, CrashFacts DEF LocksHeld, Locked
<1>20. CASE UNCHANGED vars
    BY <1>0, <1>20, Zenon DEF vars, LocksHeld, locks, asking, world, control
<1> QED
    BY <1>2, <1>3, <1>4, <1>5, <1>6, <1>7, <1>8, <1>9, <1>10, <1>11, <1>12, <1>13,
       <1>14, <1>15, <1>16, <1>17, <1>18, <1>19, <1>20, Zenon
    DEF Next, ThreadStep, JobStep, TeeStep, QueryStep, LocklessThread

(* How a step of a thread deals with the ticket of its process.            *)
TicketRule(t) ==
    \/ UNCHANGED ticket /\ (pc'[t] \in Reserved => pc[t] \in Reserved)
    \/ endMaterialize(t) /\ pc'[t] \notin Reserved
    \/ tryBeginMaterialize(t)
    \/ UNCHANGED ticket /\ ticket[Home[t]] = t

LEMMA TicketThread ==
    ASSUME Typed, TicketHeld, NEW t \in Threads, TicketRule(t),
           \A u \in Threads \ {t} : pc'[u] = pc[u]
    PROVE  TicketHeld'
<1> USE HomeFacts DEF Typed, TicketHeld
<1>1. CASE UNCHANGED ticket /\ (pc'[t] \in Reserved => pc[t] \in Reserved)
    BY <1>1, Zenon
<1>2. CASE endMaterialize(t) /\ pc'[t] \notin Reserved
    BY <1>2, Zenon DEF endMaterialize
<1>3. CASE tryBeginMaterialize(t)
    BY <1>3 DEF tryBeginMaterialize
<1>4. CASE UNCHANGED ticket /\ ticket[Home[t]] = t
    BY <1>4, ZenonT(40)
<1> QED  BY <1>1, <1>2, <1>3, <1>4, Zenon DEF TicketRule

(* The steps that leave the ticket alone.                                  *)
TicketlessThread(t) ==
    \/ jobRelookup(t) \/ memoryLookup(t) \/ memoryServe(t) \/ beginRefuse(t)
    \/ beginLock(t) \/ openWriter(t) \/ enqueue(t) \/ teeEnqueueFailed(t)
    \/ endDownload(t) \/ drainAndClose(t) \/ finalize(t) \/ downgradeUnlock(t)
    \/ downgradeRelock(t) \/ handoff(t) \/ abortAndCleanup(t) \/ cleanup(t)

LEMMA TicketlessFrame ==
    \A t \in Threads : TicketlessThread(t) => UNCHANGED ticket
BY DEF TicketlessThread, jobRelookup, memoryLookup, memoryServe, beginRefuse, beginLock,
       openWriter, enqueue, teeEnqueueFailed, endDownload, drainAndClose, finalize,
       downgradeUnlock, downgradeRelock, handoff, abortAndCleanup, cleanup, registry

(* The steps that move no thread.                                          *)
StandStill ==
    \/ \E t \in Threads : writerLoop(t) \/ writerExit(t) \/ requestCancel(t)
    \/ \E p \in Procs : QueryStep(p) \/ evictLock(p) \/ evictRemove(p)
    \/ UNCHANGED vars

LEMMA StandStillFrame == StandStill => UNCHANGED <<pc, outcome, ticket, entry, enq, complete, alive>>
BY ZenonT(40) DEF StandStill, writerLoop, writerExit, requestCancel, QueryStep, retainLease,
       retainValidated, queryLookup, evictLock, evictRemove, vars, control, registry, tee,
       world

(* TicketHeld is preserved.                                                *)
LEMMA TicketStep == ASSUME CacheInv, [Next]_vars PROVE TicketHeld'
<1> USE HomeFacts
<1>0. Typed /\ TicketHeld
    BY DEF CacheInv
<1>1. CASE StandStill
    BY <1>0, <1>1, StandStillFrame, Zenon DEF TicketHeld
<1>2. ASSUME NEW t \in Threads, TicketlessThread(t) PROVE TicketHeld'
    <2>1. /\ \A u \in Threads \ {t} : pc'[u] = pc[u]
          /\ pc'[t] \in Reserved => pc[t] \in Reserved
        BY <1>0, <1>2, Flow, Zenon DEF TicketlessThread, Moves, Reserved, Locked
    <2>2. UNCHANGED ticket
        BY <1>2, TicketlessFrame
    <2> QED  BY <1>0, <2>1, <2>2, TicketThread DEF TicketRule
<1>3. ASSUME NEW t \in Threads, jobTicket(t) PROVE TicketHeld'
    <2>1. \A u \in Threads \ {t} : pc'[u] = pc[u]
        BY <1>0, <1>3, Flow, ZenonT(40) DEF Moves
    <2>2. TicketRule(t)
        BY <1>0, <1>3 DEF jobTicket, TicketRule, Typed, Goto, Reserved, Locked
    <2> QED  BY <1>0, <2>1, <2>2, TicketThread
<1>4. ASSUME NEW t \in Threads, jobRevalidate(t) PROVE TicketHeld'
    <2>1. \A u \in Threads \ {t} : pc'[u] = pc[u]
        BY <1>0, <1>4, Flow, ZenonT(40) DEF Moves
    <2>2. TicketRule(t)
        BY <1>0, <1>4 DEF jobRevalidate, TicketRule, Typed, Goto, Reserved, Locked
    <2> QED  BY <1>0, <2>1, <2>2, TicketThread
<1>5. ASSUME NEW t \in Threads, jobRefuse(t) PROVE TicketHeld'
    <2>1. \A u \in Threads \ {t} : pc'[u] = pc[u]
        BY <1>0, <1>5, Flow, ZenonT(40) DEF Moves
    <2>2. TicketRule(t)
        BY <1>0, <1>5 DEF jobRefuse, TicketRule, Typed, Goto, Reserved, Locked
    <2> QED  BY <1>0, <2>1, <2>2, TicketThread
<1>6. ASSUME NEW t \in Threads, jobLock(t) PROVE TicketHeld'
    <2>1. \A u \in Threads \ {t} : pc'[u] = pc[u]
        BY <1>0, <1>6, Flow, ZenonT(40) DEF Moves
    <2>2. TicketRule(t)
        BY <1>0, <1>6 DEF jobLock, TicketRule, Typed, Goto, Reserved, Locked
    <2> QED  BY <1>0, <2>1, <2>2, TicketThread
<1>7. ASSUME NEW t \in Threads, restoreAcquire(t) PROVE TicketHeld'
    <2>1. \A u \in Threads \ {t} : pc'[u] = pc[u]
        BY <1>0, <1>7, Flow, ZenonT(40) DEF Moves
    <2>2. TicketRule(t)
        BY <1>0, <1>7 DEF restoreAcquire, TicketRule, Typed, Goto, Reserved, Locked
    <2> QED  BY <1>0, <2>1, <2>2, TicketThread
<1>8. ASSUME NEW t \in Threads, restoreCheck(t) PROVE TicketHeld'
    <2>1. \A u \in Threads \ {t} : pc'[u] = pc[u]
        BY <1>0, <1>8, Flow, ZenonT(40) DEF Moves
    <2>2. TicketRule(t)
        BY <1>0, <1>8 DEF restoreCheck, TicketRule, Typed, Goto, Reserved, Locked
    <2> QED  BY <1>0, <2>1, <2>2, TicketThread
<1>9. ASSUME NEW t \in Threads, beginTicket(t) PROVE TicketHeld'
    <2>1. \A u \in Threads \ {t} : pc'[u] = pc[u]
        BY <1>0, <1>9, Flow, ZenonT(40) DEF Moves
    <2>2. TicketRule(t)
        BY <1>0, <1>9 DEF beginTicket, TicketRule, Typed, Goto, Reserved, Locked
    <2> QED  BY <1>0, <2>1, <2>2, TicketThread
<1>10. ASSUME NEW t \in Threads, finishPull(t) PROVE TicketHeld'
    <2>1. \A u \in Threads \ {t} : pc'[u] = pc[u]
        BY <1>0, <1>10, Flow, ZenonT(40) DEF Moves
    <2>2. TicketRule(t)
        BY <1>0, <1>10, ZenonT(40) DEF finishPull, TicketRule, Typed, Goto, Reserved, Locked
    <2> QED  BY <1>0, <2>1, <2>2, TicketThread
<1>11. ASSUME NEW p \in Procs, crash(p) PROVE TicketHeld'
    BY <1>0, <1>11 DEF crash, Typed, TicketHeld, Reserved, Locked
<1> QED
    BY <1>1, <1>2, <1>3, <1>4, <1>5, <1>6, <1>7, <1>8, <1>9, <1>10, <1>11
    DEF Next, ThreadStep, JobStep, TeeStep, TicketlessThread, StandStill

(* The steps of a thread that leave the partials alone.                    *)
PartiallessThread(t) ==
    \/ jobTicket(t) \/ jobRevalidate(t) \/ jobRefuse(t) \/ jobLock(t)
    \/ jobRelookup(t) \/ restoreAcquire(t) \/ restoreCheck(t) \/ memoryLookup(t)
    \/ memoryServe(t) \/ beginTicket(t) \/ beginRefuse(t) \/ beginLock(t)
    \/ enqueue(t) \/ teeEnqueueFailed(t) \/ endDownload(t) \/ downgradeUnlock(t)
    \/ downgradeRelock(t) \/ handoff(t) \/ abortAndCleanup(t) \/ finishPull(t)

LEMMA PartiallessFrame ==
    \A t \in Threads : PartiallessThread(t) => UNCHANGED <<partial, alive>>
BY ZenonT(40) DEF PartiallessThread, jobTicket, jobRevalidate, jobRefuse, jobLock, jobRelookup,
       restoreAcquire, restoreCheck, memoryLookup, memoryServe, beginTicket, beginRefuse,
       beginLock, enqueue, teeEnqueueFailed, endDownload, downgradeUnlock,
       downgradeRelock, handoff, abortAndCleanup, finishPull, disk, world

LEMMA StandStillPartial ==
    StandStill => UNCHANGED partial \/ \E p \in Procs : evictRemove(p)
BY Zenon DEF StandStill, writerLoop, writerExit, requestCancel, QueryStep, retainLease,
       retainValidated, queryLookup, evictLock, vars, disk

(* Only the thread with the exclusive lock is where a partial is written.  *)
LEMMA SoleWriter ==
    ASSUME LocksHeld, NEW t \in Threads, NEW u \in Threads,
           pc[t] \in Locked, pc[u] \in {"stream", "drain", "finalize"}
    PROVE  u = t
BY DEF LocksHeld, Locked

(* PartialOwned is preserved.                                              *)
LEMMA PartialStep == ASSUME CacheInv, [Next]_vars PROVE PartialOwned'
<1> USE HomeFacts
<1>0. Typed /\ Flags /\ LocksHeld /\ TicketHeld /\ PartialOwned
    BY SMTT(40) DEF CacheInv
<1>1. CASE StandStill /\ UNCHANGED partial
    BY <1>0, <1>1, StandStillFrame, Zenon DEF PartialOwned
<1>2. ASSUME NEW t \in Threads, PartiallessThread(t) PROVE PartialOwned'
    <2>1. \A u \in Threads : pc'[u] \in {"stream", "drain", "finalize"} =>
              pc[u] \in {"stream", "drain", "finalize"}
        BY <1>0, <1>2, Flow, Zenon DEF PartiallessThread, Moves
    <2> QED  BY <1>0, <1>2, <2>1, PartiallessFrame DEF PartialOwned
<1>3. ASSUME NEW t \in Threads, openWriter(t) PROVE PartialOwned'
    <2>1. Moves(t, "open", {"stream", "abort"})
        BY <1>0, <1>3, Flow, ZenonT(40)
    <2>2. \A u \in Threads : pc'[u] \in {"stream", "drain", "finalize"} => u = t
        BY <1>0, <2>1, SoleWriter DEF Moves, Locked
    <2>3. ASSUME pc'[t] = "stream" PROVE partial'[Home[t]].owner = t
        <3>1. partial' = [partial EXCEPT ![Home[t]] = [owner |-> t, closed |-> FALSE]]
            BY <1>0, <1>3, <2>3 DEF openWriter, Typed, Goto
        <3> QED  BY <1>0, <3>1, ZenonT(30) DEF Flags
    <2> QED  BY <2>1, <2>2, <2>3, ZenonT(40) DEF PartialOwned, Moves
<1>4. ASSUME NEW t \in Threads, drainAndClose(t) PROVE PartialOwned'
    <2>1. Moves(t, "drain", {"finalize", "abort"})
        BY <1>0, <1>4, Flow, ZenonT(40)
    <2>2. \A p \in Procs : partial'[p].owner = partial[p].owner
        BY <1>0, <1>4 DEF drainAndClose, Flags
    <2> QED  BY <1>0, <2>1, <2>2, Zenon DEF PartialOwned, Moves
<1>5. ASSUME NEW t \in Threads, finalize(t) PROVE PartialOwned'
    <2>1. Moves(t, "finalize", {"convert", "abort"})
        BY <1>0, <1>5, Flow, ZenonT(40)
    <2>2. \A u \in Threads : pc'[u] \notin {"stream", "drain", "finalize"}
        BY <1>0, <2>1, SoleWriter DEF Moves, Locked
    <2> QED  BY <2>2, ZenonT(40) DEF PartialOwned
<1>6. ASSUME NEW t \in Threads, cleanup(t) PROVE PartialOwned'
    <2>1. Moves(t, "join", {"release"})
        BY <1>0, <1>6, Flow
    <2>2. \A p \in Procs \ {Home[t]} : partial'[p] = partial[p]
        BY <1>0, <1>6, ZenonT(40) DEF cleanup, Flags
    <2>3. \A u \in Threads : pc[u] \in {"stream", "drain", "finalize"} => Home[u] # Home[t]
        BY <1>0, <2>1 DEF TicketHeld, Moves, Reserved, Locked
    <2> QED  BY <1>0, <2>1, <2>2, <2>3, ZenonT(40) DEF PartialOwned, Moves
<1>7. ASSUME NEW p \in Procs, evictRemove(p) PROVE PartialOwned'
    <2>1. \A u \in Threads : pc[u] \notin Locked
        BY <1>0, <1>7, HandleFacts, ZenonT(40) DEF evictRemove, LocksHeld
    <2> QED  BY <1>7, <2>1 DEF evictRemove, control, PartialOwned, Locked
<1>8. ASSUME NEW p \in Procs, crash(p) PROVE PartialOwned'
    BY <1>0, <1>8, Zenon DEF crash, disk, PartialOwned
<1> QED
    BY <1>1, <1>2, <1>3, <1>4, <1>5, <1>6, <1>7, <1>8, StandStillPartial
    DEF Next, ThreadStep, JobStep, TeeStep, PartiallessThread, StandStill

(* Only the end of the download sets complete, and only a crash alive.     *)
LEMMA CompleteFrame ==
    ASSUME [Next]_vars
    PROVE  UNCHANGED complete \/ \E t \in Threads : endDownload(t)
<1>1. ASSUME NEW t \in Threads,
             \/ JobStep(t) \/ memoryLookup(t) \/ memoryServe(t)
             \/ writerLoop(t) \/ writerExit(t) \/ requestCancel(t)
      PROVE  UNCHANGED complete
    BY <1>1, ZenonT(40) DEF JobStep, jobTicket, jobRevalidate, jobRefuse, jobLock, jobRelookup,
       restoreAcquire, restoreCheck, memoryLookup, memoryServe, writerLoop, writerExit,
       requestCancel, tee
<1>2. ASSUME NEW t \in Threads, TeeStep(t)
      PROVE  UNCHANGED complete \/ endDownload(t)
    BY <1>2 DEF TeeStep, beginTicket, beginRefuse, beginLock, openWriter, enqueue,
       teeEnqueueFailed, drainAndClose, finalize, downgradeUnlock, downgradeRelock,
       handoff, abortAndCleanup, cleanup, finishPull, tee
<1>3. ASSUME NEW p \in Procs, QueryStep(p) \/ evictLock(p) \/ evictRemove(p) \/ crash(p)
      PROVE  UNCHANGED complete
    BY <1>3 DEF QueryStep, retainLease, retainValidated, queryLookup, evictLock,
       evictRemove, crash, tee
<1>4. CASE UNCHANGED vars
    BY <1>4 DEF vars, tee
<1> QED  BY <1>1, <1>2, <1>3, <1>4 DEF Next, ThreadStep

LEMMA AliveFrame ==
    ASSUME [Next]_vars
    PROVE  UNCHANGED alive \/ \E p \in Procs : crash(p)
<1>1. ASSUME NEW t \in Threads,
             \/ JobStep(t) \/ memoryLookup(t) \/ memoryServe(t)
             \/ writerLoop(t) \/ writerExit(t) \/ requestCancel(t)
      PROVE  UNCHANGED alive
    BY <1>1, ZenonT(40) DEF JobStep, jobTicket, jobRevalidate, jobRefuse, jobLock, jobRelookup,
       restoreAcquire, restoreCheck, memoryLookup, memoryServe, writerLoop, writerExit,
       requestCancel, world
<1>2. ASSUME NEW t \in Threads, TeeStep(t)
      PROVE  UNCHANGED alive
    BY <1>2 DEF TeeStep, beginTicket, beginRefuse, beginLock, openWriter, enqueue,
       teeEnqueueFailed, endDownload, drainAndClose, finalize, downgradeUnlock,
       downgradeRelock, handoff, abortAndCleanup, cleanup, finishPull, world
<1>3. ASSUME NEW p \in Procs, QueryStep(p) \/ evictLock(p) \/ evictRemove(p)
      PROVE  UNCHANGED alive
    BY <1>3 DEF QueryStep, retainLease, retainValidated, queryLookup, evictLock,
       evictRemove, world
<1>4. CASE UNCHANGED vars
    BY <1>4 DEF vars, world
<1> QED  BY <1>1, <1>2, <1>3, <1>4 DEF Next, ThreadStep

(* The flags keep their types.                                             *)
LEMMA FlagsStep == ASSUME CacheInv, [Next]_vars PROVE Flags'
<1> USE HomeFacts
<1>0. Typed /\ Flags
    BY DEF CacheInv
<1>1. ASSUME NEW t \in Threads, endDownload(t) PROVE complete' \in [Threads -> BOOLEAN]
    BY <1>0, <1>1, ZenonT(40) DEF Flags, endDownload
<1>2. complete' \in [Threads -> BOOLEAN]
    BY <1>0, <1>1, CompleteFrame, ZenonT(40) DEF Flags
<1>3. ASSUME NEW p \in Procs, crash(p) PROVE alive' \in [Procs -> BOOLEAN]
    BY <1>0, <1>3 DEF Flags, crash
<1>4. alive' \in [Procs -> BOOLEAN]
    BY <1>0, <1>3, AliveFrame DEF Flags
<1> DEFINE Partials == [Procs -> [owner : Threads \cup {None}, closed : BOOLEAN]]
<1>5. NoPartial \in [owner : Threads \cup {None}, closed : BOOLEAN]
    BY DEF NoPartial
<1>6. CASE UNCHANGED partial
    BY <1>0, <1>2, <1>4, <1>6 DEF Flags
<1>7. ASSUME NEW t \in Threads, openWriter(t) PROVE partial' \in Partials
    <2>1. [owner |-> t, closed |-> FALSE] \in [owner : Threads \cup {None}, closed : BOOLEAN]
        OBVIOUS
    <2>2. \E r \in [owner : Threads \cup {None}, closed : BOOLEAN] :
              partial' = [partial EXCEPT ![Home[t]] = r]
        BY <1>5, <1>7, <2>1, Zenon DEF openWriter
    <2> QED  BY <1>0, <2>2 DEF Flags
<1>8. ASSUME NEW t \in Threads, drainAndClose(t) PROVE partial' \in Partials
    BY <1>0, <1>8, ZenonT(40) DEF Flags, drainAndClose
<1>9. ASSUME NEW t \in Threads, finalize(t) PROVE partial' \in Partials
    BY <1>0, <1>5, <1>9, ZenonT(40) DEF Flags, finalize
<1>10. ASSUME NEW t \in Threads, cleanup(t) PROVE partial' \in Partials
    BY <1>0, <1>5, <1>10 DEF Flags, cleanup
<1>11. ASSUME NEW p \in Procs, evictRemove(p) PROVE partial' \in Partials
    BY <1>0, <1>5, <1>11, ZenonT(40) DEF Flags, evictRemove
<1>12. ASSUME NEW p \in Procs, crash(p) PROVE UNCHANGED partial
    BY <1>12, ZenonT(40) DEF crash, disk
<1>13. partial' \in Partials \/ UNCHANGED partial
    BY <1>7, <1>8, <1>9, <1>10, <1>11, <1>12, PartiallessFrame, StandStillPartial
   , ZenonT(40) DEF Next, ThreadStep, JobStep, TeeStep, PartiallessThread, StandStill
<1> QED  BY <1>2, <1>4, <1>6, <1>13 DEF Flags

(* CountsFull is preserved: the terminal is complete only at the last      *)
(* message, and nothing is enqueued after it.                              *)
LEMMA CountsStep == ASSUME CacheInv, [Next]_vars PROVE CountsFull'
<1> USE HomeFacts
<1>0. Typed /\ Flags /\ CountsFull
    BY SMTT(40) DEF CacheInv
<1>1. CASE StandStill
    BY <1>0, <1>1, StandStillFrame, ZenonT(40) DEF CountsFull
<1>2. ASSUME NEW t \in Threads,
             \/ JobStep(t) \/ memoryLookup(t) \/ memoryServe(t) \/ beginTicket(t)
             \/ beginRefuse(t) \/ beginLock(t) \/ openWriter(t) \/ teeEnqueueFailed(t)
             \/ finalize(t) \/ downgradeUnlock(t) \/ downgradeRelock(t) \/ handoff(t)
             \/ abortAndCleanup(t) \/ cleanup(t) \/ finishPull(t)
      PROVE  CountsFull'
    <2>1. UNCHANGED <<enq, complete>>
        BY <1>2, Zenon DEF JobStep, jobTicket, jobRevalidate, jobRefuse, jobLock, jobRelookup,
           restoreAcquire, restoreCheck, memoryLookup, memoryServe, beginTicket,
           beginRefuse, beginLock, openWriter, teeEnqueueFailed, finalize,
           downgradeUnlock, downgradeRelock, handoff, abortAndCleanup, cleanup,
           finishPull, tee
    <2>2. \A u \in Threads : pc'[u] \in {"drain", "finalize"} => pc'[u] = pc[u]
        BY <1>0, <1>2, Flow, ZenonT(40) DEF JobStep, Moves
    <2> QED  BY <1>0, <2>1, <2>2 DEF CountsFull
<1>3. ASSUME NEW t \in Threads, enqueue(t) PROVE CountsFull'
    <2>1. Moves(t, "stream", {"stream"})
        BY <1>0, <1>3, Flow
    <2>2. complete' = complete /\ \A u \in Threads \ {t} : enq'[u] = enq[u]
        BY <1>0, <1>3, ZenonT(40) DEF enqueue, Typed
    <2> QED  BY <1>0, <2>1, <2>2, ZenonT(40) DEF CountsFull, Moves
<1>4. ASSUME NEW t \in Threads, endDownload(t) PROVE CountsFull'
    <2>1. Moves(t, "stream", {"drain"})
        BY <1>0, <1>4, Flow
    <2>2. enq' = enq /\ \A u \in Threads \ {t} : complete'[u] = complete[u]
        BY <1>0, <1>4, ZenonT(40) DEF endDownload, Flags
    <2>3. complete'[t] => enq[t] = Messages
        BY <1>0, <1>4, ZenonT(40) DEF endDownload, Flags
    <2> QED  BY <1>0, <2>1, <2>2, <2>3, ZenonT(40) DEF CountsFull, Moves
<1>5. ASSUME NEW t \in Threads, drainAndClose(t) PROVE CountsFull'
    <2>1. Moves(t, "drain", {"finalize", "abort"})
        BY <1>0, <1>5, Flow
    <2>2. enq' = enq /\ complete' = complete
        BY <1>5 DEF drainAndClose, tee
    <2>3. pc'[t] = "finalize" => complete[t]
        BY <1>0, <1>5 DEF drainAndClose, Goto, Typed
    <2> QED  BY <1>0, <2>1, <2>2, <2>3, ZenonT(40) DEF CountsFull, Moves
<1>6. ASSUME NEW p \in Procs, crash(p) PROVE CountsFull'
    BY <1>0, <1>6, Zenon DEF crash, CountsFull
<1> QED
    BY <1>1, <1>2, <1>3, <1>4, <1>5, <1>6
    DEF Next, ThreadStep, TeeStep, StandStill

(* The steps that touch neither file, lease counts nor memory entries, and *)
(* report nothing as served.                                               *)
Quiet ==
    /\ UNCHANGED <<file, refs, entry, alive>>
    /\ \A t \in Threads : outcome'[t] \in {"served", "finalized"} => outcome'[t] = outcome[t]

QuietStep ==
    \/ \E t \in Threads :
          \/ jobTicket(t) \/ jobRevalidate(t) \/ jobRefuse(t) \/ jobLock(t)
          \/ jobRelookup(t) \/ restoreAcquire(t) \/ beginTicket(t) \/ beginRefuse(t)
          \/ openWriter(t) \/ enqueue(t) \/ teeEnqueueFailed(t) \/ endDownload(t)
          \/ drainAndClose(t) \/ downgradeUnlock(t) \/ downgradeRelock(t)
          \/ abortAndCleanup(t) \/ cleanup(t)
          \/ writerLoop(t) \/ writerExit(t) \/ requestCancel(t)
    \/ \E p \in Procs : queryLookup(p) \/ evictLock(p)
    \/ UNCHANGED vars

LEMMA QuietFrame == ASSUME Typed, QuietStep PROVE Quiet
<1>1. UNCHANGED <<file, refs, entry, alive>>
    BY ZenonT(30) DEF QuietStep, jobTicket, jobRevalidate, jobRefuse, jobLock, jobRelookup,
       restoreAcquire, beginTicket, beginRefuse, openWriter, enqueue, teeEnqueueFailed,
       endDownload, drainAndClose, downgradeUnlock, downgradeRelock, abortAndCleanup,
       cleanup, writerLoop, writerExit, requestCancel, queryLookup, evictLock, vars,
       disk, registry, world
<1>2. ASSUME NEW t \in Threads,
             \/ jobTicket(t) \/ jobRevalidate(t) \/ jobRefuse(t) \/ jobLock(t)
             \/ restoreAcquire(t) \/ beginTicket(t) \/ beginRefuse(t) \/ openWriter(t)
             \/ teeEnqueueFailed(t) \/ drainAndClose(t) \/ downgradeRelock(t)
      PROVE  \A u \in Threads :
                 outcome'[u] \in {"served", "finalized"} => outcome'[u] = outcome[u]
    <2>1. \E o \in {"none", "gaveUp", "concurrent", "inUse", "failed", "aborted"} :
              outcome' = [outcome EXCEPT ![t] = o] \/ outcome' = outcome
        BY <1>2 DEF jobTicket, jobRevalidate, jobRefuse, jobLock, restoreAcquire,
           beginTicket, beginRefuse, openWriter, teeEnqueueFailed, drainAndClose,
           downgradeRelock, Result
    <2> QED  BY <2>1 DEF Typed
<1>3. CASE \/ \E t \in Threads :
                 \/ jobRelookup(t) \/ enqueue(t) \/ endDownload(t) \/ downgradeUnlock(t)
                 \/ abortAndCleanup(t) \/ cleanup(t) \/ writerLoop(t) \/ writerExit(t)
                 \/ requestCancel(t)
           \/ \E p \in Procs : queryLookup(p) \/ evictLock(p)
           \/ UNCHANGED vars
    <2>1. UNCHANGED outcome
        BY <1>3, ZenonT(40) DEF jobRelookup, enqueue, endDownload, downgradeUnlock, abortAndCleanup,
           cleanup, writerLoop, writerExit, requestCancel, queryLookup, evictLock, vars,
           control
    <2> QED  BY <1>1, <2>1 DEF Quiet
<1> QED  BY <1>1, <1>2, <1>3, Zenon DEF Quiet, QuietStep

(* Whoever has the exclusive lock knows that nobody has pinned the file.   *)
LEMMA ExclusiveUnpinned ==
    ASSUME Typed, LeaseInv, excl # None
    PROVE  \A p \in Procs : refs[p] = 0
BY DEF Typed, LeaseInv

(* What a step does to the file, the leases and the promises made.         *)
Publishes == /\ \A p \in Procs : refs[p] = 0
             /\ file' = [gen |-> file.gen + 1, content |-> "whole"]
             /\ UNCHANGED <<refs, alive>>
Removes == /\ \A p \in Procs : refs[p] = 0
           /\ file' = [file EXCEPT !.content = "absent"]
           /\ UNCHANGED <<refs, alive>>
Pins(p) == /\ Valid /\ refs' = [refs EXCEPT ![p] = @ + 1]
           /\ UNCHANGED <<file, alive>>
Rests == UNCHANGED <<file, refs, alive>>
Promises ==
    /\ \A t \in Threads : outcome'[t] \in {"served", "finalized"} =>
           outcome'[t] = outcome[t] \/ refs'[Home[t]] > 0
    /\ \A p \in Procs : entry'[p] = "bound" => entry[p] = "bound" \/ refs'[p] > 0
Dies(p) == /\ refs' = [refs EXCEPT ![p] = 0] /\ entry' = [entry EXCEPT ![p] = "none"]
           /\ alive' = [alive EXCEPT ![p] = FALSE] /\ UNCHANGED <<file, outcome>>

StoreStep == \/ Promises /\ (Publishes \/ Removes \/ Rests \/ \E p \in Procs : Pins(p))
             \/ \E p \in Procs : Dies(p)

LEMMA StoreSteps == ASSUME CacheInv, [Next]_vars PROVE StoreStep
<1> USE HomeFacts
<1>0. /\ Typed /\ Flags /\ LeaseInv /\ LocksHeld /\ CountsFull /\ PinsTruthful
      /\ PublishedWhole
    BY DEF CacheInv
<1>1. CASE QuietStep
    BY <1>0, <1>1, QuietFrame, Zenon DEF Quiet, StoreStep, Promises, Rests
<1>2. ASSUME NEW t \in Threads, restoreCheck(t) PROVE StoreStep
    <2>1. CASE Valid
        <3>1. Pins(Home[t])
            BY <1>2, <2>1, ZenonT(40) DEF restoreCheck, Pins, insertLeaseLocked, disk, world
        <3>2. Promises
            BY <1>0, <1>2, <2>1 DEF restoreCheck, Promises, Result, Typed
        <3> QED  BY <3>1, <3>2 DEF StoreStep
    <2>2. CASE ~Valid
        BY <1>0, <1>2, <2>2, ZenonT(40) DEF restoreCheck, StoreStep, Promises, Rests, disk, world
    <2> QED  BY <2>1, <2>2
<1>3. ASSUME NEW t \in Threads, memoryLookup(t) PROVE StoreStep
    BY <1>0, <1>3, Zenon DEF memoryLookup, StoreStep, Promises, Rests, disk, world, Typed
<1>4. ASSUME NEW t \in Threads, memoryServe(t) PROVE StoreStep
    <2>1. CASE Valid /\ entry[Home[t]] = "bound" /\ t \in shared
        <3>1. Pins(Home[t]) /\ UNCHANGED entry
            BY <1>4, <2>1, ZenonT(40) DEF memoryServe, Pins, insertLeaseLocked, disk, world
        <3>2. refs'[Home[t]] > 0
            BY <1>0, <3>1, SMTT(30) DEF Pins, Typed
        <3>3. \A u \in Threads \ {t} : outcome'[u] = outcome[u]
            BY <1>0, <1>4, <2>1 DEF memoryServe, Result, Typed
        <3> QED  BY <3>1, <3>2, <3>3, Zenon DEF StoreStep, Promises
    <2>2. CASE Valid /\ entry[Home[t]] = "bound" /\ t \notin shared
        <3>1. Rests /\ UNCHANGED entry
            BY <1>4, <2>2, ZenonT(40) DEF memoryServe, Rests, disk, world
        <3>2. refs'[Home[t]] > 0
            BY <1>0, <2>2, <3>1, ZenonT(40) DEF Rests, PinsTruthful
        <3>3. \A u \in Threads \ {t} : outcome'[u] = outcome[u]
            BY <1>0, <1>4, <2>2, ZenonT(40) DEF memoryServe, Result, Typed
        <3> QED  BY <3>1, <3>2, <3>3, Zenon DEF StoreStep, Promises
    <2>3. CASE ~(Valid /\ entry[Home[t]] = "bound")
        <3>1. Rests /\ UNCHANGED outcome /\ entry' = [entry EXCEPT ![Home[t]] = "none"]
            BY <1>4, <2>3, Zenon DEF memoryServe, Rests, disk, world
        <3> QED  BY <1>0, <3>1, Zenon DEF StoreStep, Promises, Typed
    <2> QED  BY <2>1, <2>2, <2>3
<1>5. ASSUME NEW t \in Threads, beginLock(t) PROVE StoreStep
    <2>1. UNCHANGED <<refs, entry, alive>>
        BY <1>5 DEF beginLock, registry, world
    <2>2. \A u \in Threads : outcome'[u] \in {"served", "finalized"} => outcome'[u] = outcome[u]
        BY <1>0, <1>5, Zenon DEF beginLock, Result, Typed
    <2>3. Promises
        BY <2>1, <2>2 DEF Promises
    <2>4. \/ UNCHANGED file
          \/ ~Valid /\ file' = [file EXCEPT !.content = "absent"]
        BY <1>5 DEF beginLock
    <2>5. ~Valid => \A p \in Procs : refs[p] = 0
        BY <1>0 DEF PinsTruthful, Typed
    <2> QED  BY <2>1, <2>3, <2>4, <2>5 DEF StoreStep, Rests, Removes
<1>6. ASSUME NEW t \in Threads, finalize(t) PROVE StoreStep
    <2>1. UNCHANGED <<refs, entry, alive>>
        BY <1>6, Zenon DEF finalize, registry, world
    <2>2. \A u \in Threads : outcome'[u] \in {"served", "finalized"} => outcome'[u] = outcome[u]
        BY <1>0, <1>6, Zenon DEF finalize, Result, Typed
    <2>3. Promises
        BY <2>1, <2>2 DEF Promises
    <2>4. excl # None /\ enq[t] = Messages
        BY <1>0, <1>6, Zenon DEF finalize, LocksHeld, Locked, CountsFull
    <2>5. CASE UNCHANGED file
        BY <2>1, <2>3, <2>5, ZenonT(40) DEF StoreStep, Rests
    <2>6. CASE ~UNCHANGED file
        <3>1. file' = [gen |-> file.gen + 1, content |-> "whole"]
            BY <1>6, <2>4, <2>6, ZenonT(40) DEF finalize, CountsMatch
        <3> QED  BY <1>0, <2>1, <2>3, <2>4, <3>1, ExclusiveUnpinned, Zenon DEF StoreStep, Publishes
    <2> QED  BY <2>5, <2>6
<1>7. ASSUME NEW t \in Threads, handoff(t) PROVE StoreStep
    <2>1. \A u \in Threads \ {t} : outcome'[u] = outcome[u]
        BY <1>0, <1>7 DEF handoff, Result, Typed
    <2>2. CASE Valid
        <3>1. Pins(Home[t]) /\ UNCHANGED entry
            BY <1>7, <2>2, Zenon DEF handoff, Pins, insertLeaseLocked, disk, world
        <3>2. refs'[Home[t]] > 0
            BY <1>0, <3>1 DEF Pins, Typed
        <3> QED  BY <2>1, <3>1, <3>2, Zenon DEF StoreStep, Promises
    <2>3. CASE ~Valid
        <3>1. Rests /\ UNCHANGED entry /\ outcome'[t] = "failed"
            BY <1>0, <1>7, <2>3 DEF handoff, Rests, Result, Typed, disk, world
        <3> QED  BY <2>1, <3>1, ZenonT(40) DEF StoreStep, Promises
    <2> QED  BY <2>2, <2>3
<1>8. ASSUME NEW t \in Threads, finishPull(t) PROVE StoreStep
    <2>1. Rests /\ UNCHANGED outcome
        BY <1>8, ZenonT(40) DEF finishPull, Rests, disk, world
    <2>2. \A p \in Procs : entry'[p] = "bound" =>
              \/ entry[p] = "bound"
              \/ p = Home[t] /\ outcome[t] = "finalized" /\ alive[p]
        BY <1>0, <1>8, Zenon DEF finishPull, Typed
    <2> QED  BY <1>0, <2>1, <2>2, Zenon DEF StoreStep, Promises, Rests, PinsTruthful, ServedIsPinned
<1>9. ASSUME NEW p \in Procs, retainLease(p) PROVE StoreStep
    <2>1. UNCHANGED <<file, entry, outcome, alive>>
        BY <1>9, Zenon DEF retainLease, disk, world, control
    <2>2. \/ UNCHANGED refs
          \/ refs[p] > 0 /\ refs' = [refs EXCEPT ![p] = @ + 1]
        BY <1>9, ZenonT(40) DEF retainLease
    <2> QED  BY <1>0, <2>1, <2>2, Zenon DEF StoreStep, Promises, Rests, Pins, PinsTruthful
<1>10. ASSUME NEW p \in Procs, retainValidated(p) PROVE StoreStep
    <2>1. UNCHANGED <<file, entry, outcome, alive>>
        BY <1>10, ZenonT(40) DEF retainValidated, disk, world, control
    <2>2. \/ UNCHANGED refs
          \/ Valid /\ refs' = [refs EXCEPT ![p] = @ + 1]
        BY <1>10, Zenon DEF retainValidated, insertLeaseLocked
    <2> QED  BY <2>1, <2>2, ZenonT(40) DEF StoreStep, Promises, Rests, Pins
<1>11. ASSUME NEW p \in Procs, evictRemove(p) PROVE StoreStep
    <2>1. UNCHANGED <<refs, entry, outcome, alive>>
        BY <1>11 DEF evictRemove, registry, control
    <2>2. \A q \in Procs : refs[q] = 0
        BY <1>0, <1>11, ExclusiveUnpinned, HandleFacts DEF evictRemove, LocksHeld
    <2>3. UNCHANGED file \/ file' = [file EXCEPT !.content = "absent"]
        BY <1>11, ZenonT(40) DEF evictRemove
    <2> QED  BY <2>1, <2>2, <2>3 DEF StoreStep, Promises, Rests, Removes
<1>12. ASSUME NEW p \in Procs, crash(p) PROVE StoreStep
    BY <1>12, Zenon DEF crash, StoreStep, Dies, disk
<1> QED
    BY <1>1, <1>2, <1>3, <1>4, <1>5, <1>6, <1>7, <1>8, <1>9, <1>10, <1>11, <1>12,
       ZenonT(40)
    DEF Next, ThreadStep, JobStep, TeeStep, QueryStep, QuietStep

(* PinsTruthful and PublishedWhole are preserved.                          *)
LEMMA PinsStep == ASSUME CacheInv, [Next]_vars PROVE PinsTruthful' /\ PublishedWhole'
<1> USE HomeFacts
<1>0. Typed /\ Flags /\ PinsTruthful /\ PublishedWhole
    BY DEF CacheInv
<1> USE DEF PinsTruthful, ServedIsPinned, PublishedWhole, Valid
<1>1. CASE Promises /\ Rests
    BY <1>0, <1>1, ZenonT(40) DEF Promises, Rests
<1>2. CASE Promises /\ Publishes
    BY <1>0, <1>2, Zenon DEF Promises, Publishes, Typed
<1>3. CASE Promises /\ Removes
    BY <1>0, <1>3 DEF Promises, Removes, Typed
<1>4. ASSUME NEW p \in Procs, Promises, Pins(p)
      PROVE  PinsTruthful' /\ PublishedWhole'
    <2>1. \A q \in Procs : refs[q] > 0 => refs'[q] > 0
        BY <1>0, <1>4, SMTT(30) DEF Pins, Typed
    <2> QED  BY <1>0, <1>4, <2>1, ZenonT(40) DEF Promises, Pins
<1>5. ASSUME NEW p \in Procs, Dies(p) PROVE PinsTruthful' /\ PublishedWhole'
    <2>1. /\ refs'[p] = 0 /\ entry'[p] = "none" /\ ~alive'[p]
          /\ \A q \in Procs \ {p} : refs'[q] = refs[q] /\ entry'[q] = entry[q]
                                    /\ alive'[q] = alive[q]
        BY <1>0, <1>5 DEF Dies, Typed, Flags
    <2> QED  BY <1>0, <1>5, <2>1, SMTT(30) DEF Dies
<1> QED  BY <1>1, <1>2, <1>3, <1>4, <1>5, StoreSteps, Zenon DEF StoreStep

-----------------------------------------------------------------------------
(* The conjunction of the lock, ticket, partial, count and pin facts above *)
(* is an invariant: no step of a job, a pull, a query, an evictor or a     *)
(* dying process breaks it.                                                *)
THEOREM CacheInvariant == Spec => []CacheInv
<1>1. ASSUME CacheInv, [Next]_vars PROVE CacheInv'
    <2>1. Typed' /\ Flags'
        BY <1>1, TypedStep, FlagsStep DEF CacheInv
    <2>2. LeaseInv' /\ LocksHeld' /\ TicketHeld'
        BY <1>1, LeaseStep, LocksStep, TicketStep
    <2>3. PartialOwned' /\ CountsFull'
        BY <1>1, PartialStep, CountsStep
    <2>4. PinsTruthful' /\ PublishedWhole'
        BY <1>1, PinsStep
    <2> QED  BY <2>1, <2>2, <2>3, <2>4 DEF CacheInv
<1> QED  BY <1>1, InitInv, PTL DEF Spec

(* The sidecar lock of file_lock.cpp is exclusive or shared, and a process *)
(* holds one shared lock for all the references of its lease registry,     *)
(* exactly while it counts any.                                            *)
THEOREM LeaseInvHolds == Spec => []LeaseInv
<1>1. CacheInv => LeaseInv
    BY Zenon DEF CacheInv
<1> QED  BY <1>1, CacheInvariant, PTL

(* While CacheTee writes its partial, the partial is its own and it has    *)
(* the exclusive lock: no second materializer and no evictor touches it.   *)
THEOREM PartialIntactHolds == Spec => []PartialIntact
<1>1. CacheInv => PartialIntact
    BY DEF CacheInv, PartialIntact, PartialOwned, LocksHeld, Locked
<1> QED  BY <1>1, CacheInvariant, PTL

(* SessionFileCache::finalize never publishes a prefix of the session.     *)
THEOREM PublishedWholeHolds == Spec => []PublishedWhole
<1>1. CacheInv => PublishedWhole
    BY DEF CacheInv
<1> QED  BY <1>1, CacheInvariant, PTL

(* A SessionCache entry stored with its identity has a readable file that  *)
(* its process pins.                                                       *)
THEOREM BoundEntryPinnedHolds == Spec => []BoundEntryPinned
<1>1. CacheInv => BoundEntryPinned
    BY DEF CacheInv, BoundEntryPinned, PinsTruthful
<1> QED  BY <1>1, CacheInvariant, PTL

(* What serveFromMemoryCache served, or finishCacheTee reported finalized, *)
(* stays pinned while the process lives.                                   *)
THEOREM ServedIsPinnedHolds == Spec => []ServedIsPinned
<1>1. CacheInv => ServedIsPinned
    BY DEF CacheInv, PinsTruthful
<1> QED  BY <1>1, CacheInvariant, PTL

(* The cache implements PinnedStore: whatever threads, evictors and a      *)
(* crash do, a pinned file is not replaced, deleted or evicted, and only a *)
(* readable file is pinned.                                                *)
THEOREM CacheRefinesStore == Spec => PinnedFilesStay
<1>1. Init => Store!Init
    BY DEF Init, Store!Init
<1>2. ASSUME CacheInv, [Next]_vars PROVE [Store!Next]_<<file, refs>>
    <2>1. CASE Promises /\ Publishes
        BY <2>1 DEF Publishes, Store!Next, Store!Publish, Store!Unpinned
    <2>2. CASE Promises /\ Removes
        BY <2>2 DEF Removes, Store!Next, Store!Remove, Store!Unpinned
    <2>3. CASE Promises /\ Rests
        BY <2>3 DEF Rests
    <2>4. ASSUME NEW p \in Procs, Pins(p) PROVE Store!Next
        BY <2>4, Zenon DEF Pins, Valid, Store!Next, Store!Pin, Store!Readable
    <2>5. ASSUME NEW p \in Procs, Dies(p) PROVE Store!Next
        BY <2>5, Zenon DEF Dies, Store!Next, Store!Drop
    <2> QED  BY <1>2, <2>1, <2>2, <2>3, <2>4, <2>5, StoreSteps, Zenon DEF StoreStep
<1> QED  BY <1>1, <1>2, CacheInvariant, PTL DEF Spec, PinnedFilesStay, Store!Spec
=============================================================================
