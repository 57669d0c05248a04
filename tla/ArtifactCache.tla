---------------------------- MODULE ArtifactCache ----------------------------
(***************************************************************************)
(* One identity of the plugin's on-disk session cache, shared by several   *)
(* processes: the sidecar lock (core/file_lock.cpp), the files             *)
(* (session_file_cache.cpp), each process's materialization ticket, lease  *)
(* registry and cache tees (import_runtime.cpp), the threads that          *)
(* materialize (the import job of descriptor_import_provider.cpp and the   *)
(* interactive pull of fetch_worker.cpp), the query that pins what it      *)
(* reports, the evictor, and a process that dies.                          *)
(*                                                                         *)
(* A download is Messages messages, of which Known belong to topics of the *)
(* session; the others are neither counted nor written.  Waits are polls   *)
(* with a deadline, so a waiting thread may give up at any time.  Every    *)
(* tee, of this or another identity, runs cleanup: its steps are those of  *)
(* the evictor of its process.  The lock of core/file_lock.cpp excludes    *)
(* handles, not processes: two handles of one process contend too.         *)
(***************************************************************************)
EXTENDS Naturals, FiniteSets

CONSTANTS Procs,
          Jobs,          \* threads that run an import job
          Pulls,         \* threads that run an interactive pull
          Home,          \* the process of each thread
          Scenarios,     \* sets of threads that run together
          Messages,      \* messages of the session
          Known,         \* those of topics in the session's dictionary
          QueueCap,      \* max_queued_messages_
          LeaseRetries,  \* lease_retry_attempts_
          MaxQueries,    \* queries each process makes
          Cancelled,     \* threads somebody may cancel
          Evicting,      \* processes whose cleanup meets this identity
          Mortal,        \* processes that may die
          None

Threads == Jobs \cup Pulls

ASSUME CacheConstants ==
    /\ Home \in [Threads -> Procs] /\ Jobs \cap Pulls = {}
    /\ Scenarios \subseteq SUBSET Threads
    /\ {Messages, LeaseRetries} \subseteq Nat
    /\ MaxQueries \in [Procs -> Nat] /\ QueueCap \in Nat \ {0}
    /\ Known \subseteq 1..Messages /\ Mortal \subseteq Procs
    /\ None \notin Threads \cup Procs
    /\ \A p \in Procs, role \in {"registry", "query", "evictor"} :
          <<p, role>> \notin Threads \cup {None}

VARIABLES file,      \* generation published last, and what is at <hex>.mcap
          partial,   \* each process's <hex>.mcap.partial.<pid>
          excl,      \* the handle with the exclusive sidecar lock, or None
          shared,    \* the handles with a shared one
          refs,      \* references of each process's retained lease
          ticket,    \* holder of the identity in active_identities_, or None
          entry,     \* the session's SessionCache entry
          pc, waited, tries, outcome,   \* of each thread
          enq, taken,                   \* messages enqueued and written
          writer, failed, cancel, complete,  \* of each thread's tee
          query, queries, answer,       \* of each process's main thread
          evict, alive

disk == <<file, partial>>
locks == <<excl, shared>>
registry == <<refs, ticket, entry>>
control == <<pc, waited, tries, outcome>>
tee == <<enq, taken, writer, failed, cancel, complete>>
asking == <<query, queries, answer>>
world == <<evict, alive>>
vars == <<disk, locks, registry, control, tee, asking, world>>

(* The handles of a process that no materializing thread owns.             *)
Registry(p) == <<p, "registry">>
Query(p) == <<p, "query">>
Evictor(p) == <<p, "evictor">>
ThreadsOf(p) == {t \in Threads : Home[t] = p}
HandlesOf(p) == ThreadsOf(p) \cup {Registry(p), Query(p), Evictor(p)}

NoPartial == [owner |-> None, closed |-> FALSE]

(* validateMcap without expected counts: a closed prefix passes.           *)
Valid == file.content \in {"whole", "short"}

KnownIn(n) == Cardinality(Known \cap 1..n)

Init ==
    /\ file \in [gen : {0}, content : {"absent", "whole", "damaged"}]
    /\ partial = [p \in Procs |-> NoPartial]
    /\ excl = None /\ shared = {}
    /\ refs = [p \in Procs |-> 0]
    /\ ticket = [p \in Procs |-> None]
    /\ entry = [p \in Procs |-> "none"]
    /\ \E running \in Scenarios :
          pc = [t \in Threads |-> IF t \notin running THEN "ended"
                                  ELSE IF t \in Jobs THEN "ticket"
                                                     ELSE "memory"]
    /\ waited = [t \in Threads |-> FALSE]
    /\ tries = [t \in Threads |-> 0]
    /\ outcome = [t \in Threads |-> "none"]
    /\ enq = [t \in Threads |-> 0] /\ taken = [t \in Threads |-> 0]
    /\ writer = [t \in Threads |-> "none"]
    /\ failed = [t \in Threads |-> FALSE]
    /\ cancel = [t \in Threads |-> "no"]
    /\ complete = [t \in Threads |-> FALSE]
    /\ query = [p \in Procs |-> "idle"]
    /\ queries = [p \in Procs |-> 0]
    /\ answer = [p \in Procs |-> "none"]
    /\ evict = [p \in Procs |-> "idle"]
    /\ alive = [p \in Procs |-> TRUE]

Goto(t, label) == pc' = [pc EXCEPT ![t] = label]
Result(t, o) == outcome' = [outcome EXCEPT ![t] = o]

-----------------------------------------------------------------------------
(* The sidecar lock: both modes are tried without blocking.                *)

Contended == excl # None \/ shared # {}

(* Mutant of tryExclusive: shared holders do not block it.                 *)
tryExclusiveAnyway(h) == excl = None /\ excl' = h /\ UNCHANGED shared

tryExclusive(h) == ~Contended /\ excl' = h /\ UNCHANGED shared

tryShared(h) == excl = None /\ shared' = shared \cup {h} /\ UNCHANGED excl

release(h) == /\ excl' = IF excl = h THEN None ELSE excl
              /\ shared' = shared \ {h}

-----------------------------------------------------------------------------
(* The ticket and the lease registry of a process.                         *)

tryBeginMaterialize(t) ==
    /\ ticket[Home[t]] = None
    /\ ticket' = [ticket EXCEPT ![Home[t]] = t]

endMaterialize(t) ==
    ticket' = [ticket EXCEPT ![Home[t]] = IF @ = t THEN None ELSE @]

(* Handle h, which holds a shared lock, becomes the retained lease of p; a *)
(* process that retains one already counts it and lets h go.               *)
insertLeaseLocked(p, h) ==
    /\ refs' = [refs EXCEPT ![p] = @ + 1]
    /\ shared' = (shared \ {h}) \cup {Registry(p)}
    /\ UNCHANGED excl

-----------------------------------------------------------------------------
(* JobState::runToTerminal up to the pull.                                 *)

jobTicket(t) ==
    /\ t \in Jobs /\ pc[t] = "ticket"
    /\ \/ /\ tryBeginMaterialize(t)
          /\ Goto(t, IF waited[t] THEN "revalidate" ELSE "refuse")
          /\ UNCHANGED <<waited, outcome>>
       \/ /\ ticket[Home[t]] # None /\ ~waited[t]
          /\ waited' = [waited EXCEPT ![t] = TRUE]
          /\ UNCHANGED <<ticket, pc, outcome>>
       \/ /\ waited[t] \/ cancel[t] # "no"
          /\ Goto(t, "ended") /\ Result(t, "gaveUp")
          /\ UNCHANGED <<ticket, waited>>
    /\ UNCHANGED <<disk, locks, refs, entry, tries, tee, asking, world>>

(* The materialization it waited for has ended: is there a file now?       *)
jobRevalidate(t) ==
    /\ pc[t] = "revalidate"
    /\ IF Valid
       THEN endMaterialize(t) /\ Goto(t, "ended") /\ Result(t, "concurrent")
       ELSE Goto(t, "refuse") /\ UNCHANGED <<ticket, outcome>>
    /\ UNCHANGED <<disk, locks, refs, entry, waited, tries, tee, asking, world>>

jobRefuse(t) ==
    /\ pc[t] = "refuse"
    /\ IF refs[Home[t]] > 0
       THEN endMaterialize(t) /\ Goto(t, "ended") /\ Result(t, "inUse")
       ELSE Goto(t, "oslock") /\ UNCHANGED <<ticket, outcome>>
    /\ waited' = [waited EXCEPT ![t] = FALSE]
    /\ UNCHANGED <<disk, locks, refs, entry, tries, tee, asking, world>>

(* The bounded wait for the lock.  An error that is not contention leaves  *)
(* the attempt to the tee.                                                 *)
jobLock(t) ==
    /\ pc[t] = "oslock"
    /\ \/ /\ tryExclusive(t)
          /\ Goto(t, IF waited[t] THEN "relookup" ELSE "begin")
          /\ UNCHANGED <<ticket, waited, outcome>>
       \/ /\ Goto(t, "begin") /\ UNCHANGED <<locks, ticket, waited, outcome>>
       \/ /\ Contended
          /\ IF refs[Home[t]] > 0
             THEN /\ endMaterialize(t) /\ Goto(t, "ended") /\ Result(t, "inUse")
                  /\ UNCHANGED waited
             ELSE \/ /\ waited' = [waited EXCEPT ![t] = TRUE]
                     /\ UNCHANGED <<ticket, pc, outcome>>
                  \/ /\ endMaterialize(t) /\ Goto(t, "ended")
                     /\ Result(t, "gaveUp") /\ UNCHANGED waited
          /\ UNCHANGED locks
    /\ UNCHANGED <<disk, refs, entry, tries, tee, asking, world>>

(* Another process materialized meanwhile: let the lock go and pin its     *)
(* file before the ticket goes.                                            *)
jobRelookup(t) ==
    /\ pc[t] = "relookup"
    /\ IF Valid
       THEN release(t) /\ Goto(t, "restore")
       ELSE Goto(t, "begin") /\ UNCHANGED locks
    /\ UNCHANGED <<disk, registry, waited, tries, outcome, tee, asking, world>>

(* restoreLease, one attempt at a time: lease, then validate under it.     *)
restoreAcquire(t) ==
    /\ pc[t] = "restore"
    /\ \/ /\ tries[t] <= LeaseRetries
          /\ \/ tryShared(t) /\ Goto(t, "restoreCheck") /\ UNCHANGED tries
             \/ /\ excl # None
                /\ tries' = [tries EXCEPT ![t] = @ + 1]
                /\ UNCHANGED <<locks, pc>>
          /\ UNCHANGED <<ticket, outcome>>
       \/ /\ tries[t] > LeaseRetries
          /\ endMaterialize(t) /\ Goto(t, "ended") /\ Result(t, "concurrent")
          /\ UNCHANGED <<locks, tries>>
    /\ UNCHANGED <<disk, refs, entry, waited, tee, asking, world>>

restoreCheck(t) ==
    /\ pc[t] = "restoreCheck"
    /\ IF Valid
       THEN /\ insertLeaseLocked(Home[t], t) /\ UNCHANGED tries
            /\ endMaterialize(t) /\ Goto(t, "ended") /\ Result(t, "concurrent")
       ELSE /\ release(t) /\ tries' = [tries EXCEPT ![t] = @ + 1]
            /\ Goto(t, "restore") /\ UNCHANGED <<refs, ticket, outcome>>
    /\ UNCHANGED <<disk, entry, waited, tee, asking, world>>

-----------------------------------------------------------------------------
(* serveFromMemoryCache: the interactive pull's memory hit.                *)

(* lookup in the SessionCache, where an entry whose dataset the host no    *)
(* longer has is evicted; then the read lease, if it can be had.           *)
memoryLookup(t) ==
    LET p == Home[t] IN
    /\ t \in Pulls /\ pc[t] = "memory"
    /\ \/ /\ Goto(t, "begin")
          /\ entry' = [entry EXCEPT ![p] = "none"]
          /\ UNCHANGED locks
       \/ /\ entry[p] # "none"
          /\ tryShared(t) \/ (excl # None /\ UNCHANGED locks)
          /\ Goto(t, "memoryCheck") /\ UNCHANGED entry
    /\ UNCHANGED <<disk, refs, ticket, waited, tries, outcome, tee, asking,
                   world>>

(* Mutant of memoryServe: the lease of the hit ends with the call and the  *)
(* identity of the entry is not compared.                                  *)
memoryServeUnbound(t) ==
    /\ pc[t] = "memoryCheck"
    /\ IF Valid
       THEN /\ Goto(t, "ended") /\ Result(t, "served")
            /\ release(t) /\ UNCHANGED <<refs, entry>>
       ELSE /\ release(t) /\ Goto(t, "begin")
            /\ entry' = [entry EXCEPT ![Home[t]] = "none"]
            /\ UNCHANGED <<refs, outcome>>
    /\ UNCHANGED <<disk, ticket, waited, tries, tee, asking, world>>

(* A valid file of exactly this identity is served and pinned, if the      *)
(* lease was had; otherwise the entry goes and the pull downloads.         *)
memoryServe(t) ==
    LET p == Home[t] IN
    /\ pc[t] = "memoryCheck"
    /\ IF Valid /\ entry[p] = "bound"
       THEN /\ Goto(t, "ended") /\ Result(t, "served")
            /\ IF t \in shared THEN insertLeaseLocked(p, t)
                               ELSE UNCHANGED <<refs, locks>>
            /\ UNCHANGED entry
       ELSE /\ release(t) /\ Goto(t, "begin")
            /\ entry' = [entry EXCEPT ![p] = "none"]
            /\ UNCHANGED <<refs, outcome>>
    /\ UNCHANGED <<disk, ticket, waited, tries, tee, asking, world>>

-----------------------------------------------------------------------------
(* CacheTee.  A failed begin keeps what it acquired until the abort.       *)

beginTicket(t) ==
    /\ pc[t] = "begin"
    /\ IF ticket[Home[t]] = t THEN Goto(t, "check") /\ UNCHANGED <<ticket, outcome>>
       ELSE \/ tryBeginMaterialize(t) /\ Goto(t, "check") /\ UNCHANGED outcome
            \/ /\ ticket[Home[t]] # None
               /\ Goto(t, "ended") /\ Result(t, "failed") /\ UNCHANGED ticket
    /\ UNCHANGED <<disk, locks, refs, entry, waited, tries, tee, asking, world>>

beginRefuse(t) ==
    /\ pc[t] = "check"
    /\ IF refs[Home[t]] > 0
       THEN Goto(t, "abort") /\ Result(t, "inUse")
       ELSE Goto(t, "lock") /\ UNCHANGED outcome
    /\ UNCHANGED <<disk, locks, registry, waited, tries, tee, asking, world>>

(* Mutant of beginLock: the tee goes on although the lock was not had.     *)
beginLockIgnored(t) ==
    /\ pc[t] = "lock"
    /\ IF excl = t \/ Contended THEN UNCHANGED locks ELSE tryExclusive(t)
    /\ Goto(t, "open")
    /\ UNCHANGED <<disk, registry, waited, tries, outcome, tee, asking, world>>

(* The lock, unless the job brought it; under it a file that does not      *)
(* validate is deleted.                                                    *)
beginLock(t) ==
    /\ pc[t] = "lock"
    /\ \/ /\ IF excl = t THEN UNCHANGED locks ELSE tryExclusive(t)
          /\ file' = IF Valid THEN file ELSE [file EXCEPT !.content = "absent"]
          /\ Goto(t, "open") /\ UNCHANGED outcome
       \/ /\ excl # t /\ Goto(t, "abort")
          /\ Result(t, IF Contended /\ refs[Home[t]] > 0 THEN "inUse"
                                                         ELSE "failed")
          /\ UNCHANGED <<file, locks>>
    /\ UNCHANGED <<partial, registry, waited, tries, tee, asking, world>>

(* The session opens and the sole encoder with it: whatever is at the      *)
(* partial's path goes and it is created.  No session, an estimate over    *)
(* the budget or any step of the open failing leaves nothing.              *)
openWriter(t) ==
    LET p == Home[t] IN
    /\ pc[t] = "open"
    /\ \/ /\ cancel[t] = "no"
          /\ partial' = [partial EXCEPT ![p] = [owner |-> t, closed |-> FALSE]]
          /\ writer' = [writer EXCEPT ![t] = "run"]
          /\ Goto(t, "stream") /\ UNCHANGED outcome
       \/ /\ partial' = [partial EXCEPT ![p] = NoPartial]
          /\ Goto(t, "abort") /\ Result(t, "failed") /\ UNCHANGED writer
    /\ UNCHANGED <<file, locks, registry, waited, tries, enq, taken, failed,
                   cancel, complete, asking, world>>

(* The tee blocks the download while its queue is full.                    *)
enqueue(t) ==
    /\ pc[t] = "stream" /\ enq[t] < Messages
    /\ ~failed[t] /\ cancel[t] \in {"no", "flag"}
    /\ enq[t] - taken[t] < QueueCap
    /\ enq' = [enq EXCEPT ![t] = @ + 1]
    /\ UNCHANGED <<disk, locks, registry, control, taken, writer, failed,
                   cancel, complete, asking, world>>

(* A failed tee is dropped and the download goes on without it.            *)
teeEnqueueFailed(t) ==
    /\ pc[t] = "stream" /\ failed[t]
    /\ Goto(t, "abort") /\ Result(t, "failed")
    /\ UNCHANGED <<disk, locks, registry, waited, tries, tee, asking, world>>

(* One turn of the writer thread: write the next message, or fail to.      *)
writerLoop(t) ==
    /\ writer[t] = "run"
    /\ ~failed[t] /\ cancel[t] # "abort" /\ taken[t] < enq[t]
    /\ \/ taken' = [taken EXCEPT ![t] = @ + 1] /\ UNCHANGED <<writer, failed>>
       \/ /\ failed' = [failed EXCEPT ![t] = TRUE]
          /\ writer' = [writer EXCEPT ![t] = "exited"] /\ UNCHANGED taken
    /\ UNCHANGED <<disk, locks, registry, control, enq, cancel, complete,
                   asking, world>>

(* It stops at a failure or an abort, and when the closed queue is empty.  *)
writerExit(t) ==
    /\ writer[t] = "run"
    /\ \/ failed[t] \/ cancel[t] = "abort"
       \/ pc[t] # "stream" /\ taken[t] = enq[t]
    /\ writer' = [writer EXCEPT ![t] = "exited"]
    /\ UNCHANGED <<disk, locks, registry, control, enq, taken, failed, cancel,
                   complete, asking, world>>

(* The tee is published for requestCancel from begin to the end.           *)
Published(t) == pc[t] \in {"open", "stream", "drain", "finalize", "convert",
                           "relock", "handoff"}

(* requestCancel sets the flag and then tells the tee, if there is one.    *)
requestCancel(t) ==
    /\ t \in Cancelled /\ pc[t] # "ended"
    /\ \/ cancel[t] = "no" /\ cancel' = [cancel EXCEPT ![t] = "flag"]
       \/ /\ cancel[t] = "flag"
          /\ cancel' = [cancel EXCEPT
                           ![t] = IF Published(t) THEN "abort" ELSE "quiet"]
    /\ UNCHANGED <<disk, locks, registry, control, enq, taken, writer, failed,
                   complete, asking, world>>

(* The download ends; the cancel flag is sampled once, here.  A message    *)
(* that an abort kept out of the queue does not stop the stream.           *)
endDownload(t) ==
    /\ pc[t] = "stream"
    /\ \E eos \in {"Complete", "Other"} :
          /\ eos = "Complete" => enq[t] = Messages \/ cancel[t] = "abort"
          /\ complete' = [complete EXCEPT
                             ![t] = eos = "Complete" /\ cancel[t] = "no"]
    /\ Goto(t, "drain")
    /\ UNCHANGED <<disk, locks, registry, waited, tries, outcome, enq, taken,
                   writer, failed, cancel, asking, world>>

-----------------------------------------------------------------------------
(* finishCacheTee.                                                         *)

(* drainAndClose joins the writer and closes the file; a failure latched   *)
(* by the writer, or met at the close, leaves nothing to finalize.         *)
drainAndClose(t) ==
    LET p == Home[t] IN
    /\ pc[t] = "drain" /\ writer[t] = "exited"
    /\ partial' = [partial EXCEPT ![p].closed = TRUE]
    /\ \/ Goto(t, "abort") /\ Result(t, "failed")
       \/ /\ ~failed[t]
          /\ IF complete[t] THEN Goto(t, "finalize") /\ UNCHANGED outcome
                            ELSE Goto(t, "abort") /\ Result(t, "aborted")
    /\ UNCHANGED <<file, locks, registry, waited, tries, tee, asking, world>>

(* Mutant of CountsMatch: the file is validated without expected counts.   *)
CountsUnchecked(t) == TRUE

(* The Statistics of the file against what the tee was given.              *)
CountsMatch(t) == KnownIn(taken[t]) = KnownIn(enq[t])

(* SessionFileCache::finalize: validate, sync, and rename over the path.   *)
finalize(t) ==
    LET p == Home[t]
        content == IF KnownIn(taken[t]) = KnownIn(Messages) THEN "whole"
                                                            ELSE "short"
    IN
    /\ pc[t] = "finalize"
    /\ \/ /\ partial[p].owner = t /\ partial[p].closed /\ CountsMatch(t)
          /\ file' = [gen |-> file.gen + 1, content |-> content]
          /\ Goto(t, "convert") /\ UNCHANGED outcome
       \/ Goto(t, "abort") /\ Result(t, "failed") /\ UNCHANGED file
    /\ partial' = [partial EXCEPT ![p] = NoPartial]
    /\ UNCHANGED <<locks, registry, waited, tries, tee, asking, world>>

(* downgradeToShared is not atomic: the exclusive lock goes first ...      *)
downgradeUnlock(t) ==
    /\ pc[t] = "convert"
    /\ release(t) /\ Goto(t, "relock")
    /\ UNCHANGED <<disk, registry, waited, tries, outcome, tee, asking, world>>

(* ... and another handle may have the sidecar before the shared lock.     *)
downgradeRelock(t) ==
    /\ pc[t] = "relock"
    /\ \/ tryShared(t) /\ Goto(t, "handoff") /\ UNCHANGED outcome
       \/ /\ excl # None
          /\ Goto(t, "abort") /\ Result(t, "failed") /\ UNCHANGED locks
    /\ UNCHANGED <<disk, registry, waited, tries, tee, asking, world>>

(* Mutant of handoff: the file is not looked up again under the lease.     *)
handoffUnchecked(t) ==
    /\ pc[t] = "handoff"
    /\ insertLeaseLocked(Home[t], t) /\ Result(t, "finalized")
    /\ Goto(t, "abort")
    /\ UNCHANGED <<disk, ticket, entry, waited, tries, tee, asking, world>>

(* The published file is looked up under the new lease and adopted.        *)
handoff(t) ==
    /\ pc[t] = "handoff"
    /\ IF Valid THEN insertLeaseLocked(Home[t], t) /\ Result(t, "finalized")
                ELSE release(t) /\ Result(t, "failed") /\ UNCHANGED refs
    /\ Goto(t, "abort")
    /\ UNCHANGED <<disk, ticket, entry, waited, tries, tee, asking, world>>

(* abortAndCleanup: stop the writer ...                                    *)
abortAndCleanup(t) ==
    /\ pc[t] = "abort"
    /\ failed' = [failed EXCEPT ![t] = @ \/ outcome[t] # "finalized"]
    /\ Goto(t, "join")
    /\ UNCHANGED <<disk, locks, registry, waited, tries, outcome, enq, taken,
                   writer, cancel, complete, asking, world>>

(* Mutant of cleanup: the partial of a failed tee is kept.                 *)
cleanupKeepsPartial(t) ==
    /\ pc[t] = "join" /\ writer[t] # "run"
    /\ release(t) /\ Goto(t, "release")
    /\ UNCHANGED <<disk, registry, waited, tries, outcome, tee, asking, world>>

(* ... and join it, remove the partial, let the lock go ...                *)
cleanup(t) ==
    /\ pc[t] = "join" /\ writer[t] # "run"
    /\ partial' = [partial EXCEPT
          ![Home[t]] = IF outcome[t] # "finalized" /\ writer[t] # "none"
                       THEN NoPartial ELSE @]
    /\ release(t) /\ Goto(t, "release")
    /\ UNCHANGED <<file, registry, waited, tries, outcome, tee, asking, world>>

(* ... and the ticket last.  The pull then stores its session, with the    *)
(* identity if the file was published; a lossy decode stores nothing.      *)
finishPull(t) ==
    LET p == Home[t] IN
    /\ pc[t] = "release"
    /\ endMaterialize(t) /\ Goto(t, "ended")
    /\ \/ UNCHANGED entry
       \/ /\ complete[t] /\ alive[p]
          /\ entry' = [entry EXCEPT
                          ![p] = IF outcome[t] = "finalized" THEN "bound"
                                                             ELSE "unbound"]
    /\ UNCHANGED <<disk, locks, refs, waited, tries, outcome, tee, asking,
                   world>>

-----------------------------------------------------------------------------
(* queryDescriptor: retainLeaseForLifetime, else a plain lookup.           *)

retainLease(p) ==
    /\ alive[p] /\ query[p] = "idle" /\ queries[p] < MaxQueries[p]
    /\ queries' = [queries EXCEPT ![p] = @ + 1]
    /\ IF refs[p] > 0
       THEN /\ refs' = [refs EXCEPT ![p] = @ + 1]
            /\ answer' = [answer EXCEPT ![p] = "materialized"]
            /\ UNCHANGED <<locks, query>>
       ELSE /\ \/ tryShared(Query(p)) /\ query' = [query EXCEPT ![p] = "leased"]
               \/ /\ excl # None /\ UNCHANGED locks
                  /\ query' = [query EXCEPT ![p] = "lookup"]
            /\ UNCHANGED <<refs, answer>>
    /\ UNCHANGED <<disk, ticket, entry, control, tee, world>>

retainValidated(p) ==
    /\ alive[p] /\ query[p] = "leased"
    /\ IF Valid
       THEN /\ insertLeaseLocked(p, Query(p))
            /\ query' = [query EXCEPT ![p] = "idle"]
            /\ answer' = [answer EXCEPT ![p] = "materialized"]
       ELSE /\ release(Query(p)) /\ query' = [query EXCEPT ![p] = "lookup"]
            /\ UNCHANGED <<refs, answer>>
    /\ UNCHANGED <<disk, ticket, entry, control, tee, queries, world>>

queryLookup(p) ==
    /\ alive[p] /\ query[p] = "lookup"
    /\ query' = [query EXCEPT ![p] = "idle"]
    /\ answer' = [answer EXCEPT ![p] = IF Valid THEN "materialized"
                                                ELSE "missing"]
    /\ UNCHANGED <<disk, locks, registry, control, tee, queries, world>>

-----------------------------------------------------------------------------
(* SessionFileCache::cleanup, as it meets this identity: a victim when the *)
(* cache is over its budget, or partials old enough to be orphans.         *)

evictLock(p) ==
    /\ p \in Evicting /\ alive[p] /\ evict[p] = "idle"
    /\ tryExclusive(Evictor(p))
    /\ evict' = [evict EXCEPT ![p] = "holding"]
    /\ UNCHANGED <<disk, registry, control, tee, asking, alive>>

evictRemove(p) ==
    /\ alive[p] /\ evict[p] = "holding"
    /\ \/ /\ file' = [file EXCEPT !.content = "absent"]
          /\ UNCHANGED partial
       \/ \E owner \in Procs :
             /\ partial' = [partial EXCEPT ![owner] = NoPartial]
             /\ UNCHANGED file
    /\ release(Evictor(p))
    /\ evict' = [evict EXCEPT ![p] = "idle"]
    /\ UNCHANGED <<registry, control, tee, asking, alive>>

(* A process dies: the system drops its locks, its files stay.             *)
crash(p) ==
    /\ p \in Mortal /\ alive[p]
    /\ alive' = [alive EXCEPT ![p] = FALSE]
    /\ excl' = IF excl \in HandlesOf(p) THEN None ELSE excl
    /\ shared' = shared \ HandlesOf(p)
    /\ refs' = [refs EXCEPT ![p] = 0]
    /\ ticket' = [ticket EXCEPT ![p] = None]
    /\ entry' = [entry EXCEPT ![p] = "none"]
    /\ pc' = [t \in Threads |-> IF Home[t] = p THEN "ended" ELSE pc[t]]
    /\ writer' = [t \in Threads |-> IF Home[t] = p THEN "exited" ELSE writer[t]]
    /\ query' = [query EXCEPT ![p] = "idle"]
    /\ evict' = [evict EXCEPT ![p] = "idle"]
    /\ answer' = [answer EXCEPT ![p] = "none"]
    /\ UNCHANGED <<disk, waited, tries, outcome, enq, taken, failed, cancel,
                   complete, queries>>

-----------------------------------------------------------------------------
JobStep(t) == jobTicket(t) \/ jobRevalidate(t) \/ jobRefuse(t) \/ jobLock(t)
              \/ jobRelookup(t) \/ restoreAcquire(t) \/ restoreCheck(t)
TeeStep(t) == beginTicket(t) \/ beginRefuse(t) \/ beginLock(t) \/ openWriter(t)
              \/ enqueue(t) \/ teeEnqueueFailed(t) \/ endDownload(t)
              \/ drainAndClose(t) \/ finalize(t) \/ downgradeUnlock(t)
              \/ downgradeRelock(t) \/ handoff(t) \/ abortAndCleanup(t)
              \/ cleanup(t) \/ finishPull(t)
ThreadStep == \E t \in Threads :
    \/ JobStep(t) \/ memoryLookup(t) \/ memoryServe(t) \/ TeeStep(t)
    \/ writerLoop(t) \/ writerExit(t)
QueryStep(p) == retainLease(p) \/ retainValidated(p) \/ queryLookup(p)

Next ==
    \/ ThreadStep
    \/ \E t \in Threads : requestCancel(t)
    \/ \E p \in Procs : QueryStep(p) \/ evictLock(p) \/ evictRemove(p)
                        \/ crash(p)

Spec == Init /\ [][Next]_vars

-----------------------------------------------------------------------------
Store == INSTANCE PinnedStore WITH artifact <- file, pins <- refs

Handles == UNION {HandlesOf(p) : p \in Procs}

(* What the sidecar lock and the lease registry rest on: the lock is       *)
(* exclusive or shared, and a process holds one shared lock for all the    *)
(* references it counts, exactly while it counts any.                      *)
LeaseInv ==
    /\ excl # None => shared = {}
    /\ \A p \in Procs : refs[p] > 0 <=> Registry(p) \in shared

(* CacheTee refines the promise of the cache: whatever the threads, the    *)
(* evictors and a crash do, a file that a dataset pins is not replaced,    *)
(* deleted or evicted, and only a readable file is pinned.                 *)
PinnedFilesStay == Store!Spec

(* A prefix of the session is never published: a cancel that reaches the   *)
(* tee after the terminal sampled the flag makes the writer leave messages *)
(* behind, and only the expected counts of finalize tell.                  *)
PublishedWhole == file.content # "short"

(* While a tee writes, nobody else creates, renames or deletes its         *)
(* partial: not a second materializer of its process, nor an evictor.      *)
PartialIntact == \A t \in Threads :
    pc[t] \in {"stream", "drain", "finalize"}
        => partial[Home[t]].owner = t /\ excl = t

(* A session remembered with its identity has a readable, pinned file: the *)
(* memory cache never offers a dataset whose file may vanish.              *)
BoundEntryPinned == \A p \in Procs :
    entry[p] = "bound" => refs[p] > 0 /\ Valid

(* What a pull served from memory, or reported as finalized, is pinned for *)
(* the life of the process.                                                *)
ServedIsPinned == \A t \in Threads :
    outcome[t] \in {"served", "finalized"} /\ alive[Home[t]]
        => refs[Home[t]] > 0

(* Everyone gets through: when no thread can move, every materialization   *)
(* has ended, and left neither ticket, lock nor partial behind.            *)
CleanEnd ==
    ~ENABLED ThreadStep =>
        \A t \in Threads :
            /\ pc[t] = "ended" /\ ticket[Home[t]] = None
            /\ excl # t /\ t \notin shared
            /\ alive[Home[t]] => partial[Home[t]] = NoPartial
=============================================================================
