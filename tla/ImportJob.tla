------------------------------ MODULE ImportJob ------------------------------
(***************************************************************************)
(* Import jobs (descriptor_import_provider.cpp) and interactive pulls that *)
(* share one ImportRuntime (import_runtime.cpp): the start gate, cancel,   *)
(* join and destroy of a job, the stages of FetchWorker::pull              *)
(* (fetch_worker.cpp), the FIFO admission gate, the host-write mutex, the  *)
(* SessionCache (session_cache.hpp) and the promotion of a finished        *)
(* download to a file source, which the host answers when it likes.        *)
(*                                                                         *)
(* What the disk cache does is the business of ArtifactCache: here a tee   *)
(* just ends finalized, failed or aborted.  A pull creates at most one     *)
(* dataset, so datasets are named by their pull.  Waits poll the cancel    *)
(* flag, so a cancelled waiter leaves whenever it likes.                   *)
(***************************************************************************)
EXTENDS Naturals, Sequences, FiniteSets, Functions

CONSTANTS Jobs,         \* import jobs
          Interactive,  \* pulls of the dialog
          Key,          \* the session key of each
          MaxEntries,   \* budget of the SessionCache
          Callers,      \* host threads that join or destroy
          Joined,       \* these jobs
          Cancellable,  \* pulls somebody may cancel
          Scenarios,    \* sets of pulls that run together, after
          Earlier,      \* those that were stored before
          None

Pulls == Jobs \cup Interactive

ASSUME ImportConstants ==
    /\ Jobs \cap Interactive = {} /\ Joined \subseteq Jobs /\ None \notin Pulls
    /\ DOMAIN Key = Pulls /\ MaxEntries \in Nat \ {0}
    /\ Scenarios \subseteq SUBSET (Pulls \ Earlier) /\ Earlier \subseteq Interactive
    /\ IsFiniteSet(Pulls) /\ Cardinality(Earlier) \in 0..MaxEntries
    /\ \A t, u \in Earlier : Key[t] = Key[u] => t = u

VARIABLES pc, cancelled,        \* where each pull is, and its cancel flag
          started, terminal,    \* of a job: gate released, on_terminal calls
          dataset, tee, usable, result,  \* what the pull has so far
          held, queue, granted, \* adm_held_, adm_queue_, granted waiters
          mutex,                \* holder of hostWriteMutex, or None
          cache, generation,    \* SessionCache, most recent first, and token
          candidate,            \* lookup: the copy taken in its first phase
          live,                 \* datasets in the host's catalog
          tracked,              \* generation the promotion began with, or 0
          callback, verdict,    \* on_result of the host, and its answer
          promoted,             \* PromotionResult
          outstanding,          \* promotions_outstanding_
          joining, caller       \* join state of a job, and of each caller

job == <<started, terminal>>
got == <<dataset, tee, usable, result>>
gate == <<held, queue, granted>>
store == <<cache, generation, candidate, live>>
promotion == <<tracked, callback, verdict, promoted, outstanding>>
abi == <<joining, caller>>
vars == <<pc, cancelled, job, got, gate, mutex, store, promotion, abi>>

(* An element of a list erased through its iterator.                       *)
Without(s, i) == SubSeq(s, 1, i - 1) \o SubSeq(s, i + 1, Len(s))

Stored(t) == [key |-> Key[t], dataset |-> t, gen |-> 1, state |-> "none"]

Init ==
    /\ \E running \in Scenarios :
          pc = [t \in Pulls |-> IF t \notin running THEN "ended"
                                ELSE IF t \in Jobs THEN "idle" ELSE "lookup"]
    /\ cancelled = [t \in Pulls |-> FALSE]
    /\ started = [j \in Jobs |-> FALSE]
    /\ terminal = [j \in Jobs |-> <<>>]
    /\ dataset = [t \in Pulls |-> t \in Earlier]
    /\ tee = [t \in Pulls |-> IF t \in Earlier THEN "failed" ELSE "none"]
    /\ usable = [t \in Pulls |-> t \in Earlier]
    /\ result = [t \in Pulls |-> IF t \in Earlier THEN "complete" ELSE "none"]
    /\ held = FALSE /\ queue = <<>> /\ granted = {}
    /\ mutex = None
    /\ \E order \in Bijection(1..Cardinality(Earlier), Earlier) :
          cache = [i \in DOMAIN order |-> Stored(order[i])]
    /\ generation = 1
    /\ candidate = [t \in Interactive |-> None] /\ live = Earlier
    /\ tracked = [t \in Pulls |-> 0]
    /\ callback = [t \in Pulls |-> "none"]
    /\ verdict = [t \in Pulls |-> FALSE]
    /\ promoted = [t \in Pulls |-> "none"]
    /\ outstanding = 0
    /\ joining = [j \in Jobs |-> "none"]
    /\ caller = [j \in Jobs |-> [c \in Callers |-> "out"]]

Goto(t, label) == pc' = [pc EXCEPT ![t] = label]
After(t) == IF t \in Jobs THEN "settled" ELSE "ended"
Ends(t, r) == Goto(t, "leave") /\ result' = [result EXCEPT ![t] = r]

-----------------------------------------------------------------------------
(* The job's entry points.                                                 *)

(* startImport: a request that is malformed, unbound or cannot get its     *)
(* thread is refused and never calls back; else the worker waits at the    *)
(* gate, and                                                               *)
startImport(j) ==
    /\ pc[j] = "idle"
    /\ Goto(j, "gated") \/ Goto(j, "refused")
    /\ UNCHANGED <<cancelled, job, got, gate, mutex, store, promotion, abi>>

(* the gate opens as the call returns.                                     *)
releaseStart(j) ==
    /\ pc[j] = "gated" /\ ~started[j]
    /\ started' = [started EXCEPT ![j] = TRUE]
    /\ UNCHANGED <<pc, cancelled, terminal, got, gate, mutex, store, promotion,
                   abi>>

(* jobCancel, the dialog's cancel, or the watchdog that saw a host stop.   *)
requestCancel(t) ==
    /\ t \in Cancellable /\ pc[t] \notin {"idle", "refused", "ended"} /\ ~cancelled[t]
    /\ t \in Jobs => started[t]
    /\ cancelled' = [cancelled EXCEPT ![t] = TRUE]
    /\ UNCHANGED <<pc, job, got, gate, mutex, store, promotion, abi>>

(* Mutant of joinCall: a second caller does not wait for the first.        *)
joinCallAtOnce(j, c) ==
    /\ started[j] /\ caller[j][c] = "out"
    /\ IF joining[j] = "none"
       THEN /\ joining' = [joining EXCEPT ![j] = "busy"]
            /\ caller' = [caller EXCEPT ![j][c] = "joiner"]
       ELSE /\ caller' = [caller EXCEPT ![j][c] = "returned"]
            /\ UNCHANGED joining
    /\ UNCHANGED <<pc, cancelled, job, got, gate, mutex, store, promotion>>

(* jobJoin: the first caller joins the worker, the others wait for it.     *)
joinCall(j, c) ==
    /\ started[j] /\ caller[j][c] = "out"
    /\ CASE joining[j] = "none" ->
              /\ joining' = [joining EXCEPT ![j] = "busy"]
              /\ caller' = [caller EXCEPT ![j][c] = "joiner"]
         [] joining[j] = "busy" ->
              /\ caller' = [caller EXCEPT ![j][c] = "waiter"]
              /\ UNCHANGED joining
         [] joining[j] = "joined" ->
              /\ caller' = [caller EXCEPT ![j][c] = "returned"]
              /\ UNCHANGED joining
    /\ UNCHANGED <<pc, cancelled, job, got, gate, mutex, store, promotion>>

joinReturns(j, c) ==
    /\ \/ /\ caller[j][c] = "joiner" /\ pc[j] = "ended"
          /\ joining' = [joining EXCEPT ![j] = "joined"]
       \/ /\ caller[j][c] = "waiter" /\ joining[j] = "joined"
          /\ UNCHANGED joining
    /\ caller' = [caller EXCEPT ![j][c] = "returned"]
    /\ UNCHANGED <<pc, cancelled, job, got, gate, mutex, store, promotion>>

(* jobDestroy: cancel, then join; no other call is in progress.            *)
jobDestroy(j, c) ==
    /\ started[j] /\ \A d \in Callers : caller[j][d] \in {"out", "returned"}
    /\ joining[j] = "none"
    /\ cancelled' = [cancelled EXCEPT ![j] = TRUE]
    /\ joining' = [joining EXCEPT ![j] = "busy"]
    /\ caller' = [d \in Jobs |-> IF d = j
                    THEN [b \in Callers |-> IF b = c THEN "joiner" ELSE "barred"]
                    ELSE caller[d]]
    /\ UNCHANGED <<pc, job, got, gate, mutex, store, promotion>>

-----------------------------------------------------------------------------
(* The job up to its pull: its waits for the ticket and the lock, which    *)
(* ArtifactCache has in full, may end it.                                  *)
jobRun(j) ==
    /\ pc[j] = "gated" /\ started[j]
    /\ \/ Goto(j, "begin") /\ UNCHANGED result
       \/ /\ Goto(j, "settled")
          /\ result' = [result EXCEPT ![j] = IF cancelled[j] THEN "cancelled"
                                                             ELSE "failed"]
    /\ UNCHANGED <<cancelled, job, dataset, tee, usable, gate, mutex, store,
                   promotion, abi>>

-----------------------------------------------------------------------------
(* SessionCache.  An entry has its key, dataset, generation and promotion  *)
(* state.                                                                  *)

findLocked(k) == {i \in DOMAIN cache : cache[i].key = k}
eraseLocked(i) == Without(cache, i)
promoteLocked(i) == <<cache[i]>> \o eraseLocked(i)

(* lookup, first phase: copy the entry out.                                *)
lookupCopy(t) ==
    /\ t \in Interactive /\ pc[t] = "lookup"
    /\ IF findLocked(Key[t]) = {}
       THEN Goto(t, "begin") /\ UNCHANGED candidate
       ELSE /\ \E i \in findLocked(Key[t]) :
                  candidate' = [candidate EXCEPT ![t] = cache[i].dataset]
            /\ Goto(t, "predicate")
    /\ UNCHANGED <<cancelled, job, got, gate, mutex, cache, generation, live,
                   promotion, abi>>

(* Second phase, unlocked: does the host still have the dataset?           *)
lookupPredicate(t) ==
    /\ t \in Interactive /\ pc[t] = "predicate"
    /\ Goto(t, IF candidate[t] \in live THEN "present" ELSE "gone")
    /\ UNCHANGED <<cancelled, job, got, gate, mutex, store, promotion, abi>>

(* Mutant of Stale: whatever entry the key has now is taken for the copy.  *)
StaleByKey(t, e) == TRUE

(* Only the entry that was validated is evicted.                           *)
Stale(t, e) == e.dataset = candidate[t]

(* Third phase, locked again: a hit moves to the front, a gone one leaves. *)
lookupAct(t) ==
    LET found == findLocked(Key[t]) IN
    /\ t \in Interactive /\ pc[t] \in {"present", "gone"}
    /\ IF pc[t] = "present" /\ found # {}
       THEN /\ \E i \in found : cache' = promoteLocked(i)
            /\ Goto(t, "ended") /\ result' = [result EXCEPT ![t] = "served"]
       ELSE /\ \/ \E i \in found : /\ pc[t] = "gone" /\ Stale(t, cache[i])
                                    /\ cache' = eraseLocked(i)
               \/ /\ ~ \E i \in found : pc[t] = "gone" /\ Stale(t, cache[i])
                  /\ UNCHANGED cache
            /\ Goto(t, "begin") /\ UNCHANGED result
    /\ UNCHANGED <<cancelled, job, dataset, tee, usable, gate, mutex,
                   generation, candidate, live, promotion, abi>>

(* store: a fresh generation, at the front, in place of the entry the key  *)
(* had; over budget the last one goes.                                     *)
StoreEntry(t) ==
    LET entry == [Stored(t) EXCEPT !.gen = generation + 1]
        found == findLocked(Key[t])
        all == <<entry>> \o cache
    IN  /\ generation' = generation + 1
        /\ \/ \E i \in found : cache' = <<entry>> \o eraseLocked(i)
           \/ /\ found = {}
              /\ cache' = IF Len(all) > MaxEntries THEN SubSeq(all, 1, MaxEntries) ELSE all

(* Mutant of Settles: any pending entry of the key is settled.             *)
SettlesByKey(e, t) == e.key = Key[t] /\ e.state = "pending"

(* settlePromotion: only the entry of this dataset and generation, and     *)
(* only while pending.                                                     *)
Settles(e, t) ==
    /\ e.key = Key[t] /\ e.dataset = t /\ e.gen = tracked[t]
    /\ e.state = "pending"

settlePromotion(t, state) ==
    cache' = [i \in DOMAIN cache |->
                 IF tracked[t] # 0 /\ Settles(cache[i], t)
                 THEN [cache[i] EXCEPT !.state = state] ELSE cache[i]]

-----------------------------------------------------------------------------
(* FetchWorker::pull; the interactive pull takes the same stages.          *)

(* The tee begins; if it cannot, the pull goes on without it.              *)
teeBegin(t) ==
    /\ pc[t] = "begin" /\ Goto(t, "admission")
    /\ \E b \in {"begun", "failed"} : tee' = [tee EXCEPT ![t] = b]
    /\ UNCHANGED <<cancelled, job, dataset, usable, result, gate, mutex,
                   store, promotion, abi>>

(* acquireAdmission: at once if the gate is free and nobody queues.        *)
acquireAdmission(t) ==
    /\ pc[t] = "admission"
    /\ IF ~held /\ queue = <<>>
       THEN held' = TRUE /\ Goto(t, "connect") /\ UNCHANGED queue
       ELSE queue' = Append(queue, t) /\ Goto(t, "queued") /\ UNCHANGED held
    /\ UNCHANGED <<cancelled, job, got, granted, mutex, store, promotion, abi>>

(* A waiter wakes: the gate was handed to it, or it is cancelled and       *)
(* leaves the queue.                                                       *)
admissionWake(t) ==
    /\ pc[t] = "queued"
    /\ \/ /\ t \in granted /\ Goto(t, "connect")
          /\ granted' = granted \ {t} /\ UNCHANGED <<queue, result>>
       \/ /\ t \notin granted /\ cancelled[t]
          /\ \E i \in DOMAIN queue : queue[i] = t /\ queue' = Without(queue, i)
          /\ Goto(t, After(t)) /\ result' = [result EXCEPT ![t] = "cancelled"]
          /\ UNCHANGED granted
    /\ UNCHANGED <<cancelled, job, dataset, tee, usable, held, mutex, store,
                   promotion, abi>>

(* Mutant of releaseAdmission: the gate opens whoever waits.               *)
releaseAdmissionOpen == held' = FALSE /\ UNCHANGED <<queue, granted>>

(* releaseAdmission hands the gate to the first in the queue.              *)
releaseAdmission ==
    IF queue # <<>>
    THEN /\ granted' = granted \cup {Head(queue)} /\ queue' = Tail(queue)
         /\ UNCHANGED held
    ELSE held' = FALSE /\ UNCHANGED <<queue, granted>>

(* Connect, open the session and the encoder.  A cancel is the cause of    *)
(* whatever failed after it; an empty plan or an estimate over the ceiling *)
(* fails; a tee that cannot open is dropped.                               *)
connectAndOpen(t) ==
    /\ pc[t] = "connect"
    /\ \/ Ends(t, IF cancelled[t] THEN "cancelled" ELSE "failed") /\ UNCHANGED tee
       \/ /\ Goto(t, "createLock") /\ UNCHANGED result
          /\ \/ UNCHANGED tee
             \/ tee' = [tee EXCEPT ![t] = "failed"]
    /\ UNCHANGED <<cancelled, job, dataset, usable, gate, mutex, store,
                   promotion, abi>>

(* The dataset is created under the host-write mutex ...                   *)
createDataset(t) ==
    /\ pc[t] = "createLock"
    /\ \/ mutex = None /\ mutex' = t /\ Goto(t, "create") /\ UNCHANGED result
       \/ /\ cancelled[t] /\ t \in Jobs /\ mutex # None
          /\ Ends(t, "cancelled") /\ UNCHANGED mutex
    /\ UNCHANGED <<cancelled, job, dataset, tee, usable, gate, store,
                   promotion, abi>>

(* ... which the job lets go to report it (on_dataset) and takes again;    *)
(* the interactive pull keeps it.                                          *)
datasetCreated(t) ==
    /\ pc[t] = "create"
    /\ \/ /\ dataset' = [dataset EXCEPT ![t] = TRUE]
          /\ live' = live \cup {t} /\ UNCHANGED result
          /\ IF t \in Jobs THEN Goto(t, "relock") /\ mutex' = None
                           ELSE Goto(t, "bind") /\ UNCHANGED mutex
       \/ Ends(t, "failed") /\ mutex' = None /\ UNCHANGED <<dataset, live>>
    /\ UNCHANGED <<cancelled, job, tee, usable, gate, cache, generation,
                   candidate, promotion, abi>>

relockHost(t) ==
    /\ pc[t] = "relock"
    /\ \/ mutex = None /\ mutex' = t /\ Goto(t, "bind") /\ UNCHANGED result
       \/ /\ cancelled[t] /\ mutex # None
          /\ Ends(t, "cancelled") /\ UNCHANGED mutex
    /\ UNCHANGED <<cancelled, job, dataset, tee, usable, gate, store,
                   promotion, abi>>

(* Topics are bound: with no parser and no tee there is nothing to do.     *)
bindSession(t) ==
    /\ pc[t] = "bind"
    /\ \E decodable \in BOOLEAN :
          /\ usable' = [usable EXCEPT ![t] = decodable]
          /\ IF ~decodable /\ tee[t] # "begun"
             THEN Ends(t, "failed") /\ mutex' = None
             ELSE Goto(t, "download") /\ UNCHANGED <<mutex, result>>
    /\ UNCHANGED <<cancelled, job, dataset, tee, gate, store, promotion, abi>>

(* The end of the download: how the stream ended, whether a ceiling was    *)
(* passed, and one sample of the cancel flag.                              *)
Terminal(eos, ceiling, cancel) ==
    IF cancel \/ (eos = "Cancelled" /\ ~ceiling) THEN "cancelled"
    ELSE IF ceiling THEN "ceiling"
    ELSE IF eos = "Complete" THEN "complete" ELSE "failed"

(* Mutant of TeeEnds: the ceilings do not stop the finalize.               *)
TeeEndsAnyway(t, eos, stopped) ==
    IF tee[t] # "begun" THEN {tee[t]}
    ELSE IF eos = "Complete" THEN {"finalized", "failed"}
    ELSE {"aborted", "failed"}

(* finishCacheTee: only a complete download that neither a cancel nor a    *)
(* ceiling stopped is finalized.                                           *)
TeeEnds(t, eos, stopped) ==
    IF tee[t] # "begun" THEN {tee[t]}
    ELSE IF eos = "Complete" /\ ~stopped THEN {"finalized", "failed"}
    ELSE {"aborted", "failed"}

downloadEnds(t) ==
    /\ pc[t] = "download"
    /\ \E eos \in {"Complete", "Cancelled", "Other"}, ceiling \in BOOLEAN :
          /\ t \in Interactive => ~ceiling
          /\ result' = [result EXCEPT ![t] = Terminal(eos, ceiling, cancelled[t])]
          /\ \E ended \in TeeEnds(t, eos, ceiling \/ cancelled[t]) :
                tee' = [tee EXCEPT ![t] = ended]
    /\ \E rows \in BOOLEAN : usable' = [usable EXCEPT ![t] = @ /\ rows]
    /\ mutex' = None /\ Goto(t, "store")
    /\ UNCHANGED <<cancelled, job, dataset, gate, store, promotion, abi>>

(* A complete session is remembered, unless some message did not decode.   *)
storeCompletedSession(t) ==
    /\ pc[t] = "store"
    /\ \/ result[t] = "complete" /\ usable[t] /\ StoreEntry(t)
       \/ UNCHANGED <<cache, generation>>
    /\ Goto(t, IF result[t] = "complete" /\ tee[t] = "finalized"
               THEN "promote" ELSE "leave")
    /\ UNCHANGED <<cancelled, job, got, gate, mutex, candidate, live,
                   promotion, abi>>

-----------------------------------------------------------------------------
(* promoteToFileSource.                                                    *)

(* beginPromotion: refused if the entry is of another dataset or already   *)
(* pending; a session with no entry goes on untracked.                     *)
beginPromotion(t) ==
    LET found == findLocked(Key[t]) IN
    /\ pc[t] = "promote"
    /\ \/ /\ found = {} /\ Goto(t, "callHost")
          /\ UNCHANGED <<cache, tracked, promoted>>
       \/ \E i \in found :
             IF cache[i].dataset # t \/ cache[i].state = "pending"
             THEN /\ promoted' = [promoted EXCEPT ![t] = "refused"]
                  /\ Goto(t, "leave") /\ UNCHANGED <<cache, tracked>>
             ELSE /\ cache' = [cache EXCEPT ![i].state = "pending"]
                  /\ tracked' = [tracked EXCEPT ![t] = cache[i].gen]
                  /\ Goto(t, "callHost") /\ UNCHANGED promoted
    /\ UNCHANGED <<cancelled, job, got, gate, mutex, generation, candidate,
                   live, callback, verdict, outstanding, abi>>

(* Without the service nothing is promoted; with it the call is counted.   *)
promoteCall(t) ==
    /\ pc[t] = "callHost"
    /\ \/ /\ settlePromotion(t, "eagerOnly") /\ Goto(t, "leave")
          /\ promoted' = [promoted EXCEPT ![t] = "refused"]
          /\ UNCHANGED <<callback, outstanding>>
       \/ /\ outstanding' = outstanding + 1 /\ Goto(t, "inHost")
          /\ callback' = [callback EXCEPT ![t] = "armed"]
          /\ UNCHANGED <<cache, promoted>>
    /\ UNCHANGED <<cancelled, job, got, gate, mutex, generation, candidate,
                   live, tracked, verdict, abi>>

(* Mutant of promoteReturns: a refusal leaves the counter up.              *)
promoteReturnsCounted(t) ==
    /\ pc[t] = "inHost" /\ Goto(t, "leave")
    /\ \/ /\ promoted' = [promoted EXCEPT
                             ![t] = IF @ = "none" THEN "unsettled" ELSE @]
          /\ UNCHANGED <<cache, callback>>
       \/ /\ callback[t] = "armed" /\ callback' = [callback EXCEPT ![t] = "never"]
          /\ settlePromotion(t, "eagerOnly")
          /\ promoted' = [promoted EXCEPT ![t] = "refused"]
    /\ UNCHANGED <<cancelled, job, got, gate, mutex, generation, candidate,
                   live, tracked, verdict, outstanding, abi>>

(* The host accepts, or refuses and will not call back.                    *)
promoteReturns(t) ==
    /\ pc[t] = "inHost" /\ Goto(t, "leave")
    /\ \/ /\ promoted' = [promoted EXCEPT
                             ![t] = IF @ = "none" THEN "unsettled" ELSE @]
          /\ UNCHANGED <<cache, callback, outstanding>>
       \/ /\ callback[t] = "armed" /\ callback' = [callback EXCEPT ![t] = "never"]
          /\ outstanding' = outstanding - 1
          /\ settlePromotion(t, "eagerOnly")
          /\ promoted' = [promoted EXCEPT ![t] = "refused"]
    /\ UNCHANGED <<cancelled, job, got, gate, mutex, generation, candidate,
                   live, tracked, verdict, abi>>

(* on_result, on any thread, perhaps before the call returns: the entry,   *)
(* then the counter and the result.                                        *)
onResultEntry(t) ==
    /\ callback[t] = "armed"
    /\ callback' = [callback EXCEPT ![t] = "entry"]
    /\ \E ok \in BOOLEAN :
          /\ verdict' = [verdict EXCEPT ![t] = ok]
          /\ settlePromotion(t, IF ok THEN "promoted" ELSE "eagerOnly")
    /\ UNCHANGED <<pc, cancelled, job, got, gate, mutex, generation, candidate,
                   live, tracked, promoted, outstanding, abi>>

onResultSettle(t) ==
    /\ callback[t] = "entry"
    /\ callback' = [callback EXCEPT ![t] = "done"]
    /\ outstanding' = outstanding - 1
    /\ promoted' = [promoted EXCEPT ![t] = IF verdict[t] THEN "ok" ELSE "refused"]
    /\ UNCHANGED <<pc, cancelled, job, got, gate, mutex, store, tracked,
                   verdict, abi>>

-----------------------------------------------------------------------------
(* The pull returns, and its admission with it.                            *)
leavePull(t) ==
    /\ pc[t] = "leave"
    /\ releaseAdmission /\ Goto(t, After(t))
    /\ UNCHANGED <<cancelled, job, got, mutex, store, promotion, abi>>

(* Mutant of Outcome: a cancel rewrites what a complete pull did.          *)
OutcomeCancelFirst(j) ==
    IF result[j] = "cancelled" \/ cancelled[j] THEN "CANCELLED"
    ELSE IF result[j] # "complete" THEN "FAILED"
    ELSE IF promoted[j] = "ok" THEN "PROMOTED"
    ELSE IF dataset[j] /\ usable[j] THEN "EAGER_ONLY" ELSE "FAILED"

(* What the job reports.  A cancel outranks every other failure but does   *)
(* not rewrite a complete pull, unless its promotion is still pending.     *)
Outcome(j) ==
    IF result[j] = "cancelled" \/ (result[j] # "complete" /\ cancelled[j])
    THEN "CANCELLED"
    ELSE IF result[j] # "complete" THEN "FAILED"
    ELSE IF promoted[j] = "unsettled" THEN "CANCELLED"
    ELSE IF promoted[j] = "ok" THEN "PROMOTED"
    ELSE IF dataset[j] /\ usable[j] THEN "EAGER_ONLY" ELSE "FAILED"

(* Mutant of fireTerminal: the wait for the promotion ignores a cancel.    *)
fireTerminalBlocking(j) ==
    /\ j \in Jobs /\ pc[j] = "settled" /\ promoted[j] # "unsettled"
    /\ terminal' = [terminal EXCEPT ![j] = Append(@, Outcome(j))]
    /\ Goto(j, "ended")
    /\ UNCHANGED <<cancelled, started, got, gate, mutex, store, promotion, abi>>

(* waitSettled returns when the promotion is settled or the job cancelled; *)
(* then on_terminal is called.                                             *)
fireTerminal(j) ==
    /\ j \in Jobs /\ pc[j] = "settled"
    /\ promoted[j] = "unsettled" => cancelled[j]
    /\ terminal' = [terminal EXCEPT ![j] = Append(@, Outcome(j))]
    /\ Goto(j, "ended")
    /\ UNCHANGED <<cancelled, started, got, gate, mutex, store, promotion, abi>>

(* The user removes a dataset from the host.                               *)
hostRemoves(t) ==
    /\ t \in live /\ pc[t] \in {"settled", "ended"}
    /\ live' = live \ {t}
    /\ UNCHANGED <<pc, cancelled, job, got, gate, mutex, cache, generation,
                   candidate, promotion, abi>>

-----------------------------------------------------------------------------
PullStep(t) ==
    \/ teeBegin(t) \/ acquireAdmission(t) \/ admissionWake(t)
    \/ connectAndOpen(t) \/ createDataset(t) \/ datasetCreated(t)
    \/ relockHost(t) \/ bindSession(t) \/ downloadEnds(t)
    \/ storeCompletedSession(t) \/ beginPromotion(t) \/ promoteCall(t)
    \/ promoteReturns(t) \/ leavePull(t)
LookupStep(t) == lookupCopy(t) \/ lookupPredicate(t) \/ lookupAct(t)
JobStep(j) ==
    \/ startImport(j) \/ releaseStart(j) \/ jobRun(j) \/ fireTerminal(j)
    \/ \E c \in Callers : joinReturns(j, c)
CallStep(j, c) == joinCall(j, c) \/ jobDestroy(j, c)
HostStep(t) == onResultEntry(t) \/ onResultSettle(t) \/ hostRemoves(t)

(* What the plugin and the host's promotion do by themselves.              *)
Progress ==
    \/ \E t \in Pulls : PullStep(t) \/ onResultSettle(t)
    \/ \E t \in Interactive : LookupStep(t)
    \/ \E j \in Jobs : JobStep(j)

Next ==
    \/ \E t \in Pulls : PullStep(t) \/ HostStep(t) \/ requestCancel(t)
    \/ \E t \in Interactive : LookupStep(t)
    \/ \E j \in Jobs : JobStep(j)
    \/ \E j \in Joined, c \in Callers : CallStep(j, c)

Spec == Init /\ [][Next]_vars

-----------------------------------------------------------------------------
(* Every variable has its type.                                            *)
TypeOK ==
    /\ cancelled \in [Pulls -> BOOLEAN] /\ usable \in [Pulls -> BOOLEAN]
    /\ tee \in [Pulls -> {"none", "begun", "failed", "aborted", "finalized"}]
    /\ held \in BOOLEAN /\ granted \subseteq Pulls /\ mutex \in Pulls \cup {None}
    /\ promoted \in [Pulls -> {"none", "unsettled", "ok", "refused"}]
    /\ outstanding \in 0..Cardinality(Pulls) /\ Len(cache) <= MaxEntries

Admitted(t) == pc[t] \in {"connect", "createLock", "create", "relock", "bind",
                          "download", "store", "promote", "callHost", "inHost",
                          "leave"}

(* One pull at a time: the gate is held exactly when one pull is admitted  *)
(* or was handed the gate and has not woken up; a hand-over that races a   *)
(* cancel is not lost, and nobody queues before an open gate.              *)
OneAdmitted ==
    /\ \A t, u \in Pulls :
          (Admitted(t) \/ t \in granted) /\ (Admitted(u) \/ u \in granted)
             => t = u
    /\ held <=> \E t \in Pulls : Admitted(t) \/ t \in granted
    /\ queue # <<>> => held
    /\ \A t \in granted : pc[t] = "queued"

(* The entry of a session never says more than the host did: promoted only *)
(* if it answered yes for this very dataset, eager only if it will not,    *)
(* pending only while an answer may still come.                            *)
EntryTellsTheTruth == \A i \in DOMAIN cache :
    LET e == cache[i] IN
    /\ e.state = "promoted" => verdict[e.dataset]
    /\ e.state = "eagerOnly" => ~verdict[e.dataset]
    /\ e.state = "pending" =>
          pc[e.dataset] = "callHost" \/ callback[e.dataset] = "armed"

(* The diagnostics counter is the number of answers still to come.         *)
OutstandingExact ==
    outstanding = Cardinality({t \in Pulls : callback[t] \in {"armed", "entry"}})

(* The terminal is truthful, whatever raced it: promoted only if the host  *)
(* said so, eager only if rows of a dataset can be used, cancelled never   *)
(* for a pull whose promotion was answered, failed never for one promoted. *)
TerminalTruthful == \A j \in Jobs : \A o \in Range(terminal[j]) :
    /\ o = "PROMOTED" => dataset[j] /\ tee[j] = "finalized" /\ verdict[j]
    /\ o = "EAGER_ONLY" => dataset[j] /\ usable[j] /\ result[j] = "complete"
    /\ o = "CANCELLED" => cancelled[j] \/ result[j] = "cancelled"
    /\ o = "CANCELLED" /\ result[j] = "complete" => callback[j] # "none"
    /\ o = "FAILED" => promoted[j] # "ok"

(* join returns, to every caller, only once on_terminal was called, and it *)
(* is called once.                                                         *)
JoinAfterTerminal == \A j \in Jobs :
    /\ Len(terminal[j]) <= 1
    /\ \A c \in Callers : caller[j][c] = "returned" => Len(terminal[j]) = 1

(* A session is finalized or remembered only if it was received whole and  *)
(* within the ceilings.                                                    *)
OnlyCompleteKept ==
    /\ \A t \in Pulls : tee[t] = "finalized" => result[t] = "complete"
    /\ \A i \in DOMAIN cache : result[cache[i].dataset] = "complete"

(* lookup evicts an entry only if the host has lost that entry's dataset.  *)
LookupSparesFresh ==
    [][\A t \in Interactive :
          pc[t] = "gone" /\ pc'[t] # "gone" =>
             \A i \in findLocked(Key[t]) :
                cache[i].dataset \notin live \/ cache' = cache]_vars

(* Nothing waits for ever: when neither the plugin nor a settled answer    *)
(* can move, every pull is over, and gate and mutex are free; only a job   *)
(* nobody cancelled may still wait, for an answer the host owes.           *)
AllEnd ==
    ~ENABLED Progress =>
        /\ \A t \in Pulls :
              \/ pc[t] \in {"ended", "refused"}
              \/ /\ pc[t] = "settled" /\ callback[t] = "armed"
                 /\ ~cancelled[t]
        /\ ~held /\ mutex = None

(* What the runtime remembers of a session is true: only whole sessions,   *)
(* with the promotion state the host's answers gave them.                  *)
EntrySound == EntryTellsTheTruth /\ OutstandingExact /\ OnlyCompleteKept

(* A job ends once, truthfully, and before any join of it returns.         *)
TerminalSound == TerminalTruthful /\ JoinAfterTerminal

(* Admission is exclusive and handed on, over a state of its types.        *)
AdmissionSound == TypeOK /\ OneAdmitted
=============================================================================
