--------------------------- MODULE SessionRegistry ---------------------------
(***************************************************************************)
(* The session registry (server/internal/session/registry.go): the map of  *)
(* live sessions, the ownership generation of each session's consumer      *)
(* binding, and the retain-window eviction timers with their epochs.       *)
(*                                                                         *)
(* Every critical section under r.mu is one action.  What the code runs    *)
(* after it has released r.mu is a separate action: the call of the        *)
(* replaced consumer's cancel function, and the two halves of teardown.    *)
(* The callers are left open here (any operation, any time); the module    *)
(* SessionLifecycle closes them with the connection handlers.              *)
(*                                                                         *)
(* A consumer context is named <<id, gen>>: the generation is unique       *)
(* within a session, and 0 stands for a nil cancel function.               *)
(***************************************************************************)
EXTENDS Naturals, FiniteSets

CONSTANTS MaxID,          \* bound: sessions ever registered
          MaxConcurrent,  \* RegistryOpts.MaxConcurrent
          MaxGen,         \* bound: consumer bindings of one session
          MaxEpoch        \* bound: eviction epochs of one session

ASSUME RegistryConstants ==
    /\ MaxID \in Nat
    /\ MaxConcurrent \in Nat
    /\ MaxGen \in Nat
    /\ MaxEpoch \in Nat

VARIABLES nextID,          \* Registry.nextID
          sessions,        \* keys of Registry.sessions
          consumerCancel,  \* generation whose cancel func is set, 0 = nil
          consumerGen,     \* SessionState.consumerGen
          evictAt,         \* epoch of the *Timer in Registry.evictAt, 0 = none
          evictEpoch,      \* Registry.evictEpoch, 0 = no entry
          timers,          \* armed timers that are still pending
          fired,           \* timers that fired; evictFire is waiting for r.mu
          replaced,        \* prev() calls owed by BindConsumerChecked
          ctxDone,         \* consumer contexts that were cancelled
          teardown,        \* progress of the removal of each session
          onEvicts,        \* how often onEvict ran for each session
          cancelling       \* ids CancelAll has still to Cancel

registryVars == <<nextID, sessions, consumerCancel, consumerGen, evictAt,
                  evictEpoch, timers, fired, replaced, ctxDone, teardown,
                  onEvicts, cancelling>>

Ids == 1..MaxID
Gens == 1..MaxGen
Epochs == 1..MaxEpoch

(* "none": registered or not yet; "consumer": removed, the consumer is to  *)
(* be cancelled; "producer": the producer is to be cancelled and the       *)
(* retain buffer closed; "done": onEvict has run.                          *)
Stages == {"none", "consumer", "producer", "done"}

RegistryInit ==
    /\ nextID = 0
    /\ sessions = {}
    /\ consumerCancel = [id \in Ids |-> 0]
    /\ consumerGen = [id \in Ids |-> 0]
    /\ evictAt = [id \in Ids |-> 0]
    /\ evictEpoch = [id \in Ids |-> 0]
    /\ timers = {}
    /\ fired = {}
    /\ replaced = {}
    /\ ctxDone = {}
    /\ teardown = [id \in Ids |-> "none"]
    /\ onEvicts = [id \in Ids |-> 0]
    /\ cancelling = {}

(* Mutant of AtCapacity: off by one.                                       *)
AtCapacityOffByOne == Cardinality(sessions) > MaxConcurrent

AtCapacity == Cardinality(sessions) >= MaxConcurrent

RegisterUnchecked ==
    /\ nextID < MaxID
    /\ nextID' = nextID + 1
    /\ sessions' = sessions \union {nextID + 1}
    /\ UNCHANGED <<consumerCancel, consumerGen, evictAt, evictEpoch, timers,
                   fired, replaced, ctxDone, teardown, onEvicts, cancelling>>

Register == ~AtCapacity /\ RegisterUnchecked

InstallConsumer(id) ==
    /\ consumerGen[id] < MaxGen
    /\ consumerGen' = [consumerGen EXCEPT ![id] = @ + 1]
    /\ consumerCancel' = [consumerCancel EXCEPT ![id] = consumerGen[id] + 1]
    /\ UNCHANGED <<nextID, sessions, evictAt, evictEpoch, timers, fired,
                   ctxDone, teardown, onEvicts, cancelling>>

(* Mutant of OwePrev: the replaced consumer is forgotten.                  *)
OweNothing(id) == UNCHANGED replaced

(* The prior cancel function, if any, is called after r.mu is released.    *)
OwePrev(id) ==
    replaced' = IF consumerCancel[id] = 0 THEN replaced
                ELSE replaced \union {<<id, consumerCancel[id]>>}

(* Mutant of BindConsumerChecked: no membership check under r.mu.          *)
BindUnchecked(id) ==
    /\ id <= nextID
    /\ InstallConsumer(id)
    /\ OwePrev(id)

BindConsumerChecked(id) ==
    /\ id \in sessions
    /\ InstallConsumer(id)
    /\ OwePrev(id)

CancelReplaced(id, gen) ==
    /\ <<id, gen>> \in replaced
    /\ replaced' = replaced \ {<<id, gen>>}
    /\ ctxDone' = ctxDone \union {<<id, gen>>}
    /\ UNCHANGED <<nextID, sessions, consumerCancel, consumerGen, evictAt,
                   evictEpoch, timers, fired, teardown, onEvicts, cancelling>>

(* Timer.Stop: no effect on a timer that has already fired.                *)
StopTimer(id) == timers \ {<<id, evictAt[id]>>}

(* Mutant of CancelBound: the cancel function is called but not cleared.   *)
CancelBoundKeepsFunc(id) ==
    /\ ctxDone' = IF consumerCancel[id] = 0 THEN ctxDone
                  ELSE ctxDone \union {<<id, consumerCancel[id]>>}
    /\ UNCHANGED consumerCancel

CancelBound(id) ==
    /\ ctxDone' = IF consumerCancel[id] = 0 THEN ctxDone
                  ELSE ctxDone \union {<<id, consumerCancel[id]>>}
    /\ consumerCancel' = [consumerCancel EXCEPT ![id] = 0]

(* Mutant of armEvictLocked: the timer is recorded but never started.      *)
armEvictNoTimer(id) ==
    /\ evictEpoch[id] < MaxEpoch
    /\ evictEpoch' = [evictEpoch EXCEPT ![id] = @ + 1]
    /\ evictAt' = [evictAt EXCEPT ![id] = evictEpoch[id] + 1]
    /\ timers' = StopTimer(id)

armEvictLocked(id) ==
    /\ evictEpoch[id] < MaxEpoch
    /\ evictEpoch' = [evictEpoch EXCEPT ![id] = @ + 1]
    /\ evictAt' = [evictAt EXCEPT ![id] = evictEpoch[id] + 1]
    /\ timers' = StopTimer(id) \union {<<id, evictEpoch[id] + 1>>}

(* Mutant of IsOwner: the ownership generation is not compared.            *)
IsOwnerAnyGen(id, gen) == id \in sessions

IsOwner(id, gen) == id \in sessions /\ consumerGen[id] = gen

DetachOwned(id) ==
    /\ CancelBound(id)
    /\ armEvictLocked(id)
    /\ UNCHANGED <<nextID, sessions, consumerGen, fired, replaced, teardown,
                   onEvicts, cancelling>>

(* A missing session or a stale owner is a no-op.                          *)
Detach(id, gen) ==
    IF IsOwner(id, gen) THEN DetachOwned(id) ELSE UNCHANGED registryVars

TimerFires(id, epoch) ==
    /\ <<id, epoch>> \in timers
    /\ timers' = timers \ {<<id, epoch>>}
    /\ fired' = fired \union {<<id, epoch>>}
    /\ UNCHANGED <<nextID, sessions, consumerCancel, consumerGen, evictAt,
                   evictEpoch, replaced, ctxDone, teardown, onEvicts,
                   cancelling>>

(* What Cancel and evictFire do to the maps before teardown starts.        *)
Remove(id) ==
    /\ sessions' = sessions \ {id}
    /\ evictAt' = [evictAt EXCEPT ![id] = 0]
    /\ evictEpoch' = [evictEpoch EXCEPT ![id] = 0]
    /\ teardown' = [teardown EXCEPT ![id] = "consumer"]

EpochCurrent(id, epoch) == evictEpoch[id] = epoch

evictFire(id, epoch) ==
    /\ <<id, epoch>> \in fired
    /\ fired' = fired \ {<<id, epoch>>}
    /\ IF EpochCurrent(id, epoch) /\ id \in sessions
       THEN Remove(id)
       ELSE UNCHANGED <<sessions, evictAt, evictEpoch, teardown>>
    /\ UNCHANGED <<nextID, consumerCancel, consumerGen, timers, replaced,
                   ctxDone, onEvicts, cancelling>>

(* Mutant of Reattach: the epoch is not bumped.                            *)
ReattachSameEpoch(id) ==
    /\ id \in sessions
    /\ timers' = StopTimer(id)
    /\ evictAt' = [evictAt EXCEPT ![id] = 0]
    /\ UNCHANGED <<nextID, sessions, consumerCancel, consumerGen, evictEpoch,
                   fired, replaced, ctxDone, teardown, onEvicts, cancelling>>

Reattach(id) ==
    /\ id \in sessions
    /\ evictEpoch[id] < MaxEpoch
    /\ timers' = StopTimer(id)
    /\ evictAt' = [evictAt EXCEPT ![id] = 0]
    /\ evictEpoch' = [evictEpoch EXCEPT ![id] = @ + 1]
    /\ UNCHANGED <<nextID, sessions, consumerCancel, consumerGen, fired,
                   replaced, ctxDone, teardown, onEvicts, cancelling>>

CancelLive(id) ==
    /\ timers' = StopTimer(id)
    /\ Remove(id)
    /\ UNCHANGED <<nextID, consumerCancel, consumerGen, fired, replaced,
                   ctxDone, onEvicts>>

(* Mutant of Cancel: no early return when the entry is missing.            *)
CancelTwice(id) == id <= nextID /\ CancelLive(id) /\ UNCHANGED cancelling

(* Idempotent: a second Cancel finds no entry.                             *)
Cancel(id) ==
    IF id \in sessions THEN CancelLive(id) /\ UNCHANGED cancelling
    ELSE UNCHANGED registryVars

teardownConsumer(id) ==
    /\ teardown[id] = "consumer"
    /\ CancelBound(id)
    /\ teardown' = [teardown EXCEPT ![id] = "producer"]
    /\ UNCHANGED <<nextID, sessions, consumerGen, evictAt, evictEpoch, timers,
                   fired, replaced, onEvicts, cancelling>>

(* ProducerCancel, Retain.Close and onEvict.                               *)
teardownProducer(id) ==
    /\ teardown[id] = "producer"
    /\ teardown' = [teardown EXCEPT ![id] = "done"]
    /\ onEvicts' = [onEvicts EXCEPT ![id] = @ + 1]
    /\ UNCHANGED <<nextID, sessions, consumerCancel, consumerGen, evictAt,
                   evictEpoch, timers, fired, replaced, ctxDone, cancelling>>

(* CancelAll snapshots the ids under r.mu, then Cancels each outside it.   *)
CancelAll ==
    /\ cancelling = {}
    /\ cancelling' = sessions
    /\ UNCHANGED <<nextID, sessions, consumerCancel, consumerGen, evictAt,
                   evictEpoch, timers, fired, replaced, ctxDone, teardown,
                   onEvicts>>

CancelAllNext(id) ==
    /\ id \in cancelling
    /\ cancelling' = cancelling \ {id}
    /\ IF id \in sessions THEN CancelLive(id)
       ELSE UNCHANGED <<nextID, sessions, consumerCancel, consumerGen, evictAt,
                        evictEpoch, timers, fired, replaced, ctxDone, teardown,
                        onEvicts>>

RegistryNext ==
    \/ Register
    \/ CancelAll
    \/ \E id \in Ids :
          \/ BindConsumerChecked(id)
          \/ Reattach(id)
          \/ Cancel(id)
          \/ CancelAllNext(id)
          \/ teardownConsumer(id)
          \/ teardownProducer(id)
          \/ \E gen \in 0..MaxGen : Detach(id, gen) \/ CancelReplaced(id, gen)
          \/ \E e \in Epochs : TimerFires(id, e) \/ evictFire(id, e)

RegistrySpec == RegistryInit /\ [][RegistryNext]_registryVars

-----------------------------------------------------------------------------

(* The registry's maps hold ids, generations and epochs of their types.    *)
RegistryTypeOK ==
    /\ nextID \in 0..MaxID
    /\ sessions \subseteq 1..nextID
    /\ consumerCancel \in [Ids -> 0..MaxGen]
    /\ consumerGen \in [Ids -> 0..MaxGen]
    /\ evictAt \in [Ids -> 0..MaxEpoch]
    /\ evictEpoch \in [Ids -> 0..MaxEpoch]
    /\ timers \subseteq Ids \X Epochs
    /\ fired \subseteq Ids \X Epochs
    /\ replaced \subseteq Ids \X Gens
    /\ ctxDone \subseteq Ids \X Gens
    /\ teardown \in [Ids -> Stages]
    /\ onEvicts \in [Ids -> Nat]
    /\ cancelling \subseteq Ids

(* MaxConcurrent bounds the live sessions (Register's ErrAtCapacity).      *)
CapacityRespected == Cardinality(sessions) <= MaxConcurrent

(* A resume takeover never leaves two consumers draining one retain buffer *)
(* (BindConsumerChecked): every context ever bound is cancelled, or is the *)
(* current binding, or is owed a cancel by the takeover that replaced it.  *)
NoLostConsumer ==
    \A id \in Ids : \A gen \in 1..consumerGen[id] :
        \/ <<id, gen>> \in ctxDone
        \/ <<id, gen>> \in replaced
        \/ gen = consumerCancel[id]

(* The membership check and the install are one critical section, so once  *)
(* teardown has cancelled the consumer of a removed session no context of  *)
(* that session is left running (bar one whose takeover is about to cancel *)
(* it): no orphan consumer can emit a late Eos.                            *)
NoOrphanConsumer ==
    \A id \in Ids : teardown[id] \in {"producer", "done"} =>
        \A gen \in 1..consumerGen[id] : <<id, gen>> \in ctxDone \union replaced

(* A timer callback that fired and waits for r.mu can only evict when it   *)
(* is the arming still in force: after a Reattach or a re-arm its epoch is *)
(* stale (evictFire).                                                      *)
StaleTimerHarmless ==
    \A id \in sessions, epoch \in Epochs :
        /\ <<id, epoch>> \in fired
        /\ EpochCurrent(id, epoch)
        => evictAt[id] = epoch

(* teardown runs at most once per session, only after it left the map, so  *)
(* onEvict (the active-session gauge) fires once however Cancel, eviction  *)
(* and CancelAll overlap.                                                  *)
TeardownOnce ==
    \A id \in Ids :
        /\ onEvicts[id] = IF teardown[id] = "done" THEN 1 ELSE 0
        /\ id \in sessions => teardown[id] = "none"

(* The strengthening that is inductive: the installed cancel function is   *)
(* the one of the newest generation; a session with a teardown is neither  *)
(* live nor yet to come; no timer is newer than the epoch of its session,  *)
(* and a pending or fired timer of the current epoch is the armed one.     *)
BindingIsNewest ==
    \A id \in Ids : consumerCancel[id] \in {0, consumerGen[id]}

TeardownIsFinal ==
    \A id \in Ids :
        /\ teardown[id] # "none" => id <= nextID
        /\ teardown[id] \in {"producer", "done"} => consumerCancel[id] = 0

TimersAreOld ==
    \A id \in Ids, e \in Epochs :
        <<id, e>> \in timers \union fired =>
            /\ id <= nextID
            /\ id \in sessions => e <= evictEpoch[id]
            /\ id \in sessions /\ EpochCurrent(id, e) => evictAt[id] = e

RegistryInv ==
    /\ RegistryTypeOK
    /\ BindingIsNewest
    /\ NoLostConsumer
    /\ TeardownIsFinal
    /\ TeardownOnce
    /\ TimersAreOld
=============================================================================
