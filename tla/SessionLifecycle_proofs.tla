----------------------- MODULE SessionLifecycle_proofs -----------------------
(***************************************************************************)
(* Proofs about the session registry and the connection handlers that call *)
(* it, for every number of connections, sessions, bindings and eviction    *)
(* epochs.                                                                 *)
(*                                                                         *)
(* First the registry by itself: RegistryInv is inductive, and the         *)
(* invariants the runs check follow from it, except the capacity bound,    *)
(* which has its own induction over the cardinality of the map.  Then the  *)
(* handlers: whatever the goroutines do, each of their steps is one        *)
(* operation of the registry or leaves it alone, so that all of the above  *)
(* holds of them; and a consumer is cancelled for a reason.                *)
(***************************************************************************)
EXTENDS SessionLifecycle, TLAPS

(* Where the counters of a session step to: the next generation or epoch,  *)
(* and the installed generation of a session that has one.                 *)
LEMMA Successors ==
    /\ \A g \in 0..MaxGen : g < MaxGen => g + 1 \in Gens /\ g + 1 \in 0..MaxGen
    /\ \A g \in 0..MaxGen : g # 0 => g \in Gens
    /\ \A e \in 0..MaxEpoch :
          e < MaxEpoch => e + 1 \in Epochs /\ e + 1 \in 0..MaxEpoch
    /\ 0 \in 0..MaxGen /\ 0 \in 0..MaxEpoch
    /\ \A n \in 0..MaxID : n < MaxID => n + 1 \in 0..MaxID /\ n + 1 \in 1..(n + 1)
    /\ \A n \in 0..MaxID : 1..n \subseteq Ids /\ 1..n \subseteq 1..(n + 1)
BY RegistryConstants DEF RegistryConstants, Gens, Epochs, Ids

(* Removing an entry leaves the maps well typed.                           *)
LEMMA RemoveTypes ==
    ASSUME RegistryTypeOK, NEW id \in Ids, Remove(id)
    PROVE  /\ sessions' \subseteq 1..nextID
           /\ evictAt' \in [Ids -> 0..MaxEpoch]
           /\ evictEpoch' \in [Ids -> 0..MaxEpoch]
           /\ teardown' \in [Ids -> Stages]
<1>1. sessions' \subseteq 1..nextID
    BY Zenon DEF RegistryTypeOK, Remove
<1>2. "consumer" \in Stages
    BY Zenon DEF Stages
<1> QED  BY <1>1, <1>2, Successors DEF RegistryTypeOK, Remove

(* The types are preserved by every operation of the registry.             *)
LEMMA TypeStep ==
    RegistryTypeOK /\ [RegistryNext]_registryVars => RegistryTypeOK'
<1> SUFFICES ASSUME RegistryTypeOK, [RegistryNext]_registryVars
             PROVE  RegistryTypeOK'
    OBVIOUS
<1> USE Successors DEF RegistryTypeOK
<1>1. CASE Register
    BY <1>1 DEF Register, RegisterUnchecked
<1>2. CASE CancelAll
    BY <1>2 DEF CancelAll
<1>3. ASSUME NEW id \in Ids, BindConsumerChecked(id)
      PROVE  RegistryTypeOK'
    BY <1>3 DEF BindConsumerChecked, InstallConsumer, OwePrev
<1>4. ASSUME NEW id \in Ids, Reattach(id)
      PROVE  RegistryTypeOK'
    BY <1>4 DEF Reattach, StopTimer
<1>5. ASSUME NEW id \in Ids, Cancel(id)
      PROVE  RegistryTypeOK'
    <2>1. CASE id \in sessions
        BY <1>5, <2>1, RemoveTypes, Zenon DEF Cancel, CancelLive, StopTimer
    <2>2. CASE id \notin sessions
        BY <1>5, <2>2, Zenon DEF Cancel, registryVars
    <2> QED  BY <2>1, <2>2
<1>6. ASSUME NEW id \in Ids, CancelAllNext(id)
      PROVE  RegistryTypeOK'
    <2>1. CASE id \in sessions
        BY <1>6, <2>1, RemoveTypes DEF CancelAllNext, CancelLive, StopTimer
    <2>2. CASE id \notin sessions
        BY <1>6, <2>2, Zenon DEF CancelAllNext
    <2> QED  BY <2>1, <2>2
<1>7. ASSUME NEW id \in Ids, teardownConsumer(id)
      PROVE  RegistryTypeOK'
    BY <1>7 DEF teardownConsumer, CancelBound, Stages
<1>8. ASSUME NEW id \in Ids, teardownProducer(id)
      PROVE  RegistryTypeOK'
    BY <1>8 DEF teardownProducer, Stages
<1>9. ASSUME NEW id \in Ids, NEW gen \in 0..MaxGen, Detach(id, gen)
      PROVE  RegistryTypeOK'
    <2>1. CASE IsOwner(id, gen)
        <3>1. /\ consumerCancel' \in [Ids -> 0..MaxGen]
              /\ ctxDone' \subseteq Ids \X Gens
            BY <1>9, <2>1 DEF Detach, DetachOwned, CancelBound
        <3>2. /\ evictEpoch' \in [Ids -> 0..MaxEpoch]
              /\ evictAt' \in [Ids -> 0..MaxEpoch]
              /\ timers' \subseteq Ids \X Epochs
            BY <1>9, <2>1 DEF Detach, DetachOwned, armEvictLocked, StopTimer
        <3> QED  BY <1>9, <2>1, <3>1, <3>2, Zenon DEF Detach, DetachOwned
    <2>2. CASE ~IsOwner(id, gen)
        BY <1>9, <2>2, Zenon DEF Detach, registryVars
    <2> QED  BY <2>1, <2>2
<1>10. ASSUME NEW id \in Ids, NEW gen \in 0..MaxGen, CancelReplaced(id, gen)
       PROVE  RegistryTypeOK'
    BY <1>10 DEF CancelReplaced
<1>11. ASSUME NEW id \in Ids, NEW e \in Epochs, TimerFires(id, e)
       PROVE  RegistryTypeOK'
    BY <1>11 DEF TimerFires
<1>12. ASSUME NEW id \in Ids, NEW e \in Epochs, evictFire(id, e)
       PROVE  RegistryTypeOK'
    <2>1. CASE EpochCurrent(id, e) /\ id \in sessions
        BY <1>12, <2>1, RemoveTypes DEF evictFire
    <2>2. CASE ~(EpochCurrent(id, e) /\ id \in sessions)
        BY <1>12, <2>2, Zenon DEF evictFire
    <2> QED  BY <2>1, <2>2
<1>13. CASE UNCHANGED registryVars
    BY <1>13, Zenon DEF registryVars
<1> QED
    BY <1>1, <1>2, <1>3, <1>4, <1>5, <1>6, <1>7, <1>8, <1>9, <1>10, <1>11,
       <1>12, <1>13 DEF RegistryNext

(* Which steps touch the consumer bindings: a bind, the cancel a takeover  *)
(* owes, an owner's Detach and the first half of teardown.                 *)
LEMMA BindingFrame ==
    ASSUME [RegistryNext]_registryVars
    PROVE  \/ UNCHANGED <<consumerCancel, consumerGen, replaced, ctxDone>>
           \/ \E id \in Ids : BindConsumerChecked(id)
           \/ \E id \in Ids, gen \in 0..MaxGen : CancelReplaced(id, gen)
           \/ \E id \in Ids : DetachOwned(id) \/ teardownConsumer(id)
BY DEF RegistryNext, registryVars, Register, RegisterUnchecked, CancelAll,
       Reattach, Cancel, CancelLive, CancelAllNext, teardownProducer, Detach,
       TimerFires, evictFire

(* What a bind preserves: the newest context is installed, and the one it  *)
(* replaces is owed a cancel.                                              *)
LEMMA BindStep ==
    ASSUME RegistryTypeOK, BindingIsNewest, NoLostConsumer,
           NEW id \in Ids, BindConsumerChecked(id)
    PROVE  BindingIsNewest' /\ NoLostConsumer'
<1> USE DEF RegistryTypeOK, BindConsumerChecked, InstallConsumer, OwePrev
<1>1. BindingIsNewest'
    BY DEF BindingIsNewest
<1>2. ASSUME NEW i \in Ids, NEW g \in 1..consumerGen'[i]
      PROVE  <<i, g>> \in ctxDone' \/ <<i, g>> \in replaced' \/ g = consumerCancel'[i]
    <2>1. CASE i # id
        BY <2>1, <1>2 DEF NoLostConsumer
    <2>2. CASE i = id /\ g = consumerGen[id] + 1
        BY <2>2
    <2>3. CASE i = id /\ g # consumerGen[id] + 1
        <3>1. g \in 1..consumerGen[id]
            BY <2>3, <1>2
        <3>2. <<id, g>> \in ctxDone \/ <<id, g>> \in replaced \/ g = consumerCancel[id]
            BY <3>1 DEF NoLostConsumer
        <3> QED  BY <2>3, <3>1, <3>2
    <2> QED  BY <2>1, <2>2, <2>3
<1> QED  BY <1>1, <1>2 DEF NoLostConsumer

(* Cancelling the installed context of a session (Detach, teardown) loses  *)
(* no context.                                                             *)
LEMMA CancelBoundStep ==
    ASSUME RegistryTypeOK, BindingIsNewest, NoLostConsumer,
           NEW id \in Ids, CancelBound(id), UNCHANGED <<consumerGen, replaced>>
    PROVE  BindingIsNewest' /\ NoLostConsumer'
<1> USE DEF RegistryTypeOK, CancelBound
<1>1. BindingIsNewest'
    BY DEF BindingIsNewest
<1>2. ASSUME NEW i \in Ids, NEW g \in 1..consumerGen[i]
      PROVE  <<i, g>> \in ctxDone' \/ <<i, g>> \in replaced' \/ g = consumerCancel'[i]
    <2>1. <<i, g>> \in ctxDone \/ <<i, g>> \in replaced \/ g = consumerCancel[i]
        BY DEF NoLostConsumer
    <2>2. CASE i # id
        BY <2>1, <2>2
    <2>3. CASE i = id
        BY <2>1, <2>3
    <2> QED  BY <2>2, <2>3
<1> QED  BY <1>1, <1>2 DEF NoLostConsumer

(* The bindings stay consistent through every step.                        *)
LEMMA BindingsStep ==
    ASSUME RegistryTypeOK, BindingIsNewest, NoLostConsumer,
           [RegistryNext]_registryVars
    PROVE  BindingIsNewest' /\ NoLostConsumer'
<1>1. CASE UNCHANGED <<consumerCancel, consumerGen, replaced, ctxDone>>
    BY <1>1 DEF BindingIsNewest, NoLostConsumer
<1>2. ASSUME NEW id \in Ids, BindConsumerChecked(id)
      PROVE  BindingIsNewest' /\ NoLostConsumer'
    BY <1>2, BindStep
<1>3. ASSUME NEW id \in Ids, NEW gen \in 0..MaxGen, CancelReplaced(id, gen)
      PROVE  BindingIsNewest' /\ NoLostConsumer'
    BY <1>3 DEF CancelReplaced, BindingIsNewest, NoLostConsumer
<1>4. ASSUME NEW id \in Ids, DetachOwned(id) \/ teardownConsumer(id)
      PROVE  BindingIsNewest' /\ NoLostConsumer'
    BY <1>4, CancelBoundStep, Zenon DEF DetachOwned, teardownConsumer
<1> QED  BY <1>1, <1>2, <1>3, <1>4, BindingFrame

(* A removed session is torn down once and for good.                       *)
LEMMA TeardownStep ==
    ASSUME RegistryTypeOK, TeardownIsFinal, TeardownOnce,
           [RegistryNext]_registryVars
    PROVE  TeardownIsFinal' /\ TeardownOnce'
<1> USE DEF RegistryTypeOK, TeardownIsFinal, TeardownOnce
<1>1. CASE Register
    BY <1>1 DEF Register, RegisterUnchecked, Ids
<1>2. ASSUME NEW id \in Ids, BindConsumerChecked(id)
      PROVE  TeardownIsFinal' /\ TeardownOnce'
    BY <1>2 DEF BindConsumerChecked, InstallConsumer
<1>3. ASSUME NEW id \in sessions, Remove(id),
             UNCHANGED <<nextID, onEvicts, consumerCancel>>
      PROVE  TeardownIsFinal' /\ TeardownOnce'
    <2>1. id \in Ids /\ id <= nextID /\ teardown[id] = "none"
        BY RegistryConstants DEF RegistryConstants, Ids
    <2> QED  BY <1>3, <2>1 DEF Remove
<1>4. ASSUME NEW id \in Ids, teardownConsumer(id)
      PROVE  TeardownIsFinal' /\ TeardownOnce'
    BY <1>4 DEF teardownConsumer, CancelBound
<1>5. ASSUME NEW id \in Ids, teardownProducer(id)
      PROVE  TeardownIsFinal' /\ TeardownOnce'
    BY <1>5 DEF teardownProducer
<1>6. ASSUME NEW id \in Ids, DetachOwned(id)
      PROVE  TeardownIsFinal' /\ TeardownOnce'
    BY <1>6 DEF DetachOwned, CancelBound
<1>7. CASE UNCHANGED <<nextID, sessions, teardown, onEvicts, consumerCancel>>
    BY <1>7, Zenon
<1>8. \/ Register
      \/ \E id \in Ids : \/ BindConsumerChecked(id) \/ DetachOwned(id)
                         \/ teardownConsumer(id) \/ teardownProducer(id)
      \/ \E id \in sessions :
            Remove(id) /\ UNCHANGED <<nextID, onEvicts, consumerCancel>>
      \/ UNCHANGED <<nextID, sessions, teardown, onEvicts, consumerCancel>>
    BY DEF RegistryNext, registryVars, CancelAll, Reattach, Cancel, CancelLive,
           CancelAllNext, Detach, CancelReplaced, TimerFires, evictFire
<1> QED  BY <1>1, <1>2, <1>3, <1>4, <1>5, <1>6, <1>7, <1>8

(* The epoch guard: bumping the epoch makes every older timer stale.       *)
LEMMA TimersStep ==
    ASSUME RegistryTypeOK, TimersAreOld, [RegistryNext]_registryVars
    PROVE  TimersAreOld'
<1> USE DEF RegistryTypeOK, TimersAreOld, EpochCurrent
<1>1. CASE Register
    <2> SUFFICES ASSUME NEW i \in Ids, NEW t \in Epochs,
                        <<i, t>> \in timers \union fired
                 PROVE  /\ i <= nextID'
                        /\ i \in sessions' => t <= evictEpoch[i]
                        /\ i \in sessions' /\ evictEpoch[i] = t => evictAt[i] = t
        BY <1>1 DEF Register, RegisterUnchecked
    <2>1. i <= nextID /\ i # nextID + 1
        BY DEF Ids
    <2> QED  BY <1>1, <2>1 DEF Register, RegisterUnchecked, Ids
<1>2. ASSUME NEW id \in sessions, Remove(id), fired' \subseteq fired,
             timers' \subseteq timers, UNCHANGED nextID
      PROVE  TimersAreOld'
    BY <1>2 DEF Remove
<1>3. ASSUME NEW id \in Ids, NEW e \in Epochs, TimerFires(id, e)
      PROVE  TimersAreOld'
    BY <1>3 DEF TimerFires
<1>4. ASSUME NEW id \in Ids, DetachOwned(id), id \in sessions
      PROVE  TimersAreOld'
    <2> USE <1>4 DEF DetachOwned, armEvictLocked, StopTimer
    <2> SUFFICES ASSUME NEW i \in Ids, NEW t \in Epochs,
                        <<i, t>> \in timers' \union fired'
                 PROVE  /\ i <= nextID
                        /\ i \in sessions => t <= evictEpoch'[i]
                        /\ i \in sessions /\ evictEpoch'[i] = t => evictAt'[i] = t
        OBVIOUS
    <2>1. CASE i # id
        BY <2>1
    <2>2. CASE i = id /\ <<i, t>> \in timers \union fired
        BY <2>2 DEF Epochs
    <2>3. CASE i = id /\ t = evictEpoch[id] + 1
        BY <2>3 DEF Ids
    <2> QED  BY <2>1, <2>2, <2>3
<1>5. ASSUME NEW id \in Ids, Reattach(id)
      PROVE  TimersAreOld'
    BY <1>5 DEF Reattach, StopTimer, Epochs
<1>6. CASE /\ UNCHANGED <<nextID, sessions, evictAt, evictEpoch, timers>>
           /\ fired' \subseteq fired
    BY <1>6, Zenon
<1>7. \/ Register
      \/ \E id \in Ids : Reattach(id) \/ (DetachOwned(id) /\ id \in sessions)
      \/ \E id \in Ids, e \in Epochs : TimerFires(id, e)
      \/ \E id \in sessions : /\ Remove(id) /\ fired' \subseteq fired
                              /\ timers' \subseteq timers /\ UNCHANGED nextID
      \/ /\ UNCHANGED <<nextID, sessions, evictAt, evictEpoch, timers>>
         /\ fired' \subseteq fired
    BY DEF RegistryNext, registryVars, CancelAll, Cancel, CancelLive, StopTimer,
           CancelAllNext, Detach, IsOwner, CancelReplaced, evictFire,
           BindConsumerChecked, InstallConsumer, teardownConsumer,
           teardownProducer
<1> QED  BY <1>1, <1>2, <1>3, <1>4, <1>5, <1>6, <1>7

-----------------------------------------------------------------------------

(* RegistryInv holds initially and is preserved by every step.             *)
THEOREM RegistryInductive == RegistrySpec => []RegistryInv
<1>1. RegistryInit => RegistryInv
    <2> SUFFICES ASSUME RegistryInit PROVE RegistryInv
        OBVIOUS
    <2> USE RegistryConstants DEF RegistryConstants, RegistryInit, Ids, Epochs
    <2>1. RegistryTypeOK
        BY DEF RegistryTypeOK, Stages
    <2>2. BindingIsNewest /\ NoLostConsumer
        BY DEF BindingIsNewest, NoLostConsumer
    <2>3. TeardownIsFinal /\ TeardownOnce /\ TimersAreOld
        BY DEF TeardownIsFinal, TeardownOnce, TimersAreOld
    <2> QED  BY <2>1, <2>2, <2>3 DEF RegistryInv
<1>2. RegistryInv /\ [RegistryNext]_registryVars => RegistryInv'
    BY TypeStep, BindingsStep, TeardownStep, TimersStep DEF RegistryInv
<1> QED  BY <1>1, <1>2, PTL DEF RegistrySpec

(* Every operation keeps the registry's maps well typed.                   *)
THEOREM RegistryTypeCorrect == RegistrySpec => []RegistryTypeOK
<1>1. RegistryInv => RegistryTypeOK
    BY DEF RegistryInv
<1> QED  BY <1>1, RegistryInductive, PTL

(* No takeover loses a consumer context, whatever the number of resumes.   *)
THEOREM NoConsumerIsLost == RegistrySpec => []NoLostConsumer
<1>1. RegistryInv => NoLostConsumer
    BY DEF RegistryInv
<1> QED  BY <1>1, RegistryInductive, PTL

(* After teardown of a session none of its consumers is left behind.       *)
THEOREM NoConsumerIsOrphaned == RegistrySpec => []NoOrphanConsumer
<1>1. RegistryInv => NoOrphanConsumer
    <2> SUFFICES ASSUME RegistryInv, NEW id \in Ids,
                        teardown[id] \in {"producer", "done"},
                        NEW gen \in 1..consumerGen[id]
                 PROVE  <<id, gen>> \in ctxDone \union replaced
        BY DEF NoOrphanConsumer
    <2>1. consumerCancel[id] = 0
        BY DEF RegistryInv, TeardownIsFinal
    <2>2. gen # 0
        BY DEF RegistryInv, RegistryTypeOK
    <2> QED  BY <2>1, <2>2 DEF RegistryInv, NoLostConsumer
<1> QED  BY <1>1, RegistryInductive, PTL

(* The epoch guard is enough: a stale fired timer never evicts.            *)
THEOREM StaleTimersAreHarmless == RegistrySpec => []StaleTimerHarmless
<1>1. RegistryInv => StaleTimerHarmless
    <2>1. RegistryTypeOK => sessions \subseteq Ids
        BY Successors DEF RegistryTypeOK
    <2> QED  BY <2>1, Zenon DEF RegistryInv, TimersAreOld, StaleTimerHarmless
<1> QED  BY <1>1, RegistryInductive, PTL

(* Cancel, eviction and CancelAll tear a session down once between them.   *)
THEOREM TornDownOnce == RegistrySpec => []TeardownOnce
<1>1. RegistryInv => TeardownOnce
    BY DEF RegistryInv
<1> QED  BY <1>1, RegistryInductive, PTL

-----------------------------------------------------------------------------
(* The handlers.                                                           *)

(* The operations of the registry, on ids that are in its maps.            *)
LEMMA Operations ==
    /\ Register \/ CancelAll => RegistryNext
    /\ \A id \in Ids :
          \/ BindConsumerChecked(id) \/ Reattach(id) \/ Cancel(id)
          \/ CancelAllNext(id) \/ teardownConsumer(id) \/ teardownProducer(id)
          => RegistryNext
    /\ \A id \in Ids, gen \in 0..MaxGen :
          Detach(id, gen) \/ CancelReplaced(id, gen) => RegistryNext
    /\ \A id \in Ids, e \in Epochs :
          TimerFires(id, e) \/ evictFire(id, e) => RegistryNext
BY Zenon DEF RegistryNext

(* An id or a generation a handler passes to the registry may be stale;    *)
(* the registry then does nothing, and otherwise it is one of its own.     *)
LEMMA StaleCalls ==
    ASSUME RegistryTypeOK
    PROVE  /\ \A id : BindConsumerChecked(id) \/ Reattach(id) => RegistryNext
           /\ \A id : Cancel(id) => RegistryNext \/ UNCHANGED registryVars
           /\ \A id, gen : CancelReplaced(id, gen) => RegistryNext
           /\ \A id, gen :
                 Detach(id, gen) => RegistryNext \/ UNCHANGED registryVars
<1>1. sessions \subseteq Ids
    BY Successors DEF RegistryTypeOK
<1>2. ASSUME NEW id, BindConsumerChecked(id) \/ Reattach(id)
      PROVE  RegistryNext
    <2>1. id \in Ids
        BY <1>1, <1>2 DEF BindConsumerChecked, Reattach
    <2> QED  BY <1>2, <2>1, Operations, Zenon
<1>3. ASSUME NEW id, Cancel(id)
      PROVE  RegistryNext \/ UNCHANGED registryVars
    <2>1. CASE id \in sessions
        BY <1>1, <1>3, <2>1, Operations, Zenon
    <2>2. CASE id \notin sessions
        BY <1>3, <2>2, Zenon DEF Cancel
    <2> QED  BY <2>1, <2>2
<1>4. ASSUME NEW id, NEW gen, CancelReplaced(id, gen)
      PROVE  RegistryNext
    <2>1. id \in Ids /\ gen \in Gens
        BY <1>4 DEF CancelReplaced, RegistryTypeOK
    <2>2. Gens \subseteq 0..MaxGen
        BY RegistryConstants DEF RegistryConstants, Gens
    <2> QED  BY <1>4, <2>1, <2>2, Operations, Zenon
<1>5. ASSUME NEW id, NEW gen, Detach(id, gen)
      PROVE  RegistryNext \/ UNCHANGED registryVars
    <2>1. CASE IsOwner(id, gen)
        <3>1. id \in Ids /\ gen \in 0..MaxGen
            BY <1>1, <2>1 DEF IsOwner, RegistryTypeOK
        <3> QED  BY <1>5, <3>1, Operations, Zenon
    <2>2. CASE ~IsOwner(id, gen)
        BY <1>5, <2>2, Zenon DEF Detach
    <2> QED  BY <2>1, <2>2
<1> QED  BY <1>2, <1>3, <1>4, <1>5, Zenon

(* Every step of a handler, goroutine or timer is an operation of the      *)
(* registry or leaves the registry alone.                                  *)
LEMMA RegistryStep ==
    ASSUME RegistryTypeOK, [Next]_vars
    PROVE  [RegistryNext]_registryVars
<1>1. ASSUME NEW g \in Opens, OpenStep(g)
      PROVE  [RegistryNext]_registryVars
    <2>1. CASE openFresh(g)
        BY <2>1, Operations, Zenon DEF openFresh
    <2>2. CASE openResume(g)
        BY <2>2, StaleCalls, Zenon DEF openResume
    <2>3. CASE spawnBind(g)
        BY <2>3, StaleCalls, Zenon DEF spawnBind
    <2>4. CASE spawnReplace(g)
        BY <2>4, StaleCalls, Zenon DEF spawnReplace
    <2>5. CASE OpenFails(g) \/ spawnTrack(g) \/ spawnProducer(g)
        BY <2>5 DEF OpenFails, spawnTrack, spawnProducer
    <2> QED  BY <1>1, <2>1, <2>2, <2>3, <2>4, <2>5 DEF OpenStep
<1>2. ASSUME NEW c \in Conns, ReadLoopStep(c)
      PROVE  [RegistryNext]_registryVars
    <2>1. CASE handleCancelCancel(c)
        BY <2>1, StaleCalls, Zenon DEF handleCancelCancel
    <2>2. CASE \E k \in owedDetach[c] : detachNext(c, k)
        BY <2>2, StaleCalls, Zenon DEF detachNext
    <2>3. CASE handleCancelUntrack(c) \/ handleCancelReturns(c) \/ closeDone(c)
        BY <2>3, Zenon DEF handleCancelUntrack, handleCancelReturns, closeDone
    <2> QED  BY <1>2, <2>1, <2>2, <2>3 DEF ReadLoopStep
<1>3. ASSUME NEW k \in Ids \X Gens, ConsumerRuns(k) \/ consumerPanics(k)
      PROVE  [RegistryNext]_registryVars
    <2>1. CASE consumerTeardown(k)
        BY <2>1, StaleCalls, Zenon DEF consumerTeardown
    <2> QED
        BY <1>3, <2>1 DEF ConsumerRuns, consumerCtxDone, consumerDetached,
           consumerProducerDone, consumerEos, consumerDispose,
           consumerUntrack, consumerPanics, ConsumerOnly
<1>4. ASSUME NEW id \in Ids, ProducerReports(id) \/ producerEnds(id)
                             \/ producerFails(id)
      PROVE  [RegistryNext]_registryVars
    <2>1. CASE producerCancel(id)
        BY <2>1, StaleCalls, Zenon DEF producerCancel
    <2> QED
        BY <1>4, <2>1 DEF ProducerReports, producerUntrack, producerStopped,
           producerReport, producerEnds, producerFails
<1>5. ASSUME NEW id \in Ids, Timers(id) \/ Teardown(id)
      PROVE  [RegistryNext]_registryVars
    BY <1>5, Operations, Zenon DEF Timers, Teardown
<1>6. CASE gracefulShutdown
    BY <1>6, Operations, Zenon DEF gracefulShutdown
<1>7. ASSUME NEW c \in Conns,
             \/ Connect(c) \/ DispatchOpen(c) \/ WriteFails(c) \/ detachAll(c)
             \/ \E id \in Ids : handleCancel(c, id)
      PROVE  [RegistryNext]_registryVars
    BY <1>7 DEF Connect, DispatchOpen, WriteFails, detachAll, handleCancel
<1>8. CASE UNCHANGED vars
    BY <1>8 DEF vars
<1> QED
    BY <1>1, <1>2, <1>3, <1>4, <1>5, <1>6, <1>7, <1>8, Zenon DEF Next

(* The handlers of handlers_session.go use the registry only through its   *)
(* operations: the composed system implements the registry's specification. *)
THEOREM LifecycleRefinesRegistry == Spec => RegistrySpec
<1>1. Init => RegistryInit
    BY DEF Init
<1>2. RegistryInit => RegistryTypeOK
    BY RegistryConstants, Successors
    DEF RegistryConstants, RegistryInit, RegistryTypeOK, Stages
<1>3. RegistryTypeOK /\ [Next]_vars => [RegistryNext]_registryVars
    BY RegistryStep
<1> QED  BY <1>1, <1>2, <1>3, TypeStep, PTL DEF Spec, RegistrySpec

-----------------------------------------------------------------------------
(* What the argument for CancelOrderly carries along.                      *)

(* A consumer context that a bind has created.                             *)
Bound(k) ==
    /\ k \in Ids \X Gens
    /\ k[1] <= nextID
    /\ k[2] <= consumerGen[k[1]]

(* A takeover owes its cancel to an older generation.                      *)
ReplacedOld == \A k \in replaced : k[2] < consumerGen[k[1]]

(* A session that has left the map is being torn down, or was.             *)
RemovedTornDown ==
    \A id \in Ids : id <= nextID => id \in sessions \/ teardown[id] # "none"

(* What detachAll still owes a Detach is flagged as detaching; a flagged   *)
(* handle is an id and a generation.                                       *)
OwedIsFlagged ==
    /\ owedDetach \in [Conns -> SUBSET detaching]
    /\ \A k \in detaching : k = <<k[1], k[2]>>

(* The types the handlers' steps rely on.                                  *)
HandlersTyped ==
    /\ consumer \in [Ids \X Gens -> ConsumerStates]
    /\ open \in [Opens -> [pc : OpenSteps, id : 0..MaxID, gen : 0..MaxGen,
                           fresh : BOOLEAN]]
    /\ known \subseteq Ids

(* A goroutine that spawnConsumer starts has a context of the registry.    *)
ConsumersBound ==
    /\ \A g \in Opens : open[g].pc \in {"replace", "track"} =>
                            Bound(<<open[g].id, open[g].gen>>)
    /\ \A k \in Ids \X Gens : consumer[k] # "none" => Bound(k)

(* Ids and generations of the registry only grow.                          *)
LEMMA BoundStays ==
    ASSUME RegistryTypeOK, [RegistryNext]_registryVars, NEW k, Bound(k)
    PROVE  Bound(k)'
<1>1. nextID' = nextID \/ nextID' = nextID + 1
    BY Zenon DEF RegistryNext, registryVars, Register, RegisterUnchecked, CancelAll,
           Reattach, Cancel, CancelLive, CancelAllNext, teardownConsumer,
           teardownProducer, Detach, DetachOwned, CancelReplaced, TimerFires,
           evictFire, BindConsumerChecked, InstallConsumer
<1>2. \A id \in Ids :
          consumerGen'[id] = consumerGen[id] \/ consumerGen'[id] = consumerGen[id] + 1
    BY BindingFrame, Zenon DEF RegistryTypeOK, BindConsumerChecked, InstallConsumer,
       CancelReplaced, DetachOwned, teardownConsumer
<1>3. nextID \in Nat /\ \A id \in Ids : consumerGen[id] \in Nat
    BY RegistryConstants DEF RegistryConstants, RegistryTypeOK
<1>4. k[1] \in Ids /\ k[1] \in Nat /\ k[2] \in Nat
    BY RegistryConstants DEF RegistryConstants, Bound, Ids, Gens
<1> QED  BY <1>1, <1>2, <1>3, <1>4 DEF Bound

(* The generation a bind replaces is the one before the new one.           *)
LEMMA ReplacedStep ==
    ASSUME RegistryTypeOK, BindingIsNewest, ReplacedOld,
           [RegistryNext]_registryVars
    PROVE  ReplacedOld'
<1> USE DEF RegistryTypeOK, ReplacedOld
<1>1. CASE UNCHANGED <<consumerCancel, consumerGen, replaced, ctxDone>>
    BY <1>1
<1>2. ASSUME NEW id \in Ids, BindConsumerChecked(id)
      PROVE  ReplacedOld'
    <2>1. \A i \in Ids : consumerGen[i] \in Nat /\ consumerCancel[i] \in Nat
        BY RegistryConstants DEF RegistryConstants
    <2>2. \A k \in replaced : k[1] \in Ids /\ k[2] \in Nat
        BY RegistryConstants DEF RegistryConstants, Gens
    <2>3. ASSUME NEW k \in replaced' PROVE k[2] < consumerGen'[k[1]]
        <3>1. CASE k \in replaced
            BY <1>2, <2>1, <2>2, <3>1 DEF BindConsumerChecked, InstallConsumer
        <3>2. CASE k = <<id, consumerCancel[id]>> /\ consumerCancel[id] # 0
            BY <1>2, <2>1, <3>2
            DEF BindConsumerChecked, InstallConsumer, BindingIsNewest
        <3> QED  BY <1>2, <2>3, <3>1, <3>2, Zenon DEF BindConsumerChecked, OwePrev
    <2> QED  BY <2>3
<1>3. ASSUME NEW id \in Ids, NEW gen \in 0..MaxGen, CancelReplaced(id, gen)
      PROVE  ReplacedOld'
    BY <1>3 DEF CancelReplaced
<1>4. ASSUME NEW id \in Ids, DetachOwned(id) \/ teardownConsumer(id)
      PROVE  ReplacedOld'
    BY <1>4 DEF DetachOwned, teardownConsumer
<1> QED  BY <1>1, <1>2, <1>3, <1>4, BindingFrame

(* A session leaves the map together with the start of its teardown.       *)
LEMMA RemovedStep ==
    ASSUME RegistryTypeOK, RemovedTornDown, [RegistryNext]_registryVars
    PROVE  RemovedTornDown'
<1> USE DEF RegistryTypeOK, RemovedTornDown
<1>1. CASE Register
    BY <1>1, RegistryConstants DEF Register, RegisterUnchecked, Ids, RegistryConstants
<1>2. ASSUME NEW id \in Ids, Remove(id), UNCHANGED nextID
      PROVE  RemovedTornDown'
    BY <1>2 DEF Remove
<1>3. ASSUME NEW id \in Ids, teardownConsumer(id) \/ teardownProducer(id)
      PROVE  RemovedTornDown'
    BY <1>3 DEF teardownConsumer, teardownProducer
<1>4. CASE UNCHANGED <<nextID, sessions, teardown>>
    BY <1>4, Zenon
<1>5. \/ Register
      \/ \E id \in Ids : Remove(id) /\ UNCHANGED nextID
      \/ \E id \in Ids : teardownConsumer(id) \/ teardownProducer(id)
      \/ UNCHANGED <<nextID, sessions, teardown>>
    BY DEF RegistryNext, registryVars, CancelAll, Reattach, Cancel, CancelLive,
           CancelAllNext, Detach, DetachOwned, CancelReplaced, TimerFires,
           evictFire, BindConsumerChecked, InstallConsumer
<1> QED  BY <1>1, <1>2, <1>3, <1>4, <1>5

(* detachAll flags its snapshot before it Detaches any of it.              *)
LEMMA OwedStep ==
    ASSUME OwedIsFlagged, [Next]_vars
    PROVE  OwedIsFlagged'
<1> USE DEF OwedIsFlagged
<1>1. ASSUME NEW c \in Conns, detachAll(c)
      PROVE  OwedIsFlagged'
    BY <1>1 DEF detachAll, Tracked
<1>2. ASSUME NEW c \in Conns, NEW k \in owedDetach[c], detachNext(c, k)
      PROVE  OwedIsFlagged'
    BY <1>2 DEF detachNext
<1>3. CASE UNCHANGED <<detaching, owedDetach>>
    BY <1>3
<1>4. \/ \E c \in Conns : detachAll(c)
      \/ \E c \in Conns : \E k \in owedDetach[c] : detachNext(c, k)
      \/ UNCHANGED <<detaching, owedDetach>>
    BY DEF Next, vars, handlerVars, handles, Connect, DispatchOpen, WriteFails,
           handleCancel, OpenStep, OpenFails, openFresh, openResume, spawnBind,
           spawnReplace, spawnTrack, spawnProducer, ReadLoopStep,
           handleCancelUntrack, handleCancelCancel, handleCancelReturns,
           closeDone, ConsumerRuns,
           consumerPanics, consumerCtxDone, consumerDetached,
           consumerProducerDone, consumerEos, consumerDispose, consumerUntrack,
           consumerTeardown, ConsumerOnly, ProducerReports, producerUntrack,
           producerCancel, producerStopped, producerReport, producerEnds, producerFails,
           ProducerOnly, Timers, Teardown, gracefulShutdown
<1> QED  BY <1>1, <1>2, <1>3, <1>4

(* Which steps touch the state of the spawning goroutines and consumers.   *)
LEMMA HandlerFrame ==
    ASSUME [Next]_vars
    PROVE  \/ UNCHANGED <<open, consumer, known>>
           \/ \E c \in Conns : DispatchOpen(c)
           \/ \E g \in Opens : OpenStep(g)
           \/ \E k \in Ids \X Gens : ConsumerRuns(k) \/ consumerPanics(k)
BY DEF Next, vars, handlerVars, client, streams, consumers, Connect, WriteFails,
       detachAll, handleCancel, ReadLoopStep, handleCancelUntrack,
       handleCancelCancel, handleCancelReturns, detachNext, closeDone,
       ProducerReports, producerUntrack, producerCancel, producerStopped, producerReport, producerEnds,
       producerFails, ProducerOnly, Timers, Teardown, gracefulShutdown

(* A step of a consumer goroutine moves it between its states.             *)
LEMMA ConsumerMoves ==
    ASSUME NEW k \in Ids \X Gens, ConsumerRuns(k) \/ consumerPanics(k)
    PROVE  /\ UNCHANGED <<open, known>>
           /\ consumer[k] # "none"
           /\ \E to \in ConsumerStates : consumer' = [consumer EXCEPT ![k] = to]
<1> USE DEF ConsumerStep, ConsumerStates
<1>1. CASE consumerDispose(k)
    <2>1. UNCHANGED <<open, known>>
        BY <1>1, Zenon DEF consumerDispose, ConsumerOnly, client
    <2> QED  BY <1>1, <2>1, Zenon DEF consumerDispose
<1>2. CASE consumerCtxDone(k) \/ consumerDetached(k) \/ consumerProducerDone(k)
           \/ consumerEos(k) \/ consumerPanics(k)
    BY <1>2, Zenon DEF consumerCtxDone, consumerDetached, consumerProducerDone,
       consumerEos, consumerPanics, ConsumerOnly, client
<1>3. CASE consumerUntrack(k) \/ consumerTeardown(k)
    BY <1>3, Zenon DEF consumerUntrack, consumerTeardown, client
<1> QED  BY <1>1, <1>2, <1>3 DEF ConsumerRuns

(* A dispatched request starts a goroutine that holds no generation yet.   *)
LEMMA DispatchKeeps ==
    ASSUME HandlersTyped, ConsumersBound, \A k : Bound(k) => Bound(k)',
           NEW c \in Conns, DispatchOpen(c)
    PROVE  HandlersTyped' /\ ConsumersBound'
<1> DEFINE Requests == [pc : OpenSteps, id : 0..MaxID, gen : 0..MaxGen,
                        fresh : BOOLEAN]
           Starts(r) == /\ open' = [open EXCEPT ![<<c, opens + 1>>] = r]
                        /\ r.pc \notin {"replace", "track"}
<1>1. UNCHANGED <<consumer, known>>
    BY DEF DispatchOpen, streams, consumers
<1>2. \E r \in Requests : Starts(r)
    <2>1. CASE Starts([NoOpen EXCEPT !.pc = "planning"])
        <3>1. NoOpen \in Requests
            BY RegistryConstants DEF NoOpen, OpenSteps, RegistryConstants
        <3>2. [NoOpen EXCEPT !.pc = "planning"] \in Requests
            BY <3>1, Zenon DEF OpenSteps
        <3> HIDE DEF Requests, Starts
        <3> QED  BY <2>1, <3>2
    <2>2. ASSUME NEW id \in known,
                 Starts([pc |-> "resuming", id |-> id, gen |-> 0, fresh |-> FALSE])
          PROVE  \E r \in Requests : Starts(r)
        <3>1. [pc |-> "resuming", id |-> id, gen |-> 0, fresh |-> FALSE] \in Requests
            BY RegistryConstants DEF HandlersTyped, OpenSteps, RegistryConstants, Ids
        <3> HIDE DEF Requests, Starts
        <3> QED  BY <2>2, <3>1
    <2> QED  BY <2>1, <2>2 DEF DispatchOpen, NoOpen
<1>3. PICK r \in Requests : Starts(r)
    BY <1>2
<1>4. HandlersTyped'
    BY <1>1, <1>3, Zenon DEF HandlersTyped
<1>5. \A d \in Opens : open'[d] = open[d] \/ open'[d] = r
    BY <1>3, Zenon DEF HandlersTyped
<1> QED
    BY <1>1, <1>3, <1>4, <1>5, Zenon DEF ConsumersBound

(* The steps of an OpenSession goroutine keep the types, and it goes on to *)
(* track a consumer only with the generation its bind returned.            *)
LEMMA OpenKeeps ==
    ASSUME RegistryTypeOK, RegistryTypeOK', HandlersTyped, ConsumersBound,
           \A k : Bound(k) => Bound(k)',
           NEW g \in Opens, OpenStep(g)
    PROVE  HandlersTyped' /\ ConsumersBound'
<1> USE DEF HandlersTyped, ConsumersBound
<1> DEFINE Requests == [pc : OpenSteps, id : 0..MaxID, gen : 0..MaxGen,
                        fresh : BOOLEAN]
           Moves(r) == open' = [open EXCEPT ![g] = r]
           Known(id, gen) == /\ id \in Ids /\ id <= nextID'
                             /\ gen \in Gens /\ gen <= consumerGen'[id]
<1>1. NoOpen \in Requests /\ NoOpen.pc = "none"
    BY RegistryConstants DEF NoOpen, OpenSteps, RegistryConstants
<1>2. /\ open[g] \in Requests
      /\ \A k : Bound(k) => Known(k[1], k[2])
    BY Zenon DEF Bound
<1>3. ASSUME NEW r \in Requests, Moves(r), UNCHANGED consumer,
             known' \subseteq Ids,
             r.pc \in {"replace", "track"} => Known(r.id, r.gen)
      PROVE  HandlersTyped' /\ ConsumersBound'
    <2>1. HandlersTyped'
        BY <1>3, Zenon
    <2>2. ASSUME NEW d \in Opens, open'[d].pc \in {"replace", "track"}
          PROVE  Known(open'[d].id, open'[d].gen)
        <3>1. CASE d = g
            BY <1>3, <2>2, <3>1, Zenon
        <3>2. CASE d # g
            <4>1. Bound(<<open[d].id, open[d].gen>>)
                BY <1>3, <2>2, <3>2, Zenon
            <4>2. Known(open[d].id, open[d].gen)
                BY <1>2, <4>1
            <4> QED  BY <1>3, <3>2, <4>2
        <3> QED  BY <3>1, <3>2
    <2>3. ASSUME NEW k \in Ids \X Gens, consumer'[k] # "none"
          PROVE  Bound(k)'
        BY <1>3, <2>3, Zenon
    <2> QED  BY <2>1, <2>2, <2>3, Zenon DEF Bound
<1>4. CASE OpenFails(g) \/ spawnProducer(g)
    <2>1. Moves(NoOpen) /\ UNCHANGED <<consumer, known>>
        BY <1>4 DEF OpenFails, spawnProducer, streams, consumers, client
    <2> HIDE DEF Requests, Moves
    <2> QED  BY <1>1, <1>3, <2>1
<1>5. CASE openFresh(g)
    <2> DEFINE r == [pc |-> "bind", id |-> nextID', gen |-> 0, fresh |-> TRUE]
    <2>1. nextID' \in Ids
        BY <1>5, RegistryConstants DEF openFresh, Register, RegisterUnchecked,
           RegistryTypeOK, RegistryConstants, Ids
    <2>2. r \in Requests
        BY <2>1, RegistryConstants DEF OpenSteps, RegistryConstants, Ids
    <2>3. Moves(r) /\ UNCHANGED consumer /\ known' \subseteq Ids
        BY <1>5, <2>1 DEF openFresh, consumers
    <2> QED  BY <1>3, <2>2, <2>3, Zenon
<1>6. CASE openResume(g)
    <2>1. UNCHANGED <<consumer, known>>
        BY <1>6 DEF openResume, streams, consumers, client
    <2>2. CASE Moves([open[g] EXCEPT !.pc = "bind"])
        <3>1. [open[g] EXCEPT !.pc = "bind"] \in Requests
            BY <1>2, Zenon DEF OpenSteps
        <3> QED  BY <1>2, <1>3, <2>1, <2>2, <3>1
    <2>3. CASE Moves(NoOpen)
        <3> HIDE DEF Requests, Moves
        <3> QED  BY <1>1, <1>3, <2>1, <2>3
    <2> QED  BY <1>6, <2>2, <2>3 DEF openResume
<1>7. AfterSpawn(g) \in Requests /\ AfterSpawn(g).pc \notin {"replace", "track"}
    BY <1>1, <1>2 DEF AfterSpawn, OpenSteps
<1>8. CASE spawnBind(g)
    <2>1. UNCHANGED <<consumer, known>>
        BY <1>8 DEF spawnBind, streams, consumers, client
    <2>2. CASE Moves(AfterSpawn(g))
        <3> HIDE DEF Requests, Moves
        <3> QED  BY <1>3, <1>7, <2>1, <2>2
    <2>3. ASSUME BindConsumerChecked(open[g].id), NEW step \in {"track", "replace"},
                 Moves([open[g] EXCEPT !.pc = step, !.gen = consumerGen'[open[g].id]])
          PROVE  HandlersTyped' /\ ConsumersBound'
        <3> DEFINE id == open[g].id
                   r == [open[g] EXCEPT !.pc = step, !.gen = consumerGen'[id]]
        <3>1. id \in Ids /\ id <= nextID'
            BY <2>3, RegistryConstants DEF BindConsumerChecked, InstallConsumer,
               RegistryTypeOK, RegistryConstants, Ids
        <3>2. consumerGen'[id] \in Gens /\ consumerGen'[id] \in 0..MaxGen
            BY <2>3, <3>1, Successors DEF BindConsumerChecked, InstallConsumer,
               RegistryTypeOK
        <3>3. /\ r \in Requests
              /\ r.id = id /\ r.gen = consumerGen'[id]
            BY <1>2, <2>3, <3>2, Zenon DEF OpenSteps
        <3>4. Known(id, consumerGen'[id])
            BY <3>1, <3>2, RegistryConstants DEF Gens, RegistryConstants
        <3> QED  BY <1>3, <2>1, <2>3, <3>3, <3>4, Zenon
    <2> QED  BY <1>8, <2>2, <2>3, Zenon DEF spawnBind
<1>9. CASE spawnReplace(g)
    <2>1. UNCHANGED <<consumer, known>>
        BY <1>9 DEF spawnReplace, streams, consumers, client
    <2>2. Moves([open[g] EXCEPT !.pc = "track"])
        BY <1>9 DEF spawnReplace
    <2>3. [open[g] EXCEPT !.pc = "track"] \in Requests
        BY <1>2 DEF OpenSteps
    <2>4. Bound(<<open[g].id, open[g].gen>>)
        BY <1>9 DEF spawnReplace
    <2>5. Known(open[g].id, open[g].gen)
        BY <1>2, <2>4
    <2> QED  BY <1>2, <1>3, <2>1, <2>2, <2>3, <2>5, Zenon
<1>10. CASE spawnTrack(g)
    <2> DEFINE j == <<open[g].id, open[g].gen>>
    <2>1. j \in Ids \X Gens /\ Known(j[1], j[2])
        BY <1>2, <1>10, Zenon DEF spawnTrack, Bound
    <2>2. /\ Moves(AfterSpawn(g)) /\ UNCHANGED known
          /\ consumer' = [consumer EXCEPT ![j] = "running"]
        BY <1>10 DEF spawnTrack, client
    <2>3. HandlersTyped'
        <3>1. consumer' \in [Ids \X Gens -> ConsumerStates]
            BY <2>1, <2>2, Zenon DEF ConsumerStates
        <3> HIDE DEF j
        <3> QED  BY <1>7, <2>2, <3>1
    <2>4. ASSUME NEW d \in Opens, open'[d].pc \in {"replace", "track"}
          PROVE  Known(open'[d].id, open'[d].gen)
        <3>1. d # g /\ open'[d] = open[d]
            BY <1>7, <2>2, <2>4, Zenon
        <3>2. Bound(<<open[d].id, open[d].gen>>)
            BY <2>4, <3>1
        <3>3. Known(open[d].id, open[d].gen)
            BY <1>2, <3>2
        <3> QED  BY <3>1, <3>3
    <2>5. ASSUME NEW k \in Ids \X Gens, consumer'[k] # "none"
          PROVE  Known(k[1], k[2])
        <3>1. CASE k = j
            BY <2>1, <3>1, Zenon
        <3>2. CASE k # j
            BY <1>2, <2>2, <2>5, <3>2
        <3> QED  BY <3>1, <3>2, Zenon
    <2> QED  BY <2>3, <2>4, <2>5, Zenon DEF Bound
<1> QED
    BY <1>4, <1>5, <1>6, <1>8, <1>9, <1>10, Zenon DEF OpenStep

(* Every step keeps the types and the bindings of the goroutines.          *)
LEMMA HandlersStep ==
    ASSUME RegistryTypeOK, RegistryTypeOK', HandlersTyped, ConsumersBound,
           [Next]_vars
    PROVE  HandlersTyped' /\ ConsumersBound'
<1>1. \A k : Bound(k) => Bound(k)'
    BY RegistryStep, BoundStays
<1>2. CASE UNCHANGED <<open, consumer, known>>
    <2>1. HandlersTyped'
        BY <1>2, Zenon DEF HandlersTyped
    <2>2. ConsumersBound'
        BY <1>1, <1>2 DEF ConsumersBound, Bound
    <2> QED  BY <2>1, <2>2
<1>3. ASSUME NEW g \in Opens, OpenStep(g)
      PROVE  HandlersTyped' /\ ConsumersBound'
    BY <1>1, <1>3, OpenKeeps
<1>4. ASSUME NEW c \in Conns, DispatchOpen(c)
      PROVE  HandlersTyped' /\ ConsumersBound'
    BY <1>1, <1>4, DispatchKeeps
<1>5. ASSUME NEW k \in Ids \X Gens, ConsumerRuns(k) \/ consumerPanics(k)
      PROVE  HandlersTyped' /\ ConsumersBound'
    <2>1. /\ UNCHANGED <<open, known>>
          /\ consumer[k] # "none"
          /\ \E to \in ConsumerStates : consumer' = [consumer EXCEPT ![k] = to]
        BY <1>5, ConsumerMoves
    <2>2. HandlersTyped'
        BY <2>1 DEF HandlersTyped
    <2>3. \A j \in Ids \X Gens : consumer'[j] # "none" => consumer[j] # "none"
        BY <2>1, Zenon DEF HandlersTyped
    <2>4. ConsumersBound'
        BY <1>1, <2>1, <2>3 DEF ConsumersBound, Bound
    <2> QED  BY <2>2, <2>4
<1> QED  BY <1>2, <1>3, <1>4, <1>5, HandlerFrame

(* What is inductive: the registry's own invariant, and where the contexts *)
(* come from that handlers hold.                                           *)
CancelInv ==
    /\ RegistryInv /\ ReplacedOld /\ RemovedTornDown
    /\ OwedIsFlagged /\ HandlersTyped /\ ConsumersBound

LEMMA CancelInvHolds == Spec => []CancelInv
<1>1. Init => ReplacedOld /\ RemovedTornDown
    BY RegistryConstants DEF Init, RegistryInit, ReplacedOld, RemovedTornDown,
       RegistryConstants, Ids
<1>2. Init => OwedIsFlagged /\ HandlersTyped /\ ConsumersBound
    BY RegistryConstants DEF Init, OwedIsFlagged, HandlersTyped, ConsumersBound,
       NoOpen, OpenSteps, ConsumerStates, RegistryConstants
<1>3. ASSUME RegistryInv, RegistryInv', ReplacedOld, RemovedTornDown,
             OwedIsFlagged, HandlersTyped, ConsumersBound, [Next]_vars
      PROVE  /\ ReplacedOld' /\ RemovedTornDown'
             /\ OwedIsFlagged' /\ HandlersTyped' /\ ConsumersBound'
    <2>1. RegistryTypeOK /\ BindingIsNewest /\ RegistryTypeOK'
        BY <1>3 DEF RegistryInv
    <2>2. [RegistryNext]_registryVars
        BY <1>3, <2>1, RegistryStep
    <2>3. ReplacedOld' /\ RemovedTornDown'
        BY <1>3, <2>1, <2>2, ReplacedStep, RemovedStep
    <2>4. OwedIsFlagged'
        BY <1>3, OwedStep
    <2> QED  BY <1>3, <2>1, <2>3, <2>4, HandlersStep
<1> QED
    BY <1>1, <1>2, <1>3, LifecycleRefinesRegistry, RegistryInductive, PTL
    DEF Spec, CancelInv

(* Which steps cancel consumer contexts: the cancel a takeover owes, an    *)
(* owner's Detach and the first half of teardown.                          *)
LEMMA CancelFrame ==
    ASSUME [Next]_vars
    PROVE  \/ UNCHANGED ctxDone
           \/ \E g \in Opens : spawnReplace(g)
           \/ \E c \in Conns : \E k \in owedDetach[c] : detachNext(c, k)
           \/ \E id \in Ids : teardownConsumer(id)
<1>1. \A id : Cancel(id) \/ CancelAllNext(id) => UNCHANGED ctxDone
    BY Zenon DEF Cancel, CancelLive, CancelAllNext, registryVars
<1>2. ASSUME NEW g \in Opens, OpenStep(g), ~spawnReplace(g)
      PROVE  UNCHANGED ctxDone
    BY <1>2 DEF OpenStep, OpenFails, openFresh, openResume, spawnBind, spawnTrack,
       spawnProducer, registryVars, Register, RegisterUnchecked, Reattach,
       BindConsumerChecked, InstallConsumer
<1>3. ASSUME NEW c \in Conns, ReadLoopStep(c),
             ~\E k \in owedDetach[c] : detachNext(c, k)
      PROVE  UNCHANGED ctxDone
    BY <1>1, <1>3, Zenon DEF ReadLoopStep, handleCancelUntrack, handleCancelCancel,
       handleCancelReturns, closeDone, registryVars
<1>4. ASSUME NEW k \in Ids \X Gens, ConsumerRuns(k) \/ consumerPanics(k)
      PROVE  UNCHANGED ctxDone
    BY <1>1, <1>4, Zenon DEF ConsumerRuns, consumerPanics, consumerCtxDone,
       consumerDetached, consumerProducerDone, consumerEos, consumerDispose,
       consumerUntrack, consumerTeardown, ConsumerOnly, registryVars
<1>5. ASSUME NEW id \in Ids, ProducerReports(id) \/ producerEnds(id)
                             \/ producerFails(id)
      PROVE  UNCHANGED ctxDone
    BY <1>1, <1>5, Zenon DEF ProducerReports, producerUntrack, producerCancel,
       producerStopped,
       producerReport, producerEnds, producerFails, registryVars
<1>6. ASSUME NEW id \in Ids, Timers(id) \/ Teardown(id), ~teardownConsumer(id)
      PROVE  UNCHANGED ctxDone
    BY <1>6, Zenon DEF Timers, Teardown, TimerFires, evictFire, teardownProducer
<1>7. CASE gracefulShutdown
    BY <1>1, <1>7, Zenon DEF gracefulShutdown, CancelAll
<1>8. ASSUME NEW c \in Conns,
             \/ Connect(c) \/ DispatchOpen(c) \/ WriteFails(c) \/ detachAll(c)
             \/ \E id \in Ids : handleCancel(c, id)
      PROVE  UNCHANGED ctxDone
    BY <1>8 DEF Connect, DispatchOpen, WriteFails, detachAll, handleCancel,
       registryVars
<1>9. CASE UNCHANGED vars
    BY <1>9, Zenon DEF vars, registryVars
<1> QED
    BY <1>2, <1>3, <1>4, <1>5, <1>6, <1>7, <1>8, <1>9, Zenon DEF Next

(* A cancelled context was replaced, or its session removed, or its handle *)
(* flagged by detachAll.                                                   *)
LEMMA CancelCauses ==
    ASSUME CancelInv, [Next]_vars
    PROVE  CancelledForCause
<1> USE DEF CancelInv, RegistryInv, RegistryTypeOK, CancelledForCause
<1>1. CASE UNCHANGED ctxDone
    BY <1>1
<1>2. ASSUME NEW g \in Opens, spawnReplace(g)
      PROVE  CancelledForCause
    BY <1>2, Zenon DEF spawnReplace, CancelReplaced, ReplacedOld
<1>3. ASSUME NEW c \in Conns, NEW k \in owedDetach[c], detachNext(c, k)
      PROVE  CancelledForCause
    <2>1. k \in detaching /\ k = <<k[1], k[2]>>
        BY <1>3 DEF OwedIsFlagged
    <2>2. CASE IsOwner(k[1], k[2])
        <3>1. k[1] \in Ids /\ consumerGen[k[1]] = k[2]
            BY <2>2, Successors, Zenon DEF IsOwner
        <3>2. ctxDone' = IF consumerCancel[k[1]] = 0 THEN ctxDone
                         ELSE ctxDone \union {<<k[1], consumerCancel[k[1]]>>}
            BY <1>3, <2>2, Zenon DEF detachNext, Detach, DetachOwned, CancelBound
        <3>3. consumerCancel[k[1]] \in {0, k[2]}
            BY <3>1, Zenon DEF BindingIsNewest
        <3>4. ASSUME NEW j \in ctxDone' \ ctxDone
              PROVE  j = <<k[1], k[2]>>
            BY <3>2, <3>3
        <3> QED  BY <2>1, <3>4, Zenon
    <2>3. CASE ~IsOwner(k[1], k[2])
        BY <1>3, <2>3, Zenon DEF detachNext, Detach, registryVars
    <2> QED  BY <2>2, <2>3, Zenon
<1>4. ASSUME NEW id \in Ids, teardownConsumer(id)
      PROVE  CancelledForCause
    BY <1>4 DEF teardownConsumer, CancelBound, TeardownOnce
<1> QED  BY <1>1, <1>2, <1>3, <1>4, CancelFrame, Zenon

(* A consumer drains with a live context only: after the first half of     *)
(* teardown its context is cancelled, and one about to be cancelled was    *)
(* replaced.                                                               *)
LEMMA DrainsLive ==
    ASSUME CancelInv, NoOrphanConsumer, [Next]_vars
    PROVE  DrainStartsLive
<1> SUFFICES ASSUME NEW k \in Ids \X Gens,
                    consumer[k] # "draining", consumer'[k] = "draining"
             PROVE  \/ k[1] \in sessions
                    \/ teardown[k[1]] = "consumer"
                    \/ k \in replaced
    BY Zenon DEF DrainStartsLive
<1>1. consumerProducerDone(k)
    <2>1. consumer \in [Ids \X Gens -> ConsumerStates]
        BY Zenon DEF CancelInv, HandlersTyped
    <2>2. ASSUME \/ \E c \in Conns : DispatchOpen(c)
                 \/ \E g \in Opens : OpenStep(g)
          PROVE  FALSE
        BY <2>1, <2>2, Zenon DEF DispatchOpen, OpenStep, OpenFails, openFresh,
           openResume, spawnBind, spawnReplace, spawnTrack, spawnProducer,
           streams, consumers
    <2>3. ASSUME NEW j \in Ids \X Gens, ConsumerRuns(j) \/ consumerPanics(j)
          PROVE  consumerProducerDone(j) /\ j = k
        <3>1. \/ consumerProducerDone(j)
              \/ \E to \in ConsumerStates \ {"draining"} :
                    consumer' = [consumer EXCEPT ![j] = to]
            BY <2>3, Zenon DEF ConsumerRuns, consumerPanics, consumerCtxDone,
               consumerDetached, consumerEos, consumerDispose, consumerUntrack,
               consumerTeardown, ConsumerStep, ConsumerStates
        <3>2. consumerProducerDone(j)
            BY <2>1, <3>1
        <3> QED  BY <2>1, <3>2, Zenon DEF consumerProducerDone, ConsumerStep
    <2> QED  BY <2>2, <2>3, HandlerFrame
<1>2. k \notin ctxDone /\ consumer[k] = "running"
    BY <1>1, Zenon DEF consumerProducerDone, ProducerFinished, ConsumerStep
<1>3. Bound(k)
    BY <1>2, Zenon DEF CancelInv, ConsumersBound
<1>4. k[1] \in Ids /\ k = <<k[1], k[2]>> /\ k[2] \in 1..consumerGen[k[1]]
    BY <1>3, RegistryConstants
    DEF Bound, Gens, RegistryConstants, CancelInv, RegistryInv, RegistryTypeOK
<1>5. k[1] \in sessions \/ teardown[k[1]] \in {"consumer", "producer", "done"}
    BY <1>3, <1>4
    DEF Bound, CancelInv, RemovedTornDown, RegistryInv, RegistryTypeOK, Stages
<1> QED  BY <1>2, <1>4, <1>5, Zenon DEF NoOrphanConsumer

(* The late Detach of a stale connection never cancels the consumer of     *)
(* its successor, and no consumer begins its final drain after teardown    *)
(* has cancelled it: CancelOrderly, for any number of connections.         *)
THEOREM CancelsAreOrderly == Spec => CancelOrderly
<1>1. CancelInv /\ NoOrphanConsumer /\ [Next]_vars
          => [CancelledForCause /\ DrainStartsLive]_vars
    BY CancelCauses, DrainsLive
<1> QED
    BY <1>1, CancelInvHolds, LifecycleRefinesRegistry, NoConsumerIsOrphaned, PTL
    DEF Spec, CancelOrderly

-----------------------------------------------------------------------------
(* The capacity, which is about finite sets.                               *)
INSTANCE FiniteSetTheorems

(* The registry never holds more than MaxConcurrent sessions.              *)
THEOREM CapacityIsRespected == RegistrySpec => []CapacityRespected
<1>1. RegistryInit => CapacityRespected
    BY FS_EmptySet, RegistryConstants
    DEF RegistryConstants, RegistryInit, CapacityRespected
<1>2. ASSUME RegistryTypeOK, CapacityRespected, [RegistryNext]_registryVars
      PROVE  CapacityRespected'
    <2>1. IsFiniteSet(sessions)
        <3>1. 1 \in Int /\ nextID \in Int
            BY <1>2, RegistryConstants DEF RegistryTypeOK, RegistryConstants
        <3> QED  BY <1>2, <3>1, FS_Interval, FS_Subset, Zenon DEF RegistryTypeOK
    <2>2. Cardinality(sessions) \in Nat
        BY <2>1, FS_CardinalityType
    <2>3. CASE Register
        <3>1. Cardinality(sessions) < MaxConcurrent
            BY <2>2, <2>3, RegistryConstants
            DEF Register, AtCapacity, RegistryConstants
        <3>2. Cardinality(sessions') <= Cardinality(sessions) + 1
            BY <2>1, <2>2, <2>3, FS_AddElement DEF Register, RegisterUnchecked
        <3>3. Cardinality(sessions') \in Nat
            BY <2>1, <2>3, FS_AddElement, FS_CardinalityType, Zenon
            DEF Register, RegisterUnchecked
        <3> QED
            BY <2>2, <3>1, <3>2, <3>3, RegistryConstants
            DEF CapacityRespected, RegistryConstants
    <2>4. CASE sessions' \subseteq sessions
        <3>1. /\ Cardinality(sessions') <= Cardinality(sessions)
              /\ Cardinality(sessions') \in Nat
            BY <2>1, <2>4, FS_Subset, FS_CardinalityType, Zenon
        <3> QED
            BY <1>2, <2>2, <3>1, RegistryConstants
            DEF CapacityRespected, RegistryConstants
    <2>5. Register \/ sessions' \subseteq sessions
        BY <1>2, Zenon DEF RegistryNext, registryVars, CancelAll, Reattach, Cancel,
           CancelLive, Remove, CancelAllNext, Detach, DetachOwned,
           CancelReplaced, TimerFires, evictFire, BindConsumerChecked,
           InstallConsumer, teardownConsumer, teardownProducer
    <2> QED  BY <2>3, <2>4, <2>5
<1> QED  BY <1>1, <1>2, RegistryTypeCorrect, PTL DEF RegistrySpec

(* In the composed system a session is torn down once, its consumers are   *)
(* not orphaned, stale timers do nothing and the cap holds.                *)
THEOREM HandlersKeepRegistry ==
    Spec => [](NoOrphanConsumer /\ StaleTimerHarmless /\ TeardownOnce
               /\ CapacityRespected)
BY LifecycleRefinesRegistry, NoConsumerIsOrphaned, StaleTimersAreHarmless,
   TornDownOnce, CapacityIsRespected, PTL

=============================================================================
