------------------------- MODULE EventIntake_proofs -------------------------
(***************************************************************************)
(* Proofs about the S3 event tier: the types, the producer and the worker, *)
(* and that no key is cataloged and failed at once.                        *)
(* EventIntake_theorems rests on them.                                     *)
(*                                                                         *)
(* The invariant has layers: the types of the world, the queues and the    *)
(* worker; what was seen; and which changes are still fresh.               *)
(***************************************************************************)
EXTENDS EventIntake, SumTheorems, TLAPS

Values == Versions \cup {Gone}
Kinds == {"catalog", "delete", "ignored", "malformed"}
Events == [type : {"event"}, n : DOMAIN note, batch : Nat]
Items == Events \cup {AuditEntry}

WorldTypes ==
  /\ bucket \in [Keys -> Values]
  /\ note \in Seq([kind : Kinds, key : Keys])
  /\ unsent \subseteq DOMAIN note
  /\ visible \subseteq Messages /\ invisible \subseteq Messages
  /\ budget \subseteq AllFaults

RowTypes ==
  /\ catalog \in [Keys -> [etag : Values, summary : Values]]
  /\ failures \subseteq Keys

FlagTypes ==
  /\ paused \in BOOLEAN /\ stop \in BOOLEAN
  /\ coordinator \in {"idle", "draining", "drained", "waiting", "stopped"}
  /\ audit \in {"none", "pending", "running", "finished"}

ProducerTypes ==
  /\ producer \in [at : {"drain", "poll", "process", "stopped"},
                   got : SUBSET Messages]
  /\ DOMAIN batches \subseteq Nat /\ IsFiniteSet(DOMAIN batches)
  /\ batches \in [DOMAIN batches -> [msg : Messages, remaining : Int]]
  /\ ackq \in Seq(Nat)

WorkerTypes ==
  /\ worker \in [at : {"idle", "event", "audit", "stopped"},
                 item : Items \cup {NoItem}, stat : Values,
                 listing : [Keys -> Values], todo : SUBSET Keys]
  /\ worker.at = "event" => worker.item \in Events
  /\ workq \in Seq(Items)

Typed == WorldTypes /\ RowTypes /\ FlagTypes /\ ProducerTypes /\ WorkerTypes

-----------------------------------------------------------------------------
(* Numbers and sequences.                                                  *)

LEMMA MaxIn ==
    ASSUME NEW T, T # {}, NEW b \in Nat, T \subseteq 0..b
    PROVE  Max(T) \in T /\ \A m \in T : m <= Max(T)
<1>1. \E n \in T : \A m \in T : m <= n
    BY GreatestNat, Zenon
<1>2. \E n \in T : \A m \in T : n >= m
    BY <1>1
<1>3. Max(T) \in T /\ \A m \in T : Max(T) >= m
    BY <1>2, Zenon DEF Max
<1> QED  BY <1>3

(* FreshBatch is a number no batch has.                                    *)
LEMMA FreshIsNew ==
    ASSUME DOMAIN batches \subseteq Nat, IsFiniteSet(DOMAIN batches)
    PROVE  FreshBatch \in Nat \ DOMAIN batches
<1> DEFINE D == DOMAIN batches
           c == Cardinality(D)
           U == (1..(c + 1)) \ D
<1>1. c \in Nat
    BY FS_CardinalityType
<1>2. U # {}
    <2> SUFFICES ASSUME 1..(c + 1) \in SUBSET D PROVE FALSE
        OBVIOUS
    <2>1. Cardinality(1..(c + 1)) = c + 1
        BY <1>1, FS_Interval
    <2>2. Cardinality(1..(c + 1)) <= c
        BY FS_Subset, Zenon
    <2> HIDE DEF c
    <2> QED  BY <1>1, <2>1, <2>2
<1>3. U \subseteq Nat
    BY <1>1
<1>4. PICK n \in U : \A m \in U : n <= m
    <2> HIDE DEF U
    <2> QED  BY <1>2, <1>3, LeastNat, Zenon
<1>5. Min(U) \in U
    <2> HIDE DEF U
    <2> QED  BY <1>4, Zenon DEF Min
<1> QED  BY <1>3, <1>5 DEF FreshBatch

LEMMA ElementAt ==
    ASSUME NEW S, NEW s \in Seq(S)
    PROVE  /\ DOMAIN s = 1..Len(s) /\ Len(s) \in Nat
           /\ \A i \in DOMAIN s : s[i] \in S
           /\ s = [i \in DOMAIN s |-> s[i]]
OBVIOUS

LEMMA TailAt ==
    ASSUME NEW S, NEW s \in Seq(S), s # <<>>
    PROVE  /\ Head(s) = s[1] /\ Head(s) \in S /\ 1 \in 1..Len(s)
           /\ Tail(s) \in Seq(S)
           /\ DOMAIN Tail(s) = 1..(Len(s) - 1)
           /\ \A i \in DOMAIN Tail(s) : i + 1 \in 1..Len(s) /\ Tail(s)[i] = s[i + 1]
OBVIOUS

LEMMA AppendAt ==
    ASSUME NEW S, NEW s \in Seq(S), NEW e \in S
    PROVE  /\ Append(s, e) \in Seq(S)
           /\ DOMAIN Append(s, e) = 1..(Len(s) + 1)
           /\ \A i \in 1..Len(s) : Append(s, e)[i] = s[i]
           /\ Append(s, e)[Len(s) + 1] = e
OBVIOUS

-----------------------------------------------------------------------------
(* Types.                                                                  *)

LEMMA InitTyped == Init => Typed
<1> SUFFICES ASSUME Init PROVE Typed
    OBVIOUS
<1>1. WorldTypes
    BY IntakeConstants DEF Init, WorldTypes, Values, Messages
<1>2. RowTypes
    BY DEF Init, RowTypes, Values
<1>3. FlagTypes
    BY Zenon DEF Init, FlagTypes
<1>4. ProducerTypes
    <2>1. DOMAIN batches = {}
        BY DEF Init
    <2>2. IsFiniteSet(DOMAIN batches)
        BY <2>1, FS_EmptySet
    <2> QED  BY <2>1, <2>2 DEF Init, ProducerTypes, Messages
<1>5. WorkerTypes
    BY DEF Init, WorkerTypes, IdleWorker, NoListing, Values, Items
<1> QED  BY <1>1, <1>2, <1>3, <1>4, <1>5 DEF Typed

(* A notification that was emitted stays as it was.                        *)
LEMMA EmitKeeps ==
    ASSUME Typed, NEW kind \in Kinds, NEW k \in Keys, Emit(kind, k)
    PROVE  /\ note' \in Seq([kind : Kinds, key : Keys])
           /\ DOMAIN note = 1..Len(note) /\ DOMAIN note' = 1..(Len(note) + 1)
           /\ Len(note) \in Nat
           /\ \A n \in DOMAIN note : note'[n] = note[n]
           /\ note'[Len(note) + 1] = [kind |-> kind, key |-> k]
           /\ unsent' = unsent \cup {Len(note) + 1}
<1> DEFINE S == [kind : Kinds, key : Keys]
           e == [kind |-> kind, key |-> k]
<1>1. note \in Seq(S) /\ e \in S
    BY DEF Typed, WorldTypes
<1>2. note' = Append(note, e) /\ unsent' = unsent \cup {Len(note) + 1}
    BY DEF Emit
<1>3. DOMAIN note = 1..Len(note) /\ Len(note) \in Nat
    BY <1>1
<1> HIDE DEF S, e
<1>4. /\ Append(note, e) \in Seq(S)
      /\ DOMAIN Append(note, e) = 1..(Len(note) + 1)
      /\ \A i \in 1..Len(note) : Append(note, e)[i] = note[i]
      /\ Append(note, e)[Len(note) + 1] = e
    BY <1>1, AppendAt
<1> QED  BY <1>2, <1>3, <1>4 DEF S, e

LEMMA EmitTyped ==
    ASSUME Typed, NEW kind \in Kinds, NEW k \in Keys, Emit(kind, k),
           bucket' \in [Keys -> Values], budget' \subseteq AllFaults
    PROVE  Typed'
<1>1. /\ note' \in Seq([kind : Kinds, key : Keys])
      /\ DOMAIN note \subseteq DOMAIN note'
      /\ unsent' \subseteq DOMAIN note'
    <2>1. /\ note' \in Seq([kind : Kinds, key : Keys])
          /\ DOMAIN note = 1..Len(note) /\ DOMAIN note' = 1..(Len(note) + 1)
          /\ Len(note) \in Nat
          /\ unsent' = unsent \cup {Len(note) + 1}
        BY EmitKeeps, Zenon
    <2>2. unsent \subseteq DOMAIN note
        BY DEF Typed, WorldTypes
    <2> QED  BY <2>1, <2>2
<1>2. Messages \subseteq Messages' /\ Events \subseteq Events' /\ Items \subseteq Items'
    BY <1>1 DEF Messages, Events, Items
<1>3. UNCHANGED <<visible, invisible, gate, intake, workq, auditing, worker, rows, stop>>
    BY DEF Emit
<1>4. WorldTypes'
    BY <1>1, <1>2, <1>3 DEF Typed, WorldTypes
<1>5. RowTypes' /\ FlagTypes'
    BY <1>3 DEF Typed, RowTypes, FlagTypes, rows, gate, auditing
<1>6. ProducerTypes'
    BY <1>2, <1>3 DEF Typed, ProducerTypes, intake
<1>7. WorkerTypes'
    <2>1. workq \in Seq(Items')
        BY <1>2 DEF Typed, WorkerTypes
    <2>2. worker' = worker /\ workq' = workq
        BY <1>3
    <2> QED  BY <1>2, <2>1, <2>2 DEF Typed, WorkerTypes
<1> QED  BY <1>4, <1>5, <1>6, <1>7 DEF Typed

LEMMA EnvironmentTyped == Typed /\ Environment => Typed'
<1> SUFFICES ASSUME Typed, Environment PROVE Typed'
    OBVIOUS
<1>1. ASSUME NEW k \in Keys, NEW v \in Versions, upload(k, v) PROVE Typed'
    <2>1. bucket' \in [Keys -> Values] /\ budget' \subseteq AllFaults
        BY <1>1 DEF upload, Typed, WorldTypes, Values
    <2> QED  BY <1>1, <2>1, EmitTyped DEF upload, Kinds
<1>2. ASSUME NEW k \in Keys, removeObject(k) PROVE Typed'
    <2>1. bucket' \in [Keys -> Values] /\ budget' \subseteq AllFaults
        BY <1>2 DEF removeObject, Typed, WorldTypes, Values
    <2> QED  BY <1>2, <2>1, EmitTyped DEF removeObject, Kinds
<1>3. ASSUME NEW k \in Keys, NEW kind \in {"ignored", "malformed"}, noise(kind, k)
      PROVE  Typed'
    <2>1. bucket' \in [Keys -> Values] /\ budget' \subseteq AllFaults
        BY <1>3 DEF noise, Happens, Typed, WorldTypes, Values
    <2>2. kind \in Kinds
        BY <1>3 DEF Kinds
    <2> QED  BY <1>3, <2>1, <2>2, EmitTyped DEF noise
<1>4. ASSUME NEW ns \in SUBSET unsent, sendMessage(ns) PROVE Typed'
    BY <1>4 DEF sendMessage, Typed, WorldTypes, RowTypes, FlagTypes, ProducerTypes,
       WorkerTypes, Items, Events, Messages, gate, intake, auditing, rows
<1>5. ASSUME NEW m \in invisible, visibilityExpires(m) PROVE Typed'
    BY <1>5 DEF visibilityExpires, Typed, WorldTypes, RowTypes, FlagTypes,
       ProducerTypes, WorkerTypes, Items, Events, Messages, gate, intake, auditing, rows
<1> QED  BY <1>1, <1>2, <1>3, <1>4, <1>5 DEF Environment

LEMMA DeleteTyped ==
    ASSUME Typed, NEW m, DeleteMessage(m), note' = note
    PROVE  visible' \subseteq Messages' /\ invisible' \subseteq Messages'
BY DEF DeleteMessage, Typed, WorldTypes, Messages

(* What a message puts on the work queue.                                  *)
LEMMA NewEvents ==
    ASSUME Typed, NEW records \in SUBSET DOMAIN note,
           NEW order \in InOrder(records), NEW b \in Nat
    PROVE  LET new == [i \in DOMAIN order |-> Event(order[i], b)]
               c == Cardinality(records) IN
           /\ c \in Nat
           /\ new \in Seq(Items) /\ Len(new) = c
           /\ \A i \in 1..c : order[i] \in records /\ new[i] = Event(order[i], b)
           /\ \A i, j \in 1..c : i # j => order[i] # order[j]
<1> DEFINE c == Cardinality(records)
           new == [i \in DOMAIN order |-> Event(order[i], b)]
<1>1. IsFiniteSet(records)
    <2>1. Len(note) \in Nat /\ DOMAIN note = 1..Len(note)
        BY DEF Typed, WorldTypes
    <2>2. IsFiniteSet(DOMAIN note)
        BY <2>1, FS_Interval
    <2> QED  BY <2>2, FS_Subset
<1>2. c \in Nat
    BY <1>1, FS_CardinalityType
<1>3. /\ order \in [1..c -> records] /\ DOMAIN order = 1..c
      /\ \A i, j \in 1..c : i < j => order[i] < order[j]
    BY DEF InOrder
<1>4. records \subseteq Nat
    BY DEF Typed, WorldTypes
<1> HIDE DEF c
<1>5. \A i \in 1..c : order[i] \in records /\ order[i] \in Nat
    BY <1>3, <1>4
<1>6. \A i, j \in 1..c : i # j => order[i] # order[j]
    <2> SUFFICES ASSUME NEW i \in 1..c, NEW j \in 1..c, i # j
                 PROVE  order[i] # order[j]
        OBVIOUS
    <2>1. i < j \/ j < i
        BY <1>2
    <2> QED  BY <1>3, <1>5, <2>1
<1>7. \A i \in 1..c : new[i] = Event(order[i], b) /\ new[i] \in Items
    BY <1>3, <1>5 DEF Event, Items, Events
<1>8. new = [i \in 1..c |-> new[i]]
    BY <1>3
<1>9. new \in Seq(Items) /\ Len(new) = c
    <2>1. new \in [1..c -> Items]
        BY <1>3, <1>7
    <2> HIDE DEF new
    <2> QED  BY <1>2, <2>1
<1> QED  BY <1>2, <1>5, <1>6, <1>7, <1>9 DEF c

LEMMA EnqueueTyped ==
    ASSUME Typed, NEW m \in Messages, note' = note,
           EnqueueRecords(m, {n \in m : Relevant(n)})
    PROVE  /\ workq' \in Seq(Items)
           /\ DOMAIN batches' \subseteq Nat /\ IsFiniteSet(DOMAIN batches')
           /\ batches' \in [DOMAIN batches' -> [msg : Messages, remaining : Int]]
<1> DEFINE records == {n \in m : Relevant(n)}
           b == FreshBatch
           D == DOMAIN batches
<1>1. /\ D \subseteq Nat /\ IsFiniteSet(D)
      /\ batches \in [D -> [msg : Messages, remaining : Int]]
      /\ workq \in Seq(Items)
    BY DEF Typed, ProducerTypes, WorkerTypes
<1>2. b \in Nat \ D
    BY <1>1, FreshIsNew
<1>3. records \in SUBSET DOMAIN note
    BY DEF Messages
<1>4. PICK order \in InOrder(records) :
         workq' = workq \o [i \in DOMAIN order |-> Event(order[i], b)]
    BY Zenon DEF EnqueueRecords
<1> DEFINE c == Cardinality(records)
<1>5. batches' = [x \in D \cup {b} |->
                    IF x = b THEN [msg |-> m, remaining |-> c] ELSE batches[x]]
    BY DEF EnqueueRecords
<1> HIDE DEF records, b, c
<1>6. /\ [i \in DOMAIN order |-> Event(order[i], b)] \in Seq(Items)
      /\ c \in Nat
    BY <1>2, <1>3, NewEvents DEF c
<1>7. workq' \in Seq(Items)
    BY <1>1, <1>4, <1>6
<1>8. DOMAIN batches' = D \cup {b}
    BY <1>5
<1>9. IsFiniteSet(D \cup {b})
    BY <1>1, FS_AddElement
<1>10. batches' \in [D \cup {b} -> [msg : Messages, remaining : Int]]
    BY <1>1, <1>5, <1>6
<1> QED  BY <1>1, <1>2, <1>7, <1>8, <1>9, <1>10

(* A step of the producer leaves the bucket, the worker and the rows.      *)
LEMMA ProducerOnlyTyped ==
    ASSUME Typed, ProducerOnly, budget' \subseteq budget, paused' = paused,
           visible' \subseteq Messages, invisible' \subseteq Messages,
           workq' \in Seq(Items), ProducerTypes'
    PROVE  Typed'
<1>1. /\ bucket' = bucket /\ note' = note /\ unsent' = unsent
      /\ coordinator' = coordinator /\ audit' = audit /\ worker' = worker
      /\ catalog' = catalog /\ failures' = failures /\ stop' = stop
    BY DEF ProducerOnly, auditing, rows
<1>2. Messages' = Messages /\ Events' = Events /\ Items' = Items
    BY <1>1 DEF Messages, Events, Items
<1>3. WorldTypes' /\ RowTypes' /\ FlagTypes'
    BY <1>1, <1>2 DEF Typed, WorldTypes, RowTypes, FlagTypes
<1>4. WorkerTypes'
    BY <1>1, <1>2 DEF Typed, WorkerTypes
<1> QED  BY <1>3, <1>4 DEF Typed

LEMMA ProducerTyped ==
    ASSUME Typed,
           \/ ProducerStep \/ iterationFails
           \/ \E ms \in SUBSET visible : receive(ms)
    PROVE  Typed'
<1> USE DEF Typed
<1>1. CASE drainAck
    <2>1. /\ ackq \in Seq(Nat) /\ ackq # <<>> /\ ProducerOnly
          /\ ackq' = Tail(ackq) /\ workq' = workq /\ budget' = budget
          /\ paused' = paused /\ producer' = producer
          /\ DeleteMessage(batches[Head(ackq)].msg)
          /\ batches' = [b \in DOMAIN batches \ {Head(ackq)} |-> batches[b]]
        BY <1>1 DEF drainAck, ProducerTypes
    <2>2. note' = note /\ Messages' = Messages
        BY <2>1 DEF ProducerOnly, Messages
    <2>3. visible' \subseteq Messages /\ invisible' \subseteq Messages
        BY <2>1, <2>2, DeleteTyped
    <2>4. Tail(ackq) \in Seq(Nat)
        BY <2>1
    <2>5. IsFiniteSet(DOMAIN batches \ {Head(ackq)})
        BY FS_RemoveElement, Zenon DEF ProducerTypes
    <2>6. DOMAIN batches' = DOMAIN batches \ {Head(ackq)}
        BY <2>1
    <2>7. ProducerTypes'
        BY <2>1, <2>2, <2>4, <2>5, <2>6, Zenon DEF ProducerTypes
    <2> QED  BY <2>1, <2>3, <2>7, ProducerOnlyTyped DEF WorkerTypes
<1>2. CASE gateOpen \/ processed \/ producerStops \/ iterationFails
    <2>1. /\ ProducerOnly /\ budget' \subseteq budget /\ paused' = paused
          /\ visible' = visible /\ invisible' = invisible /\ workq' = workq
          /\ batches' = batches /\ ackq' = ackq
          /\ \/ producer' = [at |-> "drain", got |-> {}]
             \/ \E a \in {"drain", "poll", "stopped"} :
                  producer' = [producer EXCEPT !.at = a]
        BY <1>2, Zenon DEF gateOpen, processed, producerStops, iterationFails,
           gate, Happens
    <2>2. Messages' = Messages
        BY <2>1 DEF ProducerOnly, Messages
    <2>3. producer' \in [at : {"drain", "poll", "process", "stopped"},
                         got : SUBSET Messages]
        BY <2>1 DEF ProducerTypes
    <2>4. ProducerTypes'
        BY <2>1, <2>2, <2>3, Zenon DEF ProducerTypes
    <2> QED  BY <2>1, <2>4, ProducerOnlyTyped DEF WorkerTypes, WorldTypes
<1>3. ASSUME NEW ms \in SUBSET visible, receive(ms) PROVE Typed'
    <2>1. /\ ProducerOnly /\ budget' = budget /\ paused' = paused
          /\ visible' = visible \ ms /\ invisible' = invisible \cup ms
          /\ workq' = workq /\ batches' = batches /\ ackq' = ackq
          /\ producer' = [at |-> "process", got |-> ms]
        BY <1>3 DEF receive, gate
    <2>2. Messages' = Messages
        BY <2>1 DEF ProducerOnly, Messages
    <2>3. ms \subseteq Messages
        BY DEF WorldTypes
    <2>4. ProducerTypes'
        BY <2>1, <2>2, <2>3 DEF ProducerTypes
    <2>5. visible' \subseteq Messages /\ invisible' \subseteq Messages
        BY <2>1, <2>3 DEF WorldTypes
    <2> QED  BY <2>1, <2>4, <2>5, ProducerOnlyTyped DEF WorkerTypes
<1>4. ASSUME NEW m \in producer.got, processMessage(m) PROVE Typed'
    <2>1. /\ ProducerOnly /\ budget' = budget /\ ackq' = ackq
          /\ producer' = [producer EXCEPT !.got = @ \ {m}]
        BY <1>4 DEF processMessage
    <2>2. note' = note /\ Messages' = Messages /\ m \in Messages
        BY <2>1 DEF ProducerOnly, Messages, ProducerTypes
    <2>3. /\ producer' \in [at : {"drain", "poll", "process", "stopped"},
                            got : SUBSET Messages]
          /\ ackq' \in Seq(Nat)
        BY <2>1 DEF ProducerTypes
    <2>4. CASE UNCHANGED <<gate, batches, workq>> /\ (DeleteMessage(m) \/ UNCHANGED <<visible, invisible>>)
        <3>1. visible' \subseteq Messages /\ invisible' \subseteq Messages
            BY <2>2, <2>4, DeleteTyped DEF WorldTypes
        <3>2. batches' = batches /\ workq' = workq /\ paused' = paused
            BY <2>4 DEF gate
        <3>3. ProducerTypes'
            BY <2>2, <2>3, <3>2 DEF ProducerTypes
        <3> QED  BY <2>1, <3>1, <3>2, <3>3, ProducerOnlyTyped, Zenon DEF WorkerTypes
    <2>5. CASE EnqueueRecords(m, {n \in m : Relevant(n)})
        <3>1. paused' = paused /\ visible' = visible /\ invisible' = invisible
            BY <2>5 DEF EnqueueRecords
        <3>2. /\ workq' \in Seq(Items)
              /\ DOMAIN batches' \subseteq Nat /\ IsFiniteSet(DOMAIN batches')
              /\ batches' \in [DOMAIN batches' -> [msg : Messages, remaining : Int]]
            BY <2>2, <2>5, EnqueueTyped
        <3>3. ProducerTypes'
            BY <2>2, <2>3, <3>2 DEF ProducerTypes
        <3> QED  BY <2>1, <3>1, <3>2, <3>3, ProducerOnlyTyped, Zenon DEF WorldTypes
    <2> QED  BY <1>4, <2>4, <2>5, Zenon DEF processMessage
<1> QED  BY <1>1, <1>2, <1>3, <1>4, Zenon DEF ProducerStep, Process

(* The row of a key is written, and its failure cleared.                   *)
RowWritten(k, st, summary) ==
  /\ catalog' = [catalog EXCEPT ![k] = [etag |-> st, summary |-> summary]]
  /\ failures' = failures \ {k}

(* What a row write may be: the row of one key is taken away or written    *)
(* under the tag that was seen.                                            *)
Writes(k, st) ==
  \/ UNCHANGED rows
  \/ Quarantine(k)
  \/ delete_by_key(k)
  \/ \E summary \in {bucket[k]} \ {Gone} : RowWritten(k, st, summary)

LEMMA ReadWrites ==
    ASSUME NEW k, NEW st, ReadAndWrite(k, st)
    PROVE  Writes(k, st) /\ budget' \subseteq budget
<1>1. ASSUME NEW summary \in ReadSummary(k, st),
             IF summary = Gone THEN Quarantine(k) /\ UNCHANGED budget
                               ELSE WriteFileRow(k, st, summary)
      PROVE  Writes(k, st) /\ budget' \subseteq budget
    BY <1>1 DEF ReadSummary, Writes, WriteFileRow, RowWritten, Happens
<1> QED  BY <1>1, Zenon DEF ReadAndWrite, Happens, Writes

LEMMA EventWrites ==
    ASSUME NEW k, NEW st, catalog_object(k, st) \/ deleteGuarded(k, st)
    PROVE  Writes(k, st) /\ budget' \subseteq budget
BY ReadWrites, Zenon DEF catalog_object, deleteGuarded, Writes

LEMMA WritesTyped ==
    ASSUME Typed, NEW k \in Keys, NEW st \in Values, Writes(k, st)
    PROVE  RowTypes'
<1> USE DEF Typed, RowTypes
<1>1. CASE UNCHANGED rows
    BY <1>1 DEF rows
<1>2. CASE Quarantine(k) \/ delete_by_key(k)
    BY <1>2 DEF Quarantine, delete_by_key, NoRow, Values
<1>3. ASSUME NEW summary \in {bucket[k]} \ {Gone}, RowWritten(k, st, summary)
      PROVE  RowTypes'
    BY <1>3 DEF RowWritten, WorldTypes
<1> QED  BY <1>1, <1>2, <1>3 DEF Writes

(* A step of the worker leaves the world and the producer's hands.         *)
LEMMA WorkerOnlyTyped ==
    ASSUME Typed, WorkerOnly, budget' \subseteq budget, RowTypes',
           audit' \in {"none", "pending", "running", "finished"},
           UNCHANGED <<batches, ackq>> \/ record_terminal(worker.item.batch),
           worker.at = "event" \/ UNCHANGED <<batches, ackq>>,
           workq' = workq \/ (workq # <<>> /\ workq' = Tail(workq)),
           worker' \in [at : {"idle", "event", "audit", "stopped"},
                        item : Items \cup {NoItem}, stat : Values,
                        listing : [Keys -> Values], todo : SUBSET Keys],
           worker'.at = "event" => worker'.item \in Events
    PROVE  Typed'
<1> USE DEF Typed
<1>1. /\ bucket' = bucket /\ note' = note /\ unsent' = unsent
      /\ visible' = visible /\ invisible' = invisible
      /\ coordinator' = coordinator /\ stop' = stop /\ paused' = paused
      /\ producer' = producer
    BY DEF WorkerOnly, world
<1>2. Messages' = Messages /\ Events' = Events /\ Items' = Items
    BY <1>1 DEF Messages, Events, Items
<1>3. WorldTypes' /\ FlagTypes'
    BY <1>1, <1>2 DEF WorldTypes, FlagTypes
<1>4. ProducerTypes'
    <2>1. CASE UNCHANGED <<batches, ackq>>
        BY <1>1, <1>2, <2>1 DEF ProducerTypes
    <2>2. CASE record_terminal(worker.item.batch) /\ worker.at = "event"
        <3> DEFINE b == worker.item.batch
        <3>1. b \in Nat
            BY <2>2 DEF WorkerTypes, Events
        <3> HIDE DEF b
        <3>2. batches' = [batches EXCEPT ![b].remaining = @ - 1] /\ DOMAIN batches' = DOMAIN batches
            BY <2>2 DEF record_terminal, b
        <3>3. batches' \in [DOMAIN batches -> [msg : Messages, remaining : Int]]
            <4> DEFINE R == [msg : Messages, remaining : Int]
            <4>1. batches \in [DOMAIN batches -> R]
                BY DEF ProducerTypes
            <4>2. \A x \in DOMAIN batches : batches'[x] =
                     IF x = b THEN [batches[b] EXCEPT !.remaining = @ - 1] ELSE batches[x]
                BY <3>2
            <4>3. \A r \in R : [r EXCEPT !.remaining = @ - 1] \in R
                OBVIOUS
            <4>4. \A x \in DOMAIN batches : batches'[x] \in R
                <5> HIDE DEF R
                <5> QED  BY <4>1, <4>2, <4>3
            <4>5. batches' = [x \in DOMAIN batches |-> batches'[x]]
                BY <3>2, Zenon
            <4> QED  BY <4>4, <4>5, Zenon
        <3>4. ackq' = ackq \/ ackq' = Append(ackq, b)
            BY <2>2 DEF record_terminal, b
        <3>5. ackq' \in Seq(Nat)
            <4>1. ackq \in Seq(Nat)
                BY DEF ProducerTypes
            <4>2. Append(ackq, b) \in Seq(Nat)
                BY <3>1, <4>1, AppendAt
            <4> QED  BY <3>4, <4>1, <4>2, Zenon
        <3> QED  BY <1>1, <1>2, <3>2, <3>3, <3>5, Zenon DEF ProducerTypes
    <2> QED  BY <2>1, <2>2
<1>5. WorkerTypes'
    <2>1. workq' \in Seq(Items)
        BY TailAt DEF WorkerTypes
    <2> QED  BY <1>2, <2>1 DEF WorkerTypes
<1> QED  BY <1>3, <1>4, <1>5

LEMMA NoteTyped ==
    ASSUME Typed
    PROVE  /\ DOMAIN note = 1..Len(note) /\ Len(note) \in Nat
           /\ DOMAIN note \subseteq Nat /\ IsFiniteSet(DOMAIN note)
           /\ \A n \in DOMAIN note : note[n].key \in Keys /\ note[n].kind \in Kinds
<1>1. note \in Seq([kind : Kinds, key : Keys])
    BY DEF Typed, WorldTypes
<1>2. DOMAIN note = 1..Len(note) /\ Len(note) \in Nat
    BY <1>1
<1>3. \A n \in DOMAIN note : note[n] \in [kind : Kinds, key : Keys]
    BY <1>1, ElementAt, Zenon
<1>4. IsFiniteSet(DOMAIN note)
    BY <1>2, FS_Interval
<1> QED  BY <1>2, <1>3, <1>4

LEMMA EventKey ==
    ASSUME Typed, NEW e \in Events
    PROVE  e.n \in DOMAIN note /\ e.batch \in Nat /\ note[e.n].key \in Keys
<1>1. e.n \in DOMAIN note /\ e.batch \in Nat
    BY DEF Events
<1> QED  BY <1>1, NoteTyped

LEMMA WorkerTyped ==
    ASSUME Typed, WorkerStep \/ eventRaises \/ auditFails
    PROVE  Typed'
<1> USE DEF Typed
<1> DEFINE W == [at : {"idle", "event", "audit", "stopped"},
                 item : Items \cup {NoItem}, stat : Values,
                 listing : [Keys -> Values], todo : SUBSET Keys]
<1>a. worker \in W /\ IdleWorker \in W /\ IdleWorker.at = "idle" /\ RowTypes /\ WorldTypes
    BY DEF WorkerTypes, IdleWorker, NoListing, Values
<1>b. audit \in {"none", "pending", "running", "finished"}
    BY DEF FlagTypes
<1>c. UNCHANGED rows => RowTypes'
    BY DEF RowTypes, rows
<1>1. CASE takeEvent
    <2>1. workq \in Seq(Items) /\ workq # <<>>
        BY <1>1 DEF takeEvent, WorkerTypes
    <2>2. Head(workq) \in Items /\ Head(workq).type = "event"
        BY <1>1, <2>1, TailAt DEF takeEvent
    <2>3. Head(workq) \in Events
        BY <2>2 DEF Items, AuditEntry
    <2>4. note[Head(workq).n].key \in Keys
        BY <2>3, EventKey, Zenon
    <2>5. bucket[note[Head(workq).n].key] \in Values
        BY <2>4 DEF WorldTypes
    <2>6. worker' = [worker EXCEPT !.at = "event", !.item = Head(workq),
                                   !.stat = bucket[note[Head(workq).n].key]]
        BY <1>1, Zenon DEF takeEvent
    <2>7. worker' \in W /\ worker'.item = Head(workq)
        BY <1>a, <2>2, <2>5, <2>6, Zenon
    <2>8. /\ WorkerOnly /\ budget' = budget /\ audit' = audit /\ UNCHANGED rows
          /\ UNCHANGED <<batches, ackq>> /\ workq' = Tail(workq)
        BY <1>1 DEF takeEvent
    <2> QED  BY <1>b, <1>c, <2>1, <2>3, <2>7, <2>8, WorkerOnlyTyped, Zenon
<1>2. CASE applyEvent
    <2> DEFINE k == note[worker.item.n].key
    <2>1. worker.at = "event" /\ worker.item \in Events /\ worker.stat \in Values
        BY <1>2 DEF applyEvent, WorkerTypes
    <2>2. k \in Keys
        BY <2>1, EventKey
    <2>3. catalog_object(k, worker.stat) \/ deleteGuarded(k, worker.stat)
        BY <1>2, Zenon DEF applyEvent
    <2>4. RowTypes' /\ budget' \subseteq budget
        <3> HIDE DEF k
        <3> QED  BY <2>1, <2>2, <2>3, EventWrites, WritesTyped, Zenon
    <2>5. /\ WorkerOnly /\ record_terminal(worker.item.batch) /\ worker' = IdleWorker
          /\ workq' = workq /\ audit' = audit
        BY <1>2 DEF applyEvent
    <2> QED  BY <1>a, <1>b, <2>1, <2>4, <2>5, WorkerOnlyTyped, Zenon
<1>3. CASE eventRaises
    <2>1. /\ WorkerOnly /\ worker' = IdleWorker /\ budget' \subseteq budget
          /\ workq' = workq /\ audit' = audit /\ UNCHANGED rows
          /\ UNCHANGED <<batches, ackq>>
        BY <1>3, Zenon DEF eventRaises, NotTerminal, Happens
    <2> QED  BY <1>a, <1>b, <1>c, <2>1, WorkerOnlyTyped, Zenon
<1>4. CASE startAudit
    <2>1. /\ WorkerOnly /\ budget' = budget /\ UNCHANGED rows
          /\ workq # <<>> /\ workq' = Tail(workq) /\ audit' = "running"
          /\ UNCHANGED <<batches, ackq>>
          /\ worker' = [worker EXCEPT !.at = "audit", !.listing = bucket,
               !.todo = {k \in Keys : bucket[k] # Gone /\ ~Unchanged(k, bucket[k])}]
        BY <1>4, Zenon DEF startAudit, AuditStep
    <2>2. worker' \in W /\ worker'.at = "audit"
        BY <1>a, <2>1, Zenon DEF WorldTypes
    <2> QED  BY <1>c, <2>1, <2>2, WorkerOnlyTyped, Zenon
<1>5. ASSUME NEW k \in Keys, auditExtract(k) PROVE Typed'
    <2>1. /\ WorkerOnly /\ workq' = workq /\ audit' = audit /\ worker.at = "audit"
          /\ UNCHANGED <<batches, ackq>>
          /\ worker' = [worker EXCEPT !.todo = @ \ {k}]
          /\ UNCHANGED <<rows, budget>> \/ ReadAndWrite(k, worker.listing[k])
        BY <1>5, Zenon DEF auditExtract, AuditStep
    <2>2. worker' \in W /\ worker'.at = "audit" /\ worker.listing[k] \in Values
        BY <1>a, <2>1
    <2>3. RowTypes' /\ budget' \subseteq budget
        BY <1>c, <2>1, <2>2, ReadWrites, WritesTyped, Zenon
    <2> QED  BY <1>b, <2>1, <2>2, <2>3, WorkerOnlyTyped, Zenon
<1>6. CASE auditSweep \/ auditFails \/ auditCancelled
    <2>1. /\ WorkerOnly /\ workq' = workq /\ audit' = "finished" /\ budget' = budget
          /\ UNCHANGED <<batches, ackq>> /\ worker' = IdleWorker
        BY <1>6, Zenon DEF auditSweep, auditFails, auditCancelled, finishAudit, AuditStep
    <2>2. RowTypes'
        BY <1>6, <1>c DEF auditSweep, auditFails, auditCancelled, RowTypes, NoRow, Values
    <2> QED  BY <1>a, <2>1, <2>2, WorkerOnlyTyped, Zenon
<1>7. CASE workerStops
    <2>1. /\ WorkerOnly /\ workq' = workq /\ budget' = budget /\ UNCHANGED rows
          /\ UNCHANGED <<batches, ackq>> /\ worker' = [worker EXCEPT !.at = "stopped"]
          /\ audit' \in {audit, "finished"}
        BY <1>7 DEF workerStops, AuditStep
    <2>2. worker' \in W /\ worker'.at = "stopped"
        BY <1>a, <2>1
    <2> QED  BY <1>b, <1>c, <2>1, <2>2, WorkerOnlyTyped, Zenon
<1> QED  BY <1>1, <1>2, <1>3, <1>4, <1>5, <1>6, <1>7, Zenon DEF WorkerStep

LEMMA CoordinatorTyped ==
    ASSUME Typed, AwaitAudit \/ auditDue \/ on_signal
    PROVE  Typed'
<1> USE DEF Typed
<1>1. /\ UNCHANGED <<world, buffered, outstanding, intake, worker, rows>>
      /\ budget' \subseteq budget
      /\ paused' \in BOOLEAN /\ stop' \in BOOLEAN
      /\ coordinator' \in {"idle", "draining", "drained", "waiting", "stopped"}
      /\ audit' \in {"none", "pending", "running", "finished"}
      /\ workq' = workq \/ workq' = Append(workq, AuditEntry)
    BY Zenon DEF AwaitAudit, drained, enqueueAudit, drainStopped, auditDone, waitStopped,
       coordinatorStops, auditDue, on_signal, CoordinatorOnly, Happens, resume,
       gate, auditing, FlagTypes
<1>2. Messages' = Messages /\ Events' = Events /\ Items' = Items
    BY <1>1 DEF Messages, Events, Items, world
<1>3. WorldTypes' /\ RowTypes'
    BY <1>1, <1>2 DEF WorldTypes, RowTypes, world, rows
<1>4. FlagTypes'
    BY <1>1 DEF FlagTypes
<1>5. ProducerTypes'
    BY <1>1, <1>2 DEF ProducerTypes, intake
<1>6. WorkerTypes'
    <2>1. workq \in Seq(Items) /\ AuditEntry \in Items
        BY DEF WorkerTypes, Items
    <2>2. Append(workq, AuditEntry) \in Seq(Items)
        BY <2>1, AppendAt
    <2>3. workq' \in Seq(Items) /\ worker' = worker
        BY <1>1, <2>1, <2>2
    <2> QED  BY <1>2, <2>3 DEF WorkerTypes
<1> QED  BY <1>3, <1>4, <1>5, <1>6, Zenon

LEMMA CrashTyped ==
    ASSUME Typed, crash
    PROVE  Typed'
<1> USE DEF Typed
<1>1. UNCHANGED <<world, rows>> /\ budget' \subseteq budget
    BY DEF crash, Happens
<1>2. Messages' = Messages /\ Events' = Events /\ Items' = Items
    BY <1>1 DEF Messages, Events, Items, world
<1>3. WorldTypes' /\ RowTypes'
    BY <1>1, <1>2 DEF WorldTypes, RowTypes, world, rows
<1>4. FlagTypes'
    BY Zenon DEF crash, FlagTypes
<1>5. ProducerTypes'
    <2>1. DOMAIN batches' = {} /\ ackq' = <<>> /\ producer' = [at |-> "drain", got |-> {}]
        BY DEF crash
    <2>2. batches' \in [DOMAIN batches' -> [msg : Messages, remaining : Int]]
        BY <2>1 DEF crash
    <2>3. IsFiniteSet(DOMAIN batches')
        BY <2>1, FS_EmptySet, Zenon
    <2> QED  BY <1>2, <2>1, <2>2, <2>3, SMTT(30) DEF ProducerTypes
<1>6. WorkerTypes'
    BY <1>2, SMTT(30) DEF crash, WorkerTypes, IdleWorker, NoListing, Values
<1> QED  BY <1>3, <1>4, <1>5, <1>6, Zenon

LEMMA StutterTyped == Typed /\ UNCHANGED vars => Typed'
BY DEF vars, world, gate, intake, auditing, rows, Typed, WorldTypes, RowTypes,
   FlagTypes, ProducerTypes, WorkerTypes, Messages, Events, Items

LEMMA TypedStep == Typed /\ [Next]_vars => Typed'
BY EnvironmentTyped, ProducerTyped, WorkerTyped, CoordinatorTyped, CrashTyped,
   StutterTyped, Zenon DEF Next

LEMMA AlwaysTyped == Spec => []Typed
BY InitTyped, TypedStep, PTL DEF Spec

(***************************************************************************)
(* No key is both cataloged and failed: a quarantine takes the row away in *)
(* the same transaction (catalog_object, apply_extract), a row write and a *)
(* delete clear the failure, and the sweep only takes rows away.           *)
(***************************************************************************)
THEOREM CatalogedOrFailed == Spec => []NeverCatalogedAndFailed
<1>1. Init => NeverCatalogedAndFailed
    BY DEF Init, NeverCatalogedAndFailed
<1>2. Typed /\ NeverCatalogedAndFailed /\ [Next]_vars => NeverCatalogedAndFailed'
    <2> SUFFICES ASSUME Typed, NeverCatalogedAndFailed, [Next]_vars
                 PROVE  NeverCatalogedAndFailed'
        OBVIOUS
    <2> USE DEF NeverCatalogedAndFailed
    <2>1. RowTypes
        BY DEF Typed
    <2>2. ASSUME NEW k \in Keys, NEW st, Writes(k, st) PROVE NeverCatalogedAndFailed'
        <3>1. CASE Quarantine(k) \/ delete_by_key(k)
            BY <2>1, <3>1, Zenon DEF RowTypes, Quarantine, delete_by_key
        <3>2. ASSUME NEW summary, RowWritten(k, st, summary)
              PROVE  NeverCatalogedAndFailed'
            BY <2>1, <3>2 DEF RowTypes, RowWritten
        <3>3. CASE UNCHANGED rows
            BY <3>3 DEF rows
        <3> QED  BY <2>2, <3>1, <3>2, <3>3, Zenon DEF Writes
    <2>3. CASE UNCHANGED rows
        BY <2>3 DEF rows
    <2>4. CASE applyEvent
        <3>1. note[worker.item.n].key \in Keys
            BY <2>4, EventKey DEF applyEvent, Typed, WorkerTypes
        <3> QED  BY <2>2, <2>4, <3>1, EventWrites, Zenon DEF applyEvent
    <2>5. ASSUME NEW k \in Keys, auditExtract(k) PROVE NeverCatalogedAndFailed'
        BY <2>2, <2>3, <2>5, ReadWrites, Zenon DEF auditExtract
    <2>6. CASE auditSweep
        BY <2>1, <2>6 DEF auditSweep, RowTypes
    <2>7. UNCHANGED rows \/ applyEvent \/ auditSweep \/ \E k \in Keys : auditExtract(k)
        BY Zenon DEF Next, Environment, upload, removeObject, noise, Emit, sendMessage,
           visibilityExpires, ProducerStep, drainAck, gateOpen, Process, processMessage,
           processed, producerStops, iterationFails, receive, ProducerOnly, WorkerStep,
           takeEvent, startAudit, auditCancelled, workerStops, eventRaises, auditFails,
           AwaitAudit, drained, enqueueAudit, drainStopped, auditDone, waitStopped,
           coordinatorStops, auditDue, CoordinatorOnly, on_signal, crash, vars
    <2> QED  BY <2>3, <2>4, <2>5, <2>6, <2>7
<1> QED  BY <1>1, <1>2, AlwaysTyped, PTL DEF Spec

-----------------------------------------------------------------------------
(* The last change of a key, and what the worker knows of the key.         *)

Latest(n) ==
  n \in Changes /\ \A o \in Changes : note[o].key = note[n].key => o <= n

\* What the worker looked up before the change is not in its hands any more.
Current(k) ==
  /\ worker.at = "event" /\ note[worker.item.n].key = k => worker.stat = bucket[k]
  /\ worker.at = "audit" => worker.listing[k] = bucket[k]

Fresh(k) == Settled(k) /\ Current(k)
Handled(n) == Latest(n) => Fresh(note[n].key)

StatLatest ==
  worker.at = "event" /\ Latest(worker.item.n) =>
    worker.stat = bucket[note[worker.item.n].key]
LastKind ==
  \A n \in DOMAIN note :
    Latest(n) => (note[n].kind = "catalog" <=> bucket[note[n].key] # Gone)
Seen == Typed /\ StatLatest /\ LastKind

Moves(kind, k) ==
  /\ Emit(kind, k)
  /\ \/ kind \in {"ignored", "malformed"} /\ bucket' = bucket
     \/ kind = "catalog" /\ \E v \in Versions : bucket' = [bucket EXCEPT ![k] = v]
     \/ kind = "delete" /\ bucket' = [bucket EXCEPT ![k] = Gone]

LEMMA WorldStep ==
    ASSUME [Next]_vars
    PROVE  \/ note' = note /\ bucket' = bucket
           \/ \E kind \in Kinds, k \in Keys : Moves(kind, k)
<1>1. ASSUME NEW k \in Keys, NEW v \in Versions, upload(k, v)
      PROVE  \E kind \in Kinds : Moves(kind, k)
    BY <1>1, "catalog" \in Kinds, Zenon DEF upload, Moves, Kinds
<1>2. ASSUME NEW k \in Keys, removeObject(k)
      PROVE  \E kind \in Kinds : Moves(kind, k)
    BY <1>2, "delete" \in Kinds, Zenon DEF removeObject, Moves, Kinds
<1>3. ASSUME NEW k \in Keys, NEW kind \in {"ignored", "malformed"}, noise(kind, k)
      PROVE  kind \in Kinds /\ Moves(kind, k)
    BY <1>3, Zenon DEF noise, Moves, Kinds
<1>4. \/ note' = note /\ bucket' = bucket
      \/ \E k \in Keys : \E v \in Versions : upload(k, v)
      \/ \E k \in Keys : removeObject(k)
      \/ \E k \in Keys : \E kind \in {"ignored", "malformed"} : noise(kind, k)
    BY Zenon DEF Next, Environment, sendMessage,
       visibilityExpires, ProducerStep, drainAck, gateOpen, Process, processMessage,
       processed, producerStops, iterationFails, receive, ProducerOnly, WorkerStep,
       takeEvent, applyEvent, startAudit, auditExtract, auditSweep, auditCancelled,
       workerStops, eventRaises, auditFails, AuditStep, WorkerOnly, world,
       AwaitAudit, drained, enqueueAudit, drainStopped, auditDone, waitStopped,
       coordinatorStops, auditDue, CoordinatorOnly, on_signal, crash, vars
<1> QED  BY <1>1, <1>2, <1>3, <1>4, Zenon

(* The notifications that were there.                                      *)
LEMMA NoteKept ==
    ASSUME Typed, [Next]_vars
    PROVE  /\ DOMAIN note \subseteq DOMAIN note'
           /\ \A n \in DOMAIN note : note'[n] = note[n]
           /\ \A n \in DOMAIN note : Relevant(n)' <=> Relevant(n)
<1>1. CASE note' = note
    BY <1>1 DEF Relevant
<1>2. ASSUME NEW kind \in Kinds, NEW k \in Keys, Emit(kind, k)
      PROVE  /\ DOMAIN note \subseteq DOMAIN note'
             /\ \A n \in DOMAIN note : note'[n] = note[n]
    <2>1. /\ DOMAIN note = 1..Len(note) /\ DOMAIN note' = 1..(Len(note) + 1)
          /\ Len(note) \in Nat
          /\ \A n \in DOMAIN note : note'[n] = note[n]
        BY <1>2, EmitKeeps, Zenon
    <2> QED  BY <2>1
<1> QED  BY <1>1, <1>2, WorldStep DEF Moves, Relevant

(* A change that is still the last of its key was so before, and its       *)
(* object is as it was.                                                    *)
LEMMA LatestKept ==
    ASSUME Typed, [Next]_vars, NEW n \in DOMAIN note, Latest(n)'
    PROVE  /\ Latest(n)
           /\ note'[n] = note[n] /\ note[n].key \in Keys
           /\ bucket'[note[n].key] = bucket[note[n].key]
<1>1. /\ DOMAIN note \subseteq DOMAIN note'
      /\ \A o \in DOMAIN note : note'[o] = note[o]
      /\ \A o \in DOMAIN note : Relevant(o)' <=> Relevant(o)
    BY NoteKept
<1>2. Latest(n)
    BY <1>1, Zenon DEF Latest, Changes
<1>3. note[n].key \in Keys
    BY NoteTyped, Zenon
<1>4. ASSUME NEW kind \in Kinds, NEW k \in Keys, Moves(kind, k)
      PROVE  bucket'[note[n].key] = bucket[note[n].key]
    <2>1. CASE bucket' = bucket
        BY <2>1, Zenon
    <2>2. CASE kind \in {"catalog", "delete"}
        <3> DEFINE o == Len(note) + 1
        <3>1. /\ DOMAIN note = 1..Len(note) /\ DOMAIN note' = 1..o
              /\ Len(note) \in Nat /\ note'[o] = [kind |-> kind, key |-> k]
            BY <1>4, EmitKeeps, Zenon DEF Moves
        <3>2. o \in Changes'
            BY <2>2, <3>1 DEF Changes, Relevant
        <3>3. ~ (o <= n)
            BY <3>1
        <3>4. note'[o].key # note'[n].key
            BY <3>2, <3>3, Zenon DEF Latest
        <3>5. note[n].key # k
            BY <1>1, <3>1, <3>4, SMTT(30)
        <3> QED  BY <1>3, <1>4, <3>5, Zenon DEF Moves, Typed, WorldTypes
    <2> QED  BY <1>4, <2>1, <2>2, Zenon DEF Moves
<1> QED  BY <1>1, <1>2, <1>3, <1>4, WorldStep, Zenon

(* What a step does with the worker and the rows.                          *)
LEMMA WorkerMoves ==
    ASSUME [Next]_vars
    PROVE  \/ UNCHANGED worker /\ UNCHANGED rows
           \/ worker' = IdleWorker /\ UNCHANGED rows
           \/ worker' = [worker EXCEPT !.at = "stopped"] /\ UNCHANGED rows
           \/ takeEvent \/ applyEvent \/ startAudit
           \/ \E k \in Keys : auditExtract(k)
           \/ auditSweep
BY Zenon DEF Next, Environment, upload, removeObject, noise, Emit, sendMessage,
   visibilityExpires, ProducerStep, drainAck, gateOpen, Process, processMessage,
   processed, producerStops, iterationFails, receive, ProducerOnly, WorkerStep,
   auditCancelled, workerStops, eventRaises, auditFails, finishAudit,
   AwaitAudit, drained, enqueueAudit, drainStopped, auditDone, waitStopped,
   coordinatorStops, auditDue, CoordinatorOnly, on_signal, crash, vars

LEMMA SeenStep == Seen /\ [Next]_vars => Seen'
<1> SUFFICES ASSUME Seen, [Next]_vars PROVE Seen'
    OBVIOUS
<1> USE DEF Seen
<1>1. Typed'
    BY TypedStep
<1>2. LastKind'
    <2> SUFFICES ASSUME NEW n \in DOMAIN note', Latest(n)'
                 PROVE  note'[n].kind = "catalog" <=> bucket'[note'[n].key] # Gone
        BY DEF LastKind
    <2>1. CASE n \in DOMAIN note
        <3>1. /\ Latest(n) /\ note'[n] = note[n]
              /\ bucket'[note[n].key] = bucket[note[n].key]
            BY <2>1, LatestKept, Zenon
        <3> QED  BY <2>1, <3>1, Zenon DEF LastKind
    <2>2. CASE n \notin DOMAIN note
        <3>1. PICK kind \in Kinds, k \in Keys : Moves(kind, k)
            BY <2>2, WorldStep, Zenon
        <3>2. n = Len(note) + 1 /\ note'[n] = [kind |-> kind, key |-> k]
            <4>1. /\ DOMAIN note = 1..Len(note) /\ DOMAIN note' = 1..(Len(note) + 1)
                  /\ Len(note) \in Nat
                  /\ note'[Len(note) + 1] = [kind |-> kind, key |-> k]
                BY <3>1, EmitKeeps, Zenon DEF Moves
            <4> QED  BY <2>2, <4>1
        <3>3. kind \in {"catalog", "delete"}
            BY <3>2 DEF Latest, Changes, Relevant
        <3>4. bucket \in [Keys -> Values]
            BY DEF Typed, WorldTypes
        <3> QED  BY <3>1, <3>2, <3>3, <3>4, IntakeConstants DEF Moves, Values
    <2> QED  BY <2>1, <2>2, Zenon
<1>3. StatLatest'
    <2> SUFFICES ASSUME worker'.at = "event", Latest(worker.item.n)'
                 PROVE  worker'.stat = bucket'[note'[worker'.item.n].key]
        BY Zenon DEF StatLatest
    <2>1. worker \in [at : {"idle", "event", "audit", "stopped"},
                 item : Items \cup {NoItem}, stat : Values,
                 listing : [Keys -> Values], todo : SUBSET Keys]
        BY Zenon DEF Typed, WorkerTypes
    <2>2. CASE worker' = worker
        <3>1. PICK n \in DOMAIN note : n = worker.item.n
            BY <2>2, EventKey, Zenon DEF Typed, WorkerTypes
        <3>2. Latest(n)'
            BY <2>2, <3>1, Zenon DEF Latest
        <3>3. /\ Latest(n) /\ note'[n] = note[n]
              /\ bucket'[note[n].key] = bucket[note[n].key]
            BY <3>2, LatestKept, Zenon
        <3>4. Latest(worker.item.n)
            BY <3>1, <3>3
        <3> QED  BY <2>2, <3>1, <3>3, <3>4, Zenon DEF StatLatest
    <2>3. CASE takeEvent
        BY <2>1, <2>3, Zenon DEF takeEvent, WorkerOnly, world
    <2>4. CASE \/ worker' = IdleWorker
               \/ worker' = [worker EXCEPT !.at = "stopped"]
               \/ applyEvent \/ startAudit \/ auditSweep
               \/ \E k \in Keys : auditExtract(k)
        <3>1. CASE \/ worker' = IdleWorker \/ worker' = [worker EXCEPT !.at = "stopped"]
                   \/ applyEvent \/ auditSweep
            BY <2>1, <3>1 DEF IdleWorker, applyEvent, auditSweep, finishAudit
        <3>2. CASE startAudit
            BY <2>1, <3>2 DEF startAudit
        <3>3. ASSUME NEW k \in Keys, auditExtract(k) PROVE worker'.at # "event"
            <4>1. worker.at = "audit" /\ worker' = [worker EXCEPT !.todo = @ \ {k}]
                BY <3>3, Zenon DEF auditExtract
            <4> QED  BY <2>1, <4>1
        <3> QED  BY <2>4, <3>1, <3>2, <3>3, Zenon
    <2> QED  BY <2>2, <2>3, <2>4, WorkerMoves
<1> QED  BY <1>1, <1>2, <1>3

LEMMA AlwaysSeen == Spec => []Seen
<1>1. Init => StatLatest /\ LastKind
    BY DEF Init, StatLatest, LastKind, IdleWorker
<1> QED  BY <1>1, InitTyped, SeenStep, PTL DEF Spec, Seen

(* A write of a key under the tag its object has leaves it settled, and    *)
(* any write leaves the other keys as they were.                           *)
LEMMA WritesSettle ==
    ASSUME Typed, NEW k \in Keys, Settled(k), bucket' = bucket,
           NEW j \in Keys, NEW st \in Values,
           j = k => st = bucket[k],
           catalog_object(j, st) \/ deleteGuarded(j, st)
             \/ (ReadAndWrite(j, st) /\ bucket[j] # Gone)
    PROVE  Settled(k)'
<1> USE DEF Settled
<1>1. RowTypes /\ Writes(j, st)
    BY EventWrites, ReadWrites, Zenon DEF Typed
<1>2. CASE UNCHANGED rows
    BY <1>2, Zenon DEF rows
<1>3. CASE Quarantine(j) \/ delete_by_key(j) \/ \E summary : RowWritten(j, st, summary)
    <2>1. CASE j # k
        BY <1>1, <1>3, <2>1, Zenon DEF RowTypes, Quarantine, delete_by_key, RowWritten
    <2>2. CASE j = k /\ \E summary : RowWritten(j, st, summary)
        <3>1. PICK summary : RowWritten(k, st, summary)
            BY <2>2, Zenon
        <3>2. catalog'[k] = [etag |-> st, summary |-> summary]
            BY <1>1, <3>1, Zenon DEF RowTypes, RowWritten
        <3> QED  BY <2>2, <3>2
    <2>3. CASE j = k /\ bucket[k] # Gone /\ Quarantine(j)
        BY <2>3 DEF Quarantine
    <2>4. CASE j = k /\ bucket[k] = Gone /\ (Quarantine(j) \/ delete_by_key(j))
        BY <1>1, <2>4 DEF RowTypes, Quarantine, delete_by_key, NoRow
    <2>5. CASE j = k /\ bucket[k] # Gone /\ delete_by_key(j)
        <3>1. catalog_object(k, st) \/ ReadAndWrite(k, st)
            BY <2>5, Zenon DEF deleteGuarded
        <3>2. CASE UNCHANGED rows
            BY <3>2, Zenon DEF rows
        <3>3. CASE ReadAndWrite(k, st)
            <4>1. Quarantine(k) \/ \E summary : RowWritten(k, st, summary)
                BY <3>3, Zenon DEF ReadAndWrite, WriteFileRow, RowWritten
            <4> QED  BY <2>2, <2>3, <2>5, <4>1
        <3> QED  BY <3>1, <3>2, <3>3, Zenon DEF catalog_object
    <2> QED  BY <1>3, <2>1, <2>2, <2>3, <2>4, <2>5, Zenon
<1> QED  BY <1>1, <1>2, <1>3, Zenon DEF Writes

(* A settled key the worker is current about stays so until its object     *)
(* changes.                                                                *)
LEMMA FreshStep ==
    ASSUME Typed, [Next]_vars, NEW k \in Keys, Fresh(k), bucket'[k] = bucket[k]
    PROVE  Fresh(k)'
<1> DEFINE W == [at : {"idle", "event", "audit", "stopped"},
                 item : Items \cup {NoItem}, stat : Values,
                 listing : [Keys -> Values], todo : SUBSET Keys]
<1>1. worker \in W /\ bucket \in [Keys -> Values]
    BY Zenon DEF Typed, WorkerTypes, WorldTypes
<1>2. Settled(k) /\ Current(k)
    BY DEF Fresh
<1>3. UNCHANGED rows => Settled(k)'
    BY <1>2, Zenon DEF rows, Settled
<1>4. worker'.at \in {"idle", "stopped"} => Current(k)'
    BY Zenon DEF Current
<1>5. ASSUME UNCHANGED worker, UNCHANGED rows PROVE Fresh(k)'
    <2>1. worker.at = "event" => note'[worker.item.n] = note[worker.item.n]
        BY NoteKept, EventKey, Zenon DEF Typed, WorkerTypes
    <2>2. Current(k)'
        BY <1>2, <1>5, <2>1 DEF Current
    <2> QED  BY <1>3, <1>5, <2>2, Zenon DEF Fresh
<1>6. ASSUME worker' = IdleWorker \/ worker' = [worker EXCEPT !.at = "stopped"],
             UNCHANGED rows
      PROVE  Fresh(k)'
    <2>1. worker'.at \in {"idle", "stopped"}
        BY <1>1, <1>6 DEF IdleWorker
    <2> QED  BY <1>3, <1>4, <1>6, <2>1 DEF Fresh
<1>7. CASE takeEvent
    <2>1. UNCHANGED rows /\ bucket' = bucket /\ note' = note
        BY <1>7 DEF takeEvent, WorkerOnly, world
    <2>2. worker' = [worker EXCEPT !.at = "event", !.item = Head(workq),
                                   !.stat = bucket[note[Head(workq).n].key]]
        BY <1>7 DEF takeEvent
    <2>3. /\ worker'.at = "event" /\ worker'.item = Head(workq)
          /\ worker'.stat = bucket[note[Head(workq).n].key]
        BY <1>1, <2>2, Zenon
    <2>4. Current(k)'
        BY <2>1, <2>3 DEF Current
    <2> QED  BY <1>3, <2>1, <2>4 DEF Fresh
<1>8. CASE startAudit
    <2>1. UNCHANGED rows /\ bucket' = bucket
        BY <1>8 DEF startAudit, AuditStep, WorkerOnly, world
    <2>2. worker'.at = "audit" /\ worker'.listing = bucket
        BY <1>1, <1>8, Zenon DEF startAudit
    <2>3. Current(k)'
        BY <2>1, <2>2, Zenon DEF Current
    <2> QED  BY <1>3, <2>1, <2>3 DEF Fresh
<1>9. CASE applyEvent
    <2> DEFINE j == note[worker.item.n].key
    <2>1. /\ j \in Keys /\ worker.stat \in Values /\ bucket' = bucket
          /\ worker'.at = "idle" /\ worker.at = "event"
        BY <1>1, <1>9, EventKey, Zenon
           DEF applyEvent, Typed, WorkerTypes, WorkerOnly, world, IdleWorker
    <2>2. j = k => worker.stat = bucket[k]
        BY <1>2, <2>1 DEF Current
    <2>3. catalog_object(j, worker.stat) \/ deleteGuarded(j, worker.stat)
        BY <1>9, Zenon DEF applyEvent
    <2>4. Settled(k)'
        <3> HIDE DEF j
        <3> QED  BY <1>2, <2>1, <2>2, <2>3, WritesSettle, Zenon
    <2> QED  BY <1>4, <2>1, <2>4, Zenon DEF Fresh
<1>10. ASSUME NEW j \in Keys, auditExtract(j) PROVE Fresh(k)'
    <2>1. /\ worker.at = "audit" /\ bucket' = bucket
          /\ worker' = [worker EXCEPT !.todo = @ \ {j}]
          /\ UNCHANGED rows \/ (bucket[j] # Gone /\ ReadAndWrite(j, worker.listing[j]))
        BY <1>10, Zenon DEF auditExtract, AuditStep, WorkerOnly, world
    <2>2. /\ worker'.at = "audit" /\ worker'.listing = worker.listing
          /\ worker.listing[j] \in Values
        BY <1>1, <2>1
    <2>3. j = k => worker.listing[j] = bucket[k]
        BY <1>2, <2>1 DEF Current
    <2>4. Settled(k)'
        BY <1>2, <1>3, <2>1, <2>2, <2>3, WritesSettle, Zenon
    <2>5. Current(k)'
        BY <1>2, <2>1, <2>2, Zenon DEF Current
    <2> QED  BY <2>4, <2>5 DEF Fresh
<1>11. CASE auditSweep
    <2>1. /\ worker.at = "audit" /\ bucket' = bucket /\ failures' = failures
          /\ worker'.at = "idle"
          /\ catalog'[k] = IF worker.listing[k] = Gone THEN NoRow ELSE catalog[k]
        BY <1>11, Zenon DEF auditSweep, finishAudit, AuditStep, WorkerOnly, world, IdleWorker
    <2>2. worker.listing[k] = bucket[k]
        BY <1>2, <2>1, Zenon DEF Current
    <2>3. Settled(k)'
        BY <1>2, <2>1, <2>2, SMTT(30) DEF Settled, NoRow
    <2> QED  BY <1>4, <2>1, <2>3, Zenon DEF Fresh
<1> QED  BY <1>5, <1>6, <1>7, <1>8, <1>9, <1>10, <1>11, WorkerMoves, Zenon

(* A change whose catalog entry is up to date stays handled.               *)
LEMMA HandledStable ==
    ASSUME Typed, [Next]_vars, NEW n \in DOMAIN note, Handled(n)
    PROVE  Handled(n)'
<1> SUFFICES ASSUME Latest(n)' PROVE Fresh(note[n].key)'
    BY Zenon DEF Handled
<1>1. /\ Latest(n) /\ note'[n] = note[n] /\ note[n].key \in Keys
      /\ bucket'[note[n].key] = bucket[note[n].key]
    BY LatestKept, Zenon
<1>2. PICK k \in Keys : k = note[n].key
    BY <1>1, Zenon
<1>3. Fresh(k)
    BY <1>1, <1>2, Zenon DEF Handled
<1>4. Fresh(k)'
    BY <1>1, <1>2, <1>3, FreshStep, Zenon
<1>5. note'[n].key = k
    BY <1>1, <1>2, Zenon
<1> QED  BY <1>4, <1>5 DEF Fresh, Settled, Current

(* The worker's commit of a record handles it.                             *)
LEMMA AppliedIsHandled ==
    ASSUME Seen, applyEvent, NEW n \in DOMAIN note, n = worker.item.n
    PROVE  Handled(n)'
<1> DEFINE st == worker.stat
<1>1. /\ worker.at = "event" /\ bucket' = bucket /\ note' = note
      /\ worker' = IdleWorker
    BY Zenon DEF applyEvent, WorkerOnly, world
<1>2. worker'.at = "idle"
    BY <1>1 DEF IdleWorker
<1> SUFFICES ASSUME Latest(n)' PROVE Fresh(note[n].key)'
    BY Zenon DEF Handled
<1>3. Latest(n)
    BY <1>1, Zenon DEF Latest, Changes, Relevant
<1>4. PICK k \in Keys : k = note[n].key
    BY NoteTyped, Zenon DEF Seen
<1>5. st = bucket[k]
    BY <1>1, <1>3, <1>4, Zenon DEF Seen, StatLatest
<1>6. note[n].kind = "catalog" <=> bucket[k] # Gone
    BY <1>3, <1>4, Zenon DEF Seen, LastKind
<1>7. RowTypes
    BY Zenon DEF Seen, Typed
<1> HIDE DEF st
<1>8. Settled(k)'
    <2>1. CASE bucket[k] = Gone
        <3>1. deleteGuarded(k, st)
            BY <1>4, <1>6, <2>1, Zenon DEF applyEvent, st
        <3>2. delete_by_key(k)
            BY <1>5, <2>1, <3>1, Zenon DEF deleteGuarded
        <3> QED  BY <1>1, <1>7, <2>1, <3>2, Zenon DEF delete_by_key, NoRow, RowTypes, Settled
    <2>2. CASE bucket[k] # Gone
        <3>1. catalog_object(k, st)
            BY <1>4, <1>6, <2>2, Zenon DEF applyEvent, st
        <3>2. CASE Unchanged(k, st) /\ UNCHANGED rows
            BY <1>1, <1>5, <3>2, Zenon DEF Unchanged, rows, Settled
        <3>3. CASE ReadAndWrite(k, st)
            <4>1. Quarantine(k) \/ \E summary : RowWritten(k, st, summary)
                BY <3>3, Zenon DEF ReadAndWrite, WriteFileRow, RowWritten
            <4>2. CASE Quarantine(k)
                BY <1>1, <2>2, <4>2, Zenon DEF Quarantine, Settled
            <4>3. ASSUME NEW summary, RowWritten(k, st, summary) PROVE Settled(k)'
                BY <1>1, <1>5, <1>7, <4>3, Zenon DEF RowWritten, RowTypes, Settled
            <4> QED  BY <4>1, <4>2, <4>3
        <3> QED  BY <1>5, <2>2, <3>1, <3>2, <3>3, Zenon DEF catalog_object
    <2> QED  BY <2>1, <2>2, Zenon
<1>9. Fresh(k)'
    BY <1>2, <1>8, Zenon DEF Fresh, Current
<1>10. note'[n].key = k
    BY <1>1, <1>4
<1> QED  BY <1>9, <1>10, Zenon DEF Fresh, Settled, Current

=============================================================================
