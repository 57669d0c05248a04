------------------------ MODULE EventIntake_theorems ------------------------
(***************************************************************************)
(* The two theorems about the S3 event tier that count: no change of the   *)
(* bucket is lost, and the intake gate accounts for every batch it let in. *)
(*                                                                         *)
(* A record of a received message is open while it is on the work queue,   *)
(* in the worker's hands, or its change is the last of its key and not yet *)
(* in the catalog.  A batch has never fewer records to go than open ones,  *)
(* so that a batch on the ack queue has none and its message may be        *)
(* deleted.                                                                *)
(***************************************************************************)
EXTENDS EventIntake_proofs

-----------------------------------------------------------------------------
(* The records of the batches.                                             *)

\* The records that belong to a batch the producer holds.
Belonging ==
  {e \in Events : /\ e.batch \in DOMAIN batches
                  /\ e.n \in batches[e.batch].msg /\ Relevant(e.n)}

Queued(n, b) == \E i \in DOMAIN workq : workq[i] = Event(n, b)
InHand(n, b) == worker.at = "event" /\ worker.item = Event(n, b)
Open(b) ==
  {n \in batches[b].msg : /\ Relevant(n)
                          /\ Queued(n, b) \/ InHand(n, b) \/ ~Handled(n)}

\* Every record is queued or in hand at most once.
Lines ==
  /\ workq \in Seq(Belonging \cup {AuditEntry})
  /\ \A i, j \in DOMAIN workq : i # j /\ workq[i] # AuditEntry => workq[i] # workq[j]
  /\ worker.at = "event" =>
       /\ worker.item \in Belonging
       /\ \A i \in DOMAIN workq : workq[i] # worker.item

Counted == \A b \in DOMAIN batches : Cardinality(Open(b)) <= batches[b].remaining

Acks ==
  /\ \A i \in DOMAIN ackq : ackq[i] \in DOMAIN batches /\ batches[ackq[i]].remaining = 0
  /\ \A i, j \in DOMAIN ackq : i # j => ackq[i] # ackq[j]

Accounts == Seen /\ Lines /\ Counted /\ Acks

LEMMA OpenFinite ==
    ASSUME Typed, NEW b \in DOMAIN batches
    PROVE  /\ batches[b].msg \subseteq DOMAIN note /\ batches[b].remaining \in Int
           /\ IsFiniteSet(Open(b)) /\ Cardinality(Open(b)) \in Nat
<1>1. batches[b].msg \subseteq DOMAIN note /\ batches[b].remaining \in Int
    BY DEF Typed, ProducerTypes, Messages
<1>2. Open(b) \in SUBSET DOMAIN note
    BY <1>1 DEF Open
<1>3. IsFiniteSet(Open(b))
    BY <1>2, NoteTyped, FS_Subset
<1> QED  BY <1>1, <1>3, FS_CardinalityType

(* A batch with a record on its way is not done.                           *)
LEMMA BusyBatch ==
    ASSUME Typed, Counted, NEW e \in Belonging,
           \/ \E i \in DOMAIN workq : workq[i] = e
           \/ worker.at = "event" /\ worker.item = e
    PROVE  batches[e.batch].remaining \in Nat \ {0}
<1> DEFINE b == e.batch
<1>1. b \in DOMAIN batches /\ e = Event(e.n, b)
    BY DEF Belonging, Events, Event
<1>2. e.n \in Open(b)
    BY <1>1, Zenon DEF Belonging, Open, Queued, InHand
<1>3. /\ IsFiniteSet(Open(b)) /\ Cardinality(Open(b)) \in Nat
      /\ batches[b].remaining \in Int
    BY <1>1, OpenFinite
<1>4. Cardinality(Open(b)) # 0
    BY <1>2, <1>3, FS_EmptySet
<1>5. Cardinality(Open(b)) <= batches[b].remaining
    BY <1>1 DEF Counted
<1> HIDE DEF b
<1> QED  BY <1>3, <1>4, <1>5 DEF b

(* A batch that is done has no open record.                                *)
LEMMA DoneBatch ==
    ASSUME Typed, Counted, NEW b \in DOMAIN batches, batches[b].remaining = 0
    PROVE  Open(b) = {}
<1>1. IsFiniteSet(Open(b)) /\ Cardinality(Open(b)) \in Nat
    BY OpenFinite
<1>2. Cardinality(Open(b)) <= 0
    BY DEF Counted
<1> QED  BY <1>1, <1>2, FS_EmptySet

(* A batch that is left alone gets no new open records.                    *)
LEMMA OpenShrinks ==
    ASSUME Typed, [Next]_vars, NEW b \in DOMAIN batches,
           batches'[b].msg = batches[b].msg,
           \A n \in DOMAIN note :
             Queued(n, b)' \/ InHand(n, b)' => Queued(n, b) \/ InHand(n, b)
    PROVE  Open(b)' \subseteq Open(b)
<1> SUFFICES ASSUME NEW n \in Open(b)' PROVE n \in Open(b)
    OBVIOUS
<1>1. n \in batches[b].msg /\ n \in DOMAIN note
    BY OpenFinite, Zenon DEF Open
<1>2. Relevant(n)' /\ (Queued(n, b)' \/ InHand(n, b)' \/ ~Handled(n)')
    BY Zenon DEF Open
<1>3. Relevant(n)
    BY <1>1, <1>2, NoteKept, Zenon
<1>4. Queued(n, b) \/ InHand(n, b) \/ ~Handled(n)
    BY <1>1, <1>2, HandledStable
<1> QED  BY <1>1, <1>3, <1>4 DEF Open

(* ... and so stays counted.                                               *)
LEMMA CountKept ==
    ASSUME Typed, Counted, [Next]_vars, NEW b \in DOMAIN batches,
           batches'[b] = batches[b],
           \A n \in DOMAIN note :
             Queued(n, b)' \/ InHand(n, b)' => Queued(n, b) \/ InHand(n, b)
    PROVE  Cardinality(Open(b)') <= batches'[b].remaining
<1> DEFINE A == Open(b)
           B == Open(b)'
<1>1. B \in SUBSET A
    BY OpenShrinks
<1>2. IsFiniteSet(A) /\ Cardinality(A) \in Nat /\ batches[b].remaining \in Int
    BY OpenFinite
<1>3. Cardinality(A) <= batches[b].remaining
    BY DEF Counted
<1> HIDE DEF A, B
<1>4. Cardinality(B) <= Cardinality(A) /\ Cardinality(B) \in Nat
    BY <1>1, <1>2, FS_Subset, FS_CardinalityType, Zenon
<1> QED  BY <1>2, <1>3, <1>4 DEF B

LEMMA BelongingKept ==
    ASSUME Typed, [Next]_vars, NEW e \in Belonging,
           e.batch \in DOMAIN batches', batches'[e.batch].msg = batches[e.batch].msg
    PROVE  e \in Belonging'
<1>1. e \in Events /\ e.n \in DOMAIN note
    BY DEF Belonging, Events
<1>2. e \in Events'
    BY <1>1, NoteKept DEF Events
<1>3. Relevant(e.n)'
    BY <1>1, NoteKept DEF Belonging
<1> QED  BY <1>2, <1>3 DEF Belonging

LEMMA EventInjective ==
    \A n, m, b, c : Event(n, b) = Event(m, c) <=> n = m /\ b = c
BY DEF Event

LEMMA EventIsNoAudit == \A n, b : Event(n, b) # AuditEntry
BY DEF Event, AuditEntry

LEMMA BelongingGrows ==
    ASSUME Typed, [Next]_vars,
           \A b \in DOMAIN batches :
             b \in DOMAIN batches' /\ batches'[b].msg = batches[b].msg
    PROVE  Belonging \subseteq Belonging'
<1> SUFFICES ASSUME NEW e \in Belonging PROVE e \in Belonging'
    OBVIOUS
<1>1. e.batch \in DOMAIN batches
    BY DEF Belonging
<1> QED  BY <1>1, BelongingKept

(* Steps that leave the batches and the queue.                             *)
LEMMA QuietAccounts ==
    ASSUME Accounts, [Next]_vars, UNCHANGED <<workq, batches, ackq>>,
           worker' = worker \/ worker'.at # "event"
    PROVE  Lines' /\ Counted' /\ Acks'
<1> USE DEF Accounts, Seen
<1>1. Belonging \subseteq Belonging'
    BY BelongingGrows
<1>2. Lines'
    <2>1. workq \in Seq(Belonging \cup {AuditEntry})
        BY DEF Lines
    <2>2. Belonging \cup {AuditEntry} \subseteq Belonging' \cup {AuditEntry}
        BY <1>1
    <2>3. workq \in Seq(Belonging' \cup {AuditEntry})
        BY <2>1, <2>2
    <2>4. worker'.at = "event" =>
            worker'.item \in Belonging' /\ \A i \in DOMAIN workq : workq[i] # worker'.item
        BY <1>1, Zenon DEF Lines
    <2> QED  BY <2>3, <2>4 DEF Lines
<1>3. Counted'
    <2> SUFFICES ASSUME NEW b \in DOMAIN batches
                 PROVE  Cardinality(Open(b)') <= batches'[b].remaining
        BY DEF Counted
    <2>1. \A n \in DOMAIN note :
             Queued(n, b)' \/ InHand(n, b)' => Queued(n, b) \/ InHand(n, b)
        BY DEF Queued, InHand
    <2> QED  BY <2>1, CountKept
<1>4. Acks'
    BY DEF Acks
<1> QED  BY <1>2, <1>3, <1>4

(* The head of the queue is taken: into the worker's hands when it is a    *)
(* record.                                                                 *)
LEMMA TakeAccounts ==
    ASSUME Accounts, [Next]_vars, takeEvent \/ startAudit
    PROVE  Lines' /\ Counted' /\ Acks'
<1> USE DEF Accounts, Seen
<1> DEFINE S == Belonging \cup {AuditEntry}
<1>1. /\ workq # <<>> /\ workq' = Tail(workq) /\ UNCHANGED <<batches, ackq>>
      /\ note' = note
    BY DEF takeEvent, startAudit, AuditStep, WorkerOnly, world
<1>2. workq \in Seq(S)
    BY DEF Lines
<1>3. /\ Head(workq) = workq[1] /\ Head(workq) \in S /\ 1 \in 1..Len(workq)
      /\ workq' \in Seq(S) /\ DOMAIN workq' = 1..(Len(workq) - 1)
      /\ \A i \in DOMAIN workq' : i + 1 \in 1..Len(workq) /\ workq'[i] = workq[i + 1]
      /\ DOMAIN workq = 1..Len(workq) /\ Len(workq) \in Nat
    <2> HIDE DEF S
    <2> QED  BY <1>1, <1>2, TailAt
<1>4. Belonging' = Belonging
    BY <1>1 DEF Belonging, Events, Relevant
<1>5. \A i, j \in DOMAIN workq' : i # j /\ workq'[i] # AuditEntry => workq'[i] # workq'[j]
    <2> SUFFICES ASSUME NEW i \in DOMAIN workq', NEW j \in DOMAIN workq',
                        i # j, workq'[i] # AuditEntry
                 PROVE  workq'[i] # workq'[j]
        OBVIOUS
    <2>1. /\ i + 1 \in DOMAIN workq /\ j + 1 \in DOMAIN workq /\ i + 1 # j + 1
          /\ workq'[i] = workq[i + 1] /\ workq'[j] = workq[j + 1]
        BY <1>3
    <2> QED  BY <2>1 DEF Lines
<1>6. worker'.at = "event" => worker'.item = Head(workq) /\ Head(workq).type = "event"
    BY Zenon DEF takeEvent, startAudit, Typed, WorkerTypes
<1>7. worker'.at = "event" =>
        worker'.item \in Belonging /\ \A i \in DOMAIN workq' : workq'[i] # worker'.item
    <2> SUFFICES ASSUME worker'.at = "event"
                 PROVE  /\ worker'.item \in Belonging
                        /\ \A i \in DOMAIN workq' : workq'[i] # worker'.item
        OBVIOUS
    <2>1. worker'.item = workq[1] /\ workq[1] \in S /\ workq[1] # AuditEntry
        BY <1>3, <1>6 DEF AuditEntry
    <2>2. ASSUME NEW i \in DOMAIN workq' PROVE workq'[i] # workq[1]
        <3>1. i + 1 \in DOMAIN workq /\ 1 \in DOMAIN workq /\ i + 1 # 1
            BY <1>3
        <3>2. workq[1] # workq[i + 1]
            BY <2>1, <3>1 DEF Lines
        <3> QED  BY <1>3, <3>2
    <2> QED  BY <2>1, <2>2
<1>8. Lines'
    BY <1>3, <1>4, <1>5, <1>7, Zenon DEF Lines
<1>9. Counted'
    <2> SUFFICES ASSUME NEW b \in DOMAIN batches
                 PROVE  Cardinality(Open(b)') <= batches'[b].remaining
        BY <1>1 DEF Counted
    <2>1. ASSUME NEW n, Queued(n, b)' PROVE Queued(n, b)
        <3>1. PICK i \in DOMAIN workq' : workq'[i] = Event(n, b)
            BY <2>1 DEF Queued
        <3> QED  BY <1>3, <3>1 DEF Queued
    <2>2. ASSUME NEW n, InHand(n, b)' PROVE Queued(n, b)
        <3>1. worker'.at = "event" /\ worker'.item = Event(n, b)
            BY <2>2 DEF InHand
        <3> QED  BY <1>3, <1>6, <3>1 DEF Queued
    <2> QED  BY <1>1, <2>1, <2>2, CountKept, Zenon
<1>10. Acks'
    BY <1>1 DEF Acks
<1> QED  BY <1>8, <1>9, <1>10, Zenon

(* The audit goes behind what is queued.                                   *)
LEMMA AuditAccounts ==
    ASSUME Accounts, [Next]_vars, workq' = Append(workq, AuditEntry),
           UNCHANGED <<batches, ackq, worker, note>>
    PROVE  Lines' /\ Counted' /\ Acks'
<1> USE DEF Accounts, Seen
<1> DEFINE S == Belonging \cup {AuditEntry}
<1>1. workq \in Seq(S) /\ AuditEntry \in S
    BY DEF Lines
<1>2. /\ DOMAIN workq = 1..Len(workq) /\ Len(workq) \in Nat
      /\ workq' \in Seq(S) /\ DOMAIN workq' = 1..(Len(workq) + 1)
      /\ \A i \in 1..Len(workq) : workq'[i] = workq[i]
      /\ workq'[Len(workq) + 1] = AuditEntry
    <2> HIDE DEF S
    <2> QED  BY <1>1, AppendAt
<1>3. Belonging' = Belonging
    BY DEF Belonging, Events, Relevant
<1>4. \A i \in DOMAIN workq' : workq'[i] # AuditEntry => i \in DOMAIN workq /\ workq'[i] = workq[i]
    BY <1>2
<1>5. \A i, j \in DOMAIN workq' : i # j /\ workq'[i] # AuditEntry => workq'[i] # workq'[j]
    <2> SUFFICES ASSUME NEW i \in DOMAIN workq', NEW j \in DOMAIN workq',
                        i # j, workq'[i] # AuditEntry, workq'[j] # AuditEntry
                 PROVE  workq'[i] # workq'[j]
        OBVIOUS
    <2> QED  BY <1>4 DEF Lines
<1>6. worker'.at = "event" =>
        worker'.item \in Belonging /\ \A i \in DOMAIN workq' : workq'[i] # worker'.item
    <2>1. \A e \in Belonging : e # AuditEntry
        BY DEF Belonging, Events, AuditEntry
    <2> QED  BY <1>4, <2>1, Zenon DEF Lines
<1>7. Lines'
    BY <1>2, <1>3, <1>5, <1>6, Zenon DEF Lines
<1>8. Counted'
    <2> SUFFICES ASSUME NEW b \in DOMAIN batches
                 PROVE  Cardinality(Open(b)') <= batches'[b].remaining
        BY DEF Counted
    <2>1. ASSUME NEW n, Queued(n, b)' PROVE Queued(n, b)
        <3>1. PICK i \in DOMAIN workq' : workq'[i] = Event(n, b)
            BY <2>1 DEF Queued
        <3> QED  BY <1>4, <3>1, EventIsNoAudit, Zenon DEF Queued
    <2>2. ASSUME NEW n, InHand(n, b)' PROVE InHand(n, b)
        BY <2>2 DEF InHand
    <2> QED  BY <2>1, <2>2, CountKept
<1>9. Acks'
    BY DEF Acks
<1> QED  BY <1>7, <1>8, <1>9, Zenon

(* The commit of a record: it was open, it is not any more, and its batch  *)
(* has one less to go.                                                     *)
LEMMA ApplyAccounts ==
    ASSUME Accounts, [Next]_vars, applyEvent
    PROVE  Lines' /\ Counted' /\ Acks'
<1> USE DEF Accounts, Seen
<1>1. /\ worker.at = "event" /\ workq' = workq /\ note' = note
      /\ worker'.at = "idle" /\ record_terminal(worker.item.batch)
    BY DEF applyEvent, WorkerOnly, world, IdleWorker
<1>2. PICK e \in Belonging : e = worker.item
    BY <1>1 DEF Lines
<1> DEFINE n == e.n
           b == e.batch
           r == batches[b].remaining
<1>3. b \in DOMAIN batches /\ n \in DOMAIN note /\ e = Event(n, b)
    BY DEF Belonging, Events, Event
<1>4. r \in Nat \ {0}
    BY <1>1, <1>2, BusyBatch
<1> HIDE DEF n, b, r
<1>5. /\ DOMAIN batches' = DOMAIN batches
      /\ batches'[b].msg = batches[b].msg /\ batches'[b].remaining = r - 1
      /\ \A c \in DOMAIN batches : c # b => batches'[c] = batches[c]
      /\ ackq' = IF r = 1 THEN Append(ackq, b) ELSE ackq
    <2>1. /\ batches' = [batches EXCEPT ![b].remaining = @ - 1]
          /\ ackq' = IF r = 1 THEN Append(ackq, b) ELSE ackq
        BY <1>1, <1>2 DEF record_terminal, BatchDone, b, r
    <2>2. batches[b] \in [msg : Messages, remaining : Int]
        BY <1>3 DEF Typed, ProducerTypes
    <2> QED  BY <1>3, <2>1, <2>2, Zenon DEF r
<1>6. \A c \in DOMAIN batches : c \in DOMAIN batches' /\ batches'[c].msg = batches[c].msg
    BY <1>5
<1>7. Lines'
    <2>1. Belonging \subseteq Belonging'
        BY <1>6, BelongingGrows
    <2>2. Belonging \cup {AuditEntry} \subseteq Belonging' \cup {AuditEntry}
        BY <2>1
    <2>3. workq \in Seq(Belonging' \cup {AuditEntry})
        BY <2>2 DEF Lines
    <2> QED  BY <1>1, <2>3 DEF Lines
<1>8. \A m, c : Queued(m, c)' => Queued(m, c)
    BY <1>1 DEF Queued
<1>9. \A m, c : ~InHand(m, c)'
    BY <1>1 DEF InHand
<1>10. Counted'
    <2> SUFFICES ASSUME NEW c \in DOMAIN batches
                 PROVE  Cardinality(Open(c)') <= batches'[c].remaining
        BY <1>5, Zenon DEF Counted
    <2>1. CASE c # b
        BY <1>5, <1>8, <1>9, <2>1, CountKept, Zenon
    <2>2. CASE c = b
        <3> DEFINE A == Open(c)
                   B == Open(c)'
        <3>1. B \in SUBSET A
            BY <1>6, <1>8, <1>9, OpenShrinks, Zenon
        <3>2. n \notin B
            <4>1. ~Queued(n, c)
                BY <1>1, <1>2, <1>3, <2>2, Zenon DEF Lines, Queued
            <4>2. Handled(n)'
                BY <1>2, <1>3, AppliedIsHandled, Zenon DEF n
            <4> QED  BY <1>8, <1>9, <4>1, <4>2, Zenon DEF Open
        <3>3. n \in A
            BY <1>1, <1>2, <1>3, <2>2, Zenon DEF Open, InHand, Belonging, n, b
        <3>4. IsFiniteSet(A) /\ Cardinality(A) \in Nat /\ Cardinality(A) <= r
            BY <2>2, OpenFinite DEF Counted, r
        <3> HIDE DEF A, B
        <3>5. B \in SUBSET (A \ {n})
            BY <3>1, <3>2, Zenon
        <3>6. IsFiniteSet(A \ {n}) /\ Cardinality(A \ {n}) = Cardinality(A) - 1
            BY <3>3, <3>4, FS_RemoveElement, Zenon
        <3>7. Cardinality(B) <= Cardinality(A \ {n}) /\ Cardinality(B) \in Nat
            BY <3>5, <3>6, FS_Subset, FS_CardinalityType, Zenon
        <3>8. Cardinality(B) <= r - 1
            BY <1>4, <3>4, <3>6, <3>7, SMTT(30)
        <3> QED  BY <1>5, <2>2, <3>8, Zenon DEF B
    <2> QED  BY <2>1, <2>2
<1>11. Acks'
    <2>1. \A i \in DOMAIN ackq : ackq[i] # b
        BY <1>4 DEF Acks, r
    <2>2. \A i \in DOMAIN ackq : ackq[i] \in DOMAIN batches' /\ batches'[ackq[i]].remaining = 0
        BY <1>5, <2>1, Zenon DEF Acks
    <2>3. CASE r # 1
        BY <1>5, <2>2, <2>3, Zenon DEF Acks
    <2>4. CASE r = 1
        <3>1. ackq \in Seq(Nat) /\ b \in Nat
            BY <1>3 DEF Typed, ProducerTypes
        <3>2. /\ DOMAIN ackq = 1..Len(ackq) /\ Len(ackq) \in Nat
              /\ DOMAIN ackq' = 1..(Len(ackq) + 1)
              /\ \A i \in 1..Len(ackq) : ackq'[i] = ackq[i]
              /\ ackq'[Len(ackq) + 1] = b
            BY <1>5, <2>4, <3>1, AppendAt, SMTT(30)
        <3>3. ASSUME NEW i \in DOMAIN ackq', i # Len(ackq) + 1
              PROVE  i \in DOMAIN ackq /\ ackq'[i] = ackq[i]
            BY <3>2, <3>3
        <3>4. ASSUME NEW i \in DOMAIN ackq'
              PROVE  ackq'[i] \in DOMAIN batches' /\ batches'[ackq'[i]].remaining = 0
            <4>1. CASE i = Len(ackq) + 1
                BY <1>3, <1>5, <2>4, <3>2, <4>1, SMTT(30)
            <4>2. CASE i # Len(ackq) + 1
                BY <2>2, <3>3, <4>2, Zenon
            <4> QED  BY <4>1, <4>2, Zenon
        <3>5. ASSUME NEW i \in DOMAIN ackq', NEW j \in DOMAIN ackq', i # j
              PROVE  ackq'[i] # ackq'[j]
            <4>1. CASE i # Len(ackq) + 1 /\ j # Len(ackq) + 1
                BY <3>3, <3>5, <4>1, Zenon DEF Acks
            <4>2. CASE i = Len(ackq) + 1 \/ j = Len(ackq) + 1
                BY <2>1, <3>2, <3>3, <3>5, <4>2, Zenon
            <4> QED  BY <4>1, <4>2
        <3> QED  BY <3>4, <3>5 DEF Acks
    <2> QED  BY <2>3, <2>4
<1> QED  BY <1>7, <1>10, <1>11, Zenon

(* A batch on the ack queue is let go: nothing of it is queued.            *)
LEMMA DrainAccounts ==
    ASSUME Accounts, [Next]_vars, drainAck
    PROVE  Lines' /\ Counted' /\ Acks'
<1> USE DEF Accounts, Seen
<1> DEFINE d == Head(ackq)
<1>1. /\ ackq # <<>> /\ ackq' = Tail(ackq) /\ UNCHANGED <<workq, worker, note>>
      /\ batches' = [b \in DOMAIN batches \ {d} |-> batches[b]]
    BY DEF drainAck, ProducerOnly
<1>2. /\ d = ackq[1] /\ 1 \in DOMAIN ackq
      /\ DOMAIN ackq' = 1..(Len(ackq) - 1)
      /\ \A i \in DOMAIN ackq' :
           i + 1 \in DOMAIN ackq /\ i \in Nat \ {0} /\ ackq'[i] = ackq[i + 1]
    <2>1. ackq \in Seq(Nat)
        BY DEF Typed, ProducerTypes
    <2>2. DOMAIN ackq = 1..Len(ackq) /\ Len(ackq) \in Nat
        BY <2>1
    <2>3. /\ Head(ackq) = ackq[1] /\ 1 \in 1..Len(ackq)
          /\ DOMAIN Tail(ackq) = 1..(Len(ackq) - 1)
          /\ \A i \in DOMAIN Tail(ackq) :
               i + 1 \in 1..Len(ackq) /\ Tail(ackq)[i] = ackq[i + 1]
        BY <1>1, <2>1, TailAt, Zenon
    <2> QED  BY <1>1, <2>2, <2>3
<1>3. d \in DOMAIN batches /\ batches[d].remaining = 0
    BY <1>2 DEF Acks
<1> HIDE DEF d
<1>4. /\ DOMAIN batches' = DOMAIN batches \ {d}
      /\ \A b \in DOMAIN batches' : batches'[b] = batches[b]
    BY <1>1
<1>5. ASSUME NEW e \in Belonging,
             \/ \E i \in DOMAIN workq : workq[i] = e
             \/ worker.at = "event" /\ worker.item = e
      PROVE  e \in Belonging'
    <2>1. batches[e.batch].remaining # 0 /\ e.batch \in DOMAIN batches
        BY <1>5, BusyBatch, Zenon DEF Belonging
    <2>2. e.batch \in DOMAIN batches'
        BY <1>3, <1>4, <2>1, Zenon
    <2> QED  BY <1>4, <2>2, BelongingKept, Zenon
<1>6. Lines'
    <2> DEFINE S == Belonging' \cup {AuditEntry}
    <2>1. /\ DOMAIN workq = 1..Len(workq) /\ Len(workq) \in Nat
          /\ \A i \in DOMAIN workq : workq[i] \in Belonging \cup {AuditEntry}
          /\ workq = [i \in DOMAIN workq |-> workq[i]]
        BY ElementAt, Zenon DEF Lines
    <2>2. \A i \in 1..Len(workq) : workq[i] \in S
        BY <1>5, <2>1
    <2>3. workq \in Seq(S)
        <3> HIDE DEF S
        <3>1. workq \in [1..Len(workq) -> S]
            BY <2>1, <2>2
        <3> QED  BY <2>1, <3>1
    <2>4. worker.at = "event" => worker.item \in Belonging'
        BY <1>5, Zenon DEF Lines
    <2> QED  BY <1>1, <2>3, <2>4 DEF Lines
<1>7. Counted'
    <2> SUFFICES ASSUME NEW b \in DOMAIN batches'
                 PROVE  Cardinality(Open(b)') <= batches'[b].remaining
        BY DEF Counted
    <2>1. \A n \in DOMAIN note :
             Queued(n, b)' \/ InHand(n, b)' => Queued(n, b) \/ InHand(n, b)
        BY <1>1 DEF Queued, InHand
    <2> QED  BY <1>4, <2>1, CountKept, Zenon
<1>8. Acks'
    <2>1. ASSUME NEW i \in DOMAIN ackq'
          PROVE  ackq'[i] \in DOMAIN batches' /\ batches'[ackq'[i]].remaining = 0
        <3>1. i + 1 \in DOMAIN ackq /\ i + 1 # 1 /\ ackq'[i] = ackq[i + 1]
            BY <1>2
        <3>2. ackq[i + 1] # d /\ ackq[i + 1] \in DOMAIN batches /\ batches[ackq[i + 1]].remaining = 0
            BY <1>2, <3>1, Zenon DEF Acks
        <3> QED  BY <1>4, <3>1, <3>2, Zenon
    <2>2. ASSUME NEW i \in DOMAIN ackq', NEW j \in DOMAIN ackq', i # j
          PROVE  ackq'[i] # ackq'[j]
        <3>1. /\ i + 1 \in DOMAIN ackq /\ j + 1 \in DOMAIN ackq /\ i + 1 # j + 1
              /\ ackq'[i] = ackq[i + 1] /\ ackq'[j] = ackq[j + 1]
            BY <1>2, <2>2
        <3> QED  BY <3>1 DEF Acks
    <2> QED  BY <2>1, <2>2, Zenon DEF Acks
<1> QED  BY <1>6, <1>7, <1>8, Zenon

(* A message is received: its records go behind the others, under a batch  *)
(* number no queued record has.                                            *)
LEMMA EnqueueAccounts ==
    ASSUME Accounts, [Next]_vars, NEW m \in Messages,
           UNCHANGED <<note, worker, ackq>>,
           EnqueueRecords(m, {n \in m : Relevant(n)})
    PROVE  Lines' /\ Counted' /\ Acks'
<1> USE DEF Accounts, Seen
<1> DEFINE records == {n \in m : Relevant(n)}
           D == DOMAIN batches
           c == Cardinality(records)
           S == Belonging' \cup {AuditEntry}
           l == Len(workq)
<1>1. /\ D \subseteq Nat /\ IsFiniteSet(D)
      /\ batches \in [D -> [msg : Messages, remaining : Int]]
    BY DEF Typed, ProducerTypes
<1>2. PICK b \in Nat \ D : b = FreshBatch
    BY <1>1, FreshIsNew
<1>3. records \in SUBSET DOMAIN note
    BY DEF Messages
<1>4. PICK order \in InOrder(records) :
         workq' = workq \o [i \in DOMAIN order |-> Event(order[i], b)]
    BY <1>2, Zenon DEF EnqueueRecords
<1> DEFINE new == [i \in DOMAIN order |-> Event(order[i], b)]
<1>5. batches' = [x \in D \cup {b} |->
                    IF x = b THEN [msg |-> m, remaining |-> c] ELSE batches[x]]
    BY <1>2, Zenon DEF EnqueueRecords
<1> HIDE DEF records, c
<1>6. /\ c \in Nat
      /\ new \in Seq(Items) /\ Len(new) = c
      /\ \A i \in 1..c : order[i] \in records /\ new[i] = Event(order[i], b)
      /\ \A i, j \in 1..c : i # j => order[i] # order[j]
    BY <1>2, <1>3, NewEvents, SMTT(30) DEF c
<1> HIDE DEF new
<1>7. /\ DOMAIN batches' = D \cup {b}
      /\ batches'[b] = [msg |-> m, remaining |-> c]
      /\ \A x \in D : x # b /\ batches'[x] = batches[x]
    BY <1>2, <1>5
<1>8. Belonging \subseteq Belonging'
    <2>1. \A x \in D : x \in DOMAIN batches' /\ batches'[x].msg = batches[x].msg
        BY <1>7
    <2> QED  BY <2>1, BelongingGrows, Zenon
<1>9. \A e \in Belonging : e.batch # b
    BY <1>2, Zenon DEF Belonging
<1>10. \A n \in records : Event(n, b) \in Belonging' /\ Event(n, b).batch = b
    <2> SUFFICES ASSUME NEW n \in records PROVE Event(n, b) \in Belonging' /\ Event(n, b).batch = b
        OBVIOUS
    <2>1. n \in m /\ Relevant(n)' /\ n \in DOMAIN note'
        BY <1>3 DEF records, Relevant
    <2> QED  BY <1>2, <1>7, <2>1, SMTT(30) DEF Belonging, Events, Event
<1>11. workq \in Seq(S)
    <2>1. Belonging \cup {AuditEntry} \subseteq S
        BY <1>8, Zenon
    <2>2. workq \in Seq(Belonging \cup {AuditEntry})
        BY DEF Lines
    <2> HIDE DEF S
    <2> QED  BY <2>1, <2>2
<1>12. new \in Seq(S)
    <2>1. \A i \in 1..c : new[i] \in S
        BY <1>6, <1>10
    <2>2. new \in [1..c -> Items]
        BY <1>6
    <2> HIDE DEF S
    <2>3. new \in [1..c -> S]
        BY <2>1, <2>2, Zenon
    <2> QED  BY <1>6, <2>3, SMTT(30)
<1>13. /\ workq' \in Seq(S) /\ l \in Nat
       /\ DOMAIN workq = 1..l /\ DOMAIN workq' = 1..(l + c)
       /\ \A i \in 1..(l + c) : workq'[i] = IF i <= l THEN workq[i] ELSE new[i - l]
    <2> HIDE DEF S
    <2> QED  BY <1>4, <1>6, <1>11, <1>12, SMTT(30) DEF new
<1> HIDE DEF l
\* An old position keeps its entry; a new one has a record of b.
<1>14. ASSUME NEW i \in DOMAIN workq'
       PROVE  \/ i \in DOMAIN workq /\ workq'[i] = workq[i]
              \/ /\ i \notin DOMAIN workq /\ i - l \in 1..c
                 /\ workq'[i] = Event(order[i - l], b) /\ order[i - l] \in records
    <2>1. CASE i <= l
        BY <1>13, <2>1
    <2>2. CASE i > l
        <3>1. i - l \in 1..c /\ i \notin DOMAIN workq /\ workq'[i] = new[i - l]
            BY <1>6, <1>13, <2>2
        <3> QED  BY <1>6, <3>1, Zenon
    <2> QED  BY <1>6, <1>13, <2>1, <2>2, SMTT(30)
<1>15. \A i \in DOMAIN workq : workq[i] \in Belonging \cup {AuditEntry}
    BY ElementAt, Zenon DEF Lines
<1>16. \A i \in DOMAIN workq : \A n : workq[i] # Event(n, b)
    BY <1>9, <1>15, EventIsNoAudit DEF Event
<1>17. \A i, j \in DOMAIN workq' : i # j /\ workq'[i] # AuditEntry => workq'[i] # workq'[j]
    <2> SUFFICES ASSUME NEW i \in DOMAIN workq', NEW j \in DOMAIN workq',
                        i # j, workq'[i] # AuditEntry
                 PROVE  workq'[i] # workq'[j]
        OBVIOUS
    <2>1. CASE i \in DOMAIN workq /\ j \in DOMAIN workq
        BY <1>14, <2>1, Zenon DEF Lines
    <2>2. CASE i \in DOMAIN workq /\ j \notin DOMAIN workq
        BY <1>14, <1>16, <2>2, Zenon
    <2>3. CASE i \notin DOMAIN workq /\ j \in DOMAIN workq
        BY <1>14, <1>16, <2>3, Zenon
    <2>4. CASE i \notin DOMAIN workq /\ j \notin DOMAIN workq
        <3>1. /\ i - l \in 1..c /\ j - l \in 1..c
              /\ workq'[i] = Event(order[i - l], b) /\ workq'[j] = Event(order[j - l], b)
            BY <1>14, <2>4, Zenon
        <3>2. i - l # j - l
            BY <1>6, <1>13
        <3>3. order[i - l] # order[j - l]
            BY <1>6, <3>1, <3>2, Zenon
        <3> QED  BY <3>1, <3>3, EventInjective, SMTT(30)
    <2> QED  BY <2>1, <2>2, <2>3, <2>4, Zenon
<1>18. worker'.at = "event" =>
         worker'.item \in Belonging' /\ \A i \in DOMAIN workq' : workq'[i] # worker'.item
    <2> SUFFICES ASSUME worker.at = "event"
                 PROVE  /\ worker.item \in Belonging'
                        /\ \A i \in DOMAIN workq' : workq'[i] # worker.item
        OBVIOUS
    <2>1. worker.item \in Belonging /\ \A i \in DOMAIN workq : workq[i] # worker.item
        BY Zenon DEF Lines
    <2>2. \A n : worker.item # Event(n, b)
        BY <1>9, <2>1 DEF Event
    <2> QED  BY <1>8, <1>14, <2>1, <2>2, Zenon
<1>19. Lines'
    BY <1>13, <1>17, <1>18, Zenon DEF Lines
<1>20. Counted'
    <2> SUFFICES ASSUME NEW x \in DOMAIN batches'
                 PROVE  Cardinality(Open(x)') <= batches'[x].remaining
        BY Zenon DEF Counted
    <2>1. CASE x \in D
        <3>1. ASSUME NEW n, Queued(n, x)' PROVE Queued(n, x)
            <4>1. PICK i \in DOMAIN workq' : workq'[i] = Event(n, x)
                BY <3>1, Zenon DEF Queued
            <4>2. x # b
                BY <1>7, <2>1, Zenon
            <4>3. i \in DOMAIN workq /\ workq'[i] = workq[i]
                BY <1>14, <4>1, <4>2, EventInjective
            <4> QED  BY <4>1, <4>3 DEF Queued
        <3>2. \A n \in DOMAIN note :
                 Queued(n, x)' \/ InHand(n, x)' => Queued(n, x) \/ InHand(n, x)
            BY <3>1, Zenon DEF InHand
        <3> QED  BY <1>7, <2>1, <3>2, CountKept, Zenon
    <2>2. CASE x = b
        <3> DEFINE B == Open(x)'
        <3>1. B \subseteq records
            BY <1>7, <2>2 DEF Open, records, Relevant
        <3>2. IsFiniteSet(records)
            BY <1>3, NoteTyped, FS_Subset, Zenon
        <3> HIDE DEF B
        <3>3. Cardinality(B) <= c
            BY <3>1, <3>2, FS_Subset, Zenon DEF c
        <3> QED  BY <1>7, <2>2, <3>3, SMTT(30) DEF B
    <2> QED  BY <1>7, <2>1, <2>2, Zenon
<1>21. Acks'
    BY <1>7, Zenon DEF Acks
<1> QED  BY <1>19, <1>20, <1>21, Zenon

(* The steps that move records, batches and acks.                          *)
LEMMA QueueMoves ==
    ASSUME Typed, [Next]_vars
    PROVE  \/ /\ UNCHANGED <<workq, batches, ackq>>
              /\ worker' = worker \/ worker'.at # "event"
           \/ takeEvent \/ startAudit \/ applyEvent \/ drainAck \/ crash
           \/ /\ workq' = Append(workq, AuditEntry)
              /\ UNCHANGED <<batches, ackq, worker, note>>
           \/ \E m \in producer.got :
                processMessage(m) /\ EnqueueRecords(m, {n \in m : Relevant(n)})
<1>1. ASSUME NEW m \in producer.got, processMessage(m)
      PROVE  \/ UNCHANGED <<workq, batches, ackq, worker>>
             \/ EnqueueRecords(m, {n \in m : Relevant(n)})
    BY <1>1, Zenon DEF processMessage, ProducerOnly
<1>2. IdleWorker.at # "event"
    BY DEF IdleWorker
<1>3. ASSUME NEW k \in Keys, auditExtract(k) PROVE worker'.at # "event"
    <2>1. worker.at = "audit" /\ worker' = [worker EXCEPT !.todo = @ \ {k}]
        BY <1>3, Zenon DEF auditExtract
    <2> QED  BY <2>1 DEF Typed, WorkerTypes
<1>4. workerStops => worker'.at # "event"
    BY DEF workerStops, Typed, WorkerTypes
<1>5. enqueueAudit =>
        \/ UNCHANGED <<workq, batches, ackq, worker>>
        \/ /\ workq' = Append(workq, AuditEntry)
           /\ UNCHANGED <<batches, ackq, worker, note>>
    BY Zenon DEF enqueueAudit, CoordinatorOnly, world, intake
<1> QED
    BY <1>1, <1>2, <1>3, <1>4, <1>5, ZenonT(30)
    DEF Next, Environment, upload, removeObject, noise, Emit, sendMessage,
       visibilityExpires, ProducerStep, gateOpen, Process,
       processed, producerStops, iterationFails, receive, ProducerOnly, WorkerStep,
       auditExtract, auditSweep, auditCancelled, workerStops, eventRaises, auditFails,
       NotTerminal, AuditStep, WorkerOnly, finishAudit,
       AwaitAudit, drained, drainStopped, auditDone, waitStopped, coordinatorStops, auditDue,
       CoordinatorOnly, on_signal, intake, vars

LEMMA CrashAccounts ==
    ASSUME crash
    PROVE  Lines' /\ Counted' /\ Acks'
<1>1. /\ workq' = <<>> /\ ackq' = <<>> /\ DOMAIN batches' = {} /\ worker'.at = "idle"
    BY DEF crash, IdleWorker
<1> QED  BY <1>1 DEF Lines, Counted, Acks

LEMMA AccountsStep == Accounts /\ [Next]_vars => Accounts'
<1> SUFFICES ASSUME Accounts, [Next]_vars PROVE Lines' /\ Counted' /\ Acks'
    BY SeenStep DEF Accounts
<1>1. ASSUME NEW m \in producer.got, processMessage(m),
             EnqueueRecords(m, {n \in m : Relevant(n)})
      PROVE  Lines' /\ Counted' /\ Acks'
    <2>1. m \in Messages
        BY DEF Accounts, Seen, Typed, ProducerTypes
    <2>2. UNCHANGED <<note, worker, ackq>>
        BY <1>1 DEF processMessage, ProducerOnly
    <2> QED  BY <1>1, <2>1, <2>2, EnqueueAccounts, Zenon
<1>2. Typed
    BY DEF Accounts, Seen
<1> QED  BY <1>1, <1>2, QueueMoves, QuietAccounts, TakeAccounts, ApplyAccounts,
            DrainAccounts, CrashAccounts, AuditAccounts, Zenon

LEMMA AlwaysAccounts == Spec => []Accounts
<1>1. Init => Lines /\ Counted /\ Acks
    BY SMTT(30) DEF Init, Lines, Counted, Acks, IdleWorker
<1>2. Init => Seen
    BY InitTyped, SMTT(30) DEF Init, Seen, StatLatest, LastKind, IdleWorker
<1> QED  BY <1>1, <1>2, AccountsStep, PTL DEF Spec, Accounts

-----------------------------------------------------------------------------
(* No change is lost.                                                      *)

Lossless == \A n \in Changes : Undeleted(n) \/ Handled(n)

(* A message leaves the queue service only when none of its changes is     *)
(* open.                                                                   *)
LEMMA DeletedIsHandled ==
    ASSUME Accounts, [Next]_vars, NEW n \in Changes, Undeleted(n), ~Undeleted(n)'
    PROVE  Handled(n)
<1> USE DEF Accounts, Seen
<1>1. CASE drainAck
    <2> DEFINE d == Head(ackq)
    <2>1. ackq \in Seq(Nat) /\ ackq # <<>>
        BY <1>1 DEF drainAck, Typed, ProducerTypes
    <2>2. 1 \in DOMAIN ackq /\ d = ackq[1]
        BY <2>1
    <2>3. d \in DOMAIN batches /\ batches[d].remaining = 0
        BY <2>2, Zenon DEF Acks
    <2>4. Open(d) = {}
        BY <2>3, DoneBatch, ZenonT(30)
    <2>5. n \in batches[d].msg
        BY <1>1 DEF drainAck, DeleteMessage, ProducerOnly, Undeleted
    <2>6. Relevant(n)
        BY DEF Changes
    <2> QED  BY <2>4, <2>5, <2>6, Zenon DEF Open
<1>2. ASSUME NEW m \in producer.got, processMessage(m) PROVE Handled(n)
    <2>1. unsent' = unsent
        BY <1>2 DEF processMessage, ProducerOnly
    <2>2. ~ UNCHANGED <<visible, invisible>>
        BY <2>1 DEF Undeleted
    <2>3. {x \in m : Relevant(x)} = {} /\ DeleteMessage(m)
        BY <1>2, <2>2, Zenon DEF processMessage, EnqueueRecords
    <2>4. n \in m
        BY <2>1, <2>3, Zenon DEF DeleteMessage, Undeleted
    <2> QED  BY <2>3, <2>4 DEF Changes
<1>3. ASSUME NEW ns \in SUBSET unsent, sendMessage(ns) PROVE FALSE
    BY <1>3 DEF sendMessage, Undeleted
<1>4. ASSUME NEW m \in invisible, visibilityExpires(m) PROVE FALSE
    BY <1>4, Zenon DEF visibilityExpires, Undeleted
<1>5. ASSUME NEW ms \in SUBSET visible, receive(ms) PROVE FALSE
    BY <1>5, Zenon DEF receive, ProducerOnly, Undeleted
<1>6. ASSUME NEW kind, NEW k, Emit(kind, k) PROVE FALSE
    BY <1>6 DEF Emit, Undeleted
<1>7. ~ UNCHANGED <<unsent, visible, invisible>>
    BY DEF Undeleted
<1> QED
    BY <1>1, <1>2, <1>3, <1>4, <1>5, <1>6, <1>7, ZenonT(30)
    DEF Next, Environment, upload, removeObject, noise,
       ProducerStep, gateOpen, Process, processed, producerStops, iterationFails,
       ProducerOnly, WorkerStep, takeEvent, applyEvent, startAudit, auditExtract,
       auditSweep, auditCancelled, workerStops, eventRaises, auditFails,
       AuditStep, WorkerOnly, AwaitAudit, drained, enqueueAudit, drainStopped, auditDone,
       waitStopped, coordinatorStops, auditDue, CoordinatorOnly, on_signal, crash,
       world, vars

LEMMA LosslessStep ==
    ASSUME Accounts, Lossless, [Next]_vars
    PROVE  Lossless'
<1> USE DEF Accounts, Seen
<1> SUFFICES ASSUME NEW n \in Changes' PROVE Undeleted(n)' \/ Handled(n)'
    BY Zenon DEF Lossless
<1>1. CASE n \in DOMAIN note
    <2>1. n \in Changes
        BY <1>1, NoteKept DEF Changes
    <2>2. Handled(n) => Handled(n)'
        BY <1>1, HandledStable
    <2>3. Undeleted(n) => Undeleted(n)' \/ Handled(n)
        BY <2>1, DeletedIsHandled
    <2> QED  BY <2>1, <2>2, <2>3, Zenon DEF Lossless
<1>2. CASE n \notin DOMAIN note
    <2>1. n \in DOMAIN note'
        BY DEF Changes
    <2>2. PICK kind \in Kinds, k \in Keys : Moves(kind, k)
        BY <1>2, <2>1, WorldStep, Zenon
    <2>3. /\ DOMAIN note = 1..Len(note) /\ DOMAIN note' = 1..(Len(note) + 1)
          /\ Len(note) \in Nat /\ unsent' = unsent \cup {Len(note) + 1}
        BY <2>2, EmitKeeps, Zenon DEF Moves
    <2>4. n \in unsent'
        BY <1>2, <2>1, <2>3
    <2> QED  BY <2>4 DEF Undeleted
<1> QED  BY <1>1, <1>2

(***************************************************************************)
(* No change of the bucket is lost, for any bucket, any message grouping,  *)
(* any order of deliveries and redeliveries, raised records, unreadable    *)
(* objects, overlapping audits, a crash and a stop: the producer deletes a *)
(* message (s3_producer's drain of the ack queue) only when the catalog    *)
(* accounts for every change of it that is still the last of its key.      *)
(***************************************************************************)
THEOREM NoChangeIsLost == Spec => []NoLostChange
<1>1. Init => Lossless
    BY DEF Init, Lossless, Changes
<1>2. Accounts /\ Lossless /\ [Next]_vars => Lossless'
    BY LosslessStep
<1>3. Accounts /\ Lossless => NoLostChange
    <2> SUFFICES ASSUME Accounts, Lossless, NEW k \in Keys,
                        {n \in Changes : note[n].key = k} # {}
                 PROVE  LET own == {n \in Changes : note[n].key = k} IN
                        Undeleted(Max(own)) \/ Settled(k)
        BY DEF NoLostChange
    <2> DEFINE own == {n \in Changes : note[n].key = k}
               last == Max(own)
    <2>1. own \subseteq 0..Len(note) /\ Len(note) \in Nat
        BY NoteTyped DEF Accounts, Seen, Changes
    <2>2. last \in own /\ \A o \in own : o <= last
        <3> HIDE DEF own
        <3> QED  BY <2>1, MaxIn, Zenon DEF own
    <2> HIDE DEF last
    <2>3. Latest(last) /\ note[last].key = k /\ last \in Changes
        BY <2>2 DEF Latest
    <2>4. Undeleted(last) \/ Fresh(note[last].key)
        BY <2>3 DEF Lossless, Handled
    <2>5. Undeleted(last) \/ Settled(k)
        BY <2>3, <2>4, Zenon DEF Fresh
    <2> QED  BY <2>5 DEF last
<1> QED  BY <1>1, <1>2, <1>3, AlwaysAccounts, PTL DEF Spec

-----------------------------------------------------------------------------
(* The gate's counters.                                                    *)

Remaining == [b \in DOMAIN batches |-> batches[b].remaining]
Gauge ==
  /\ outstanding = Cardinality(DOMAIN batches)
  /\ buffered = SumFunctionOnSet(Remaining, DOMAIN batches)

LEMMA RemainingTyped ==
    ASSUME Accounts
    PROVE  /\ IsFiniteSet(DOMAIN batches)
           /\ \A b \in DOMAIN batches : Remaining[b] \in Nat
           /\ Cardinality(DOMAIN batches) \in Nat
           /\ SumFunctionOnSet(Remaining, DOMAIN batches) \in Nat
<1> USE DEF Accounts, Seen
<1>1. IsFiniteSet(DOMAIN batches)
    BY DEF Typed, ProducerTypes
<1>2. \A b \in DOMAIN batches : Remaining[b] \in Nat
    <2> SUFFICES ASSUME NEW b \in DOMAIN batches PROVE batches[b].remaining \in Nat
        BY DEF Remaining
    <2>1. batches[b].remaining \in Int /\ Cardinality(Open(b)) \in Nat
        BY OpenFinite, Zenon
    <2> QED  BY <2>1 DEF Counted
<1> QED  BY <1>1, <1>2, SumType, FS_CardinalityType, Zenon

LEMMA GaugeMoves ==
    ASSUME [Next]_vars
    PROVE  \/ UNCHANGED <<batches, outstanding, buffered>>
           \/ applyEvent \/ drainAck \/ crash
           \/ \E m \in producer.got : note' = note /\ EnqueueRecords(m, {n \in m : Relevant(n)})
<1>1. ASSUME NEW m \in producer.got, processMessage(m)
      PROVE  \/ UNCHANGED <<batches, outstanding, buffered>>
             \/ note' = note /\ EnqueueRecords(m, {n \in m : Relevant(n)})
    BY <1>1, Zenon DEF processMessage, ProducerOnly, gate
<1> QED
    BY <1>1, ZenonT(30)
    DEF Next, Environment, upload, removeObject, noise, Emit, sendMessage,
       visibilityExpires, ProducerStep, gateOpen, Process,
       processed, producerStops, iterationFails, receive, ProducerOnly, WorkerStep,
       takeEvent, startAudit, auditExtract, auditSweep, auditCancelled, workerStops,
       eventRaises, auditFails, NotTerminal, AuditStep, WorkerOnly,
       AwaitAudit, drained, enqueueAudit, drainStopped, auditDone, waitStopped,
       coordinatorStops, auditDue, CoordinatorOnly, on_signal, gate, intake, vars

LEMMA GaugeStep ==
    ASSUME Accounts, Gauge, [Next]_vars
    PROVE  Gauge'
<1> USE DEF Accounts, Seen
<1> DEFINE D == DOMAIN batches
           f == Remaining
           g == Remaining'
           F == SumFunctionOnSet(f, D)
<1>1. /\ IsFiniteSet(D) /\ Cardinality(D) \in Nat /\ F \in Nat
      /\ \A b \in D : f[b] \in Nat
      /\ outstanding = Cardinality(D) /\ buffered = F
    BY RemainingTyped DEF Gauge
<1>2. /\ \A b \in D : f[b] = batches[b].remaining
      /\ \A b \in DOMAIN batches' : g[b] = batches'[b].remaining
    BY DEF Remaining
<1>3. CASE UNCHANGED <<batches, outstanding, buffered>>
    BY <1>3, Zenon DEF Gauge, Remaining
<1>4. CASE crash
    <2>1. outstanding' = 0 /\ buffered' = 0 /\ DOMAIN batches' = {}
        BY <1>4 DEF crash
    <2> QED  BY <2>1, SumEmpty, FS_EmptySet, Zenon DEF Gauge
<1>5. CASE applyEvent
    <2>1. worker.at = "event" /\ record_terminal(worker.item.batch) /\ outstanding' = outstanding
        BY <1>5, Zenon DEF applyEvent, WorkerOnly
    <2>2. PICK e \in Belonging : e = worker.item
        BY <2>1 DEF Lines
    <2>3. PICK b \in D : b = e.batch
        BY Zenon DEF Belonging
    <2>4. batches[b].remaining \in Nat \ {0}
        BY <2>1, <2>2, <2>3, BusyBatch, Zenon
    <2>5. /\ DOMAIN batches' = D
          /\ batches'[b].remaining = batches[b].remaining - 1
          /\ \A c \in D : c # b => batches'[c] = batches[c]
          /\ buffered' = IF buffered = 0 THEN 0 ELSE buffered - 1
        <3>1. /\ batches' = [batches EXCEPT ![b].remaining = @ - 1]
              /\ buffered' = IF buffered = 0 THEN 0 ELSE buffered - 1
            BY <2>1, <2>2, <2>3, Zenon DEF record_terminal
        <3>2. batches[b] \in [msg : Messages, remaining : Int]
            BY Zenon DEF Typed, ProducerTypes
        <3> QED  BY <3>1, <3>2
    <2>6. \A c \in D : g[c] \in Nat
        BY <1>1, <1>2, <2>4, <2>5, SMTT(30)
    <2>7. \A c \in D \ {b} : f[c] = g[c]
        BY <1>2, <2>5, Zenon
    <2>8. g[b] = f[b] - 1 /\ f[b] \in Nat \ {0}
        BY <1>2, <2>4, <2>5, Zenon
    <2> DEFINE R == D \ {b}
               RF == SumFunctionOnSet(f, R)
               RG == SumFunctionOnSet(g, R)
               G == SumFunctionOnSet(g, D)
    <2> HIDE DEF D, f, g, F
    <2>9. IsFiniteSet(R)
        BY <1>1, FS_RemoveElement, Zenon
    <2>10. F = f[b] + RF
        BY <1>1, <2>3, SumRemove, SMTT(30) DEF F
    <2>11. G = g[b] + RG
        BY <1>1, <2>3, <2>6, SumRemove
    <2>12. RF = RG
        BY <2>7, <2>9, SumSame, Zenon
    <2>13. RF \in Nat
        BY <1>1, <2>9, SumType, Zenon
    <2> HIDE DEF R, RF, RG, G
    <2>14. G = buffered'
        BY <1>1, <2>5, <2>8, <2>10, <2>11, <2>12, <2>13, SMTT(30)
    <2> QED  BY <1>1, <2>1, <2>5, <2>14, Zenon DEF Gauge, G, D, g
<1>6. CASE drainAck
    <2> DEFINE d == Head(ackq)
               R == D \ {d}
    <2>1. /\ ackq # <<>> /\ buffered' = buffered
          /\ batches' = [b \in R |-> batches[b]]
          /\ outstanding' = IF outstanding = 0 THEN 0 ELSE outstanding - 1
        BY <1>6 DEF drainAck, batch_acked
    <2>2. 1 \in DOMAIN ackq /\ d = ackq[1]
        BY <2>1 DEF Typed, ProducerTypes
    <2>3. d \in D /\ f[d] = 0
        BY <1>2, <2>2 DEF Acks
    <2> HIDE DEF d
    <2>4. DOMAIN batches' = R /\ \A b \in R : f[b] = g[b]
        BY <1>2, <2>1, Zenon
    <2> HIDE DEF D, f, g, F
    <2>5. IsFiniteSet(R) /\ Cardinality(R) = Cardinality(D) - 1
        BY <1>1, <2>3, FS_RemoveElement, Zenon
    <2>6. F = f[d] + SumFunctionOnSet(f, R)
        BY <1>1, <2>3, SumRemove, Zenon DEF F
    <2>7. SumFunctionOnSet(f, R) = SumFunctionOnSet(g, R)
        BY <2>4, <2>5, SumSame, Zenon
    <2>8. SumFunctionOnSet(f, R) \in Nat
        BY <1>1, <2>5, SumType, Zenon
    <2>9. SumFunctionOnSet(g, R) = F
        BY <2>3, <2>6, <2>7, <2>8
    <2>10. Cardinality(R) \in Nat
        BY <2>5, FS_CardinalityType, Zenon
    <2>11. outstanding' = Cardinality(R)
        BY <1>1, <2>1, <2>5, <2>10
    <2> QED  BY <1>1, <2>1, <2>4, <2>9, <2>11, Zenon DEF Gauge, g
<1>7. ASSUME NEW m \in producer.got, note' = note,
             EnqueueRecords(m, {n \in m : Relevant(n)})
      PROVE  Gauge'
    <2> DEFINE records == {n \in m : Relevant(n)}
               c == Cardinality(records)
    <2>1. PICK b \in Nat \ D : b = FreshBatch
        BY <1>1, FreshIsNew, Zenon DEF Typed, ProducerTypes
    <2>2. /\ batches' = [x \in D \cup {b} |->
                    IF x = b THEN [msg |-> m, remaining |-> c] ELSE batches[x]]
          /\ outstanding' = outstanding + 1 /\ buffered' = buffered + c
        BY <1>7, <2>1, Zenon DEF EnqueueRecords, batch_received
    <2>3. c \in Nat
        <3>1. records \in SUBSET DOMAIN note
            BY Zenon DEF Messages, Typed, ProducerTypes
        <3>2. IsFiniteSet(records)
            BY <3>1, NoteTyped, FS_Subset, Zenon
        <3> QED  BY <3>2, FS_CardinalityType, Zenon
    <2> HIDE DEF c
    <2>4. /\ DOMAIN batches' = D \cup {b} /\ g[b] = c
          /\ \A x \in D : f[x] = g[x]
        BY <1>2, <2>1, <2>2, Zenon
    <2> HIDE DEF D, f, g, F
    <2>5. \A x \in D \cup {b} : g[x] \in Nat
        BY <1>1, <2>3, <2>4, Zenon
    <2>6. b \notin D
        BY <2>1, Zenon
    <2>7. SumFunctionOnSet(g, D \cup {b}) = SumFunctionOnSet(g, D) + g[b]
        BY <1>1, <2>5, <2>6, SumAdd, Zenon
    <2>8. SumFunctionOnSet(f, D) = SumFunctionOnSet(g, D)
        BY <1>1, <2>4, SumSame, Zenon
    <2>9. Cardinality(D \cup {b}) = Cardinality(D) + 1
        BY <1>1, <2>6, FS_AddElement, Zenon
    <2>10. outstanding' = Cardinality(D \cup {b})
        BY <1>1, <2>2, <2>9, Zenon
    <2>11. buffered' = SumFunctionOnSet(g, D \cup {b})
        BY <1>1, <2>2, <2>4, <2>7, <2>8, Zenon DEF F
    <2> QED  BY <2>4, <2>10, <2>11, Zenon DEF Gauge, g
<1> QED  BY <1>3, <1>4, <1>5, <1>6, <1>7, GaugeMoves, Zenon

(***************************************************************************)
(* The gate accounts for what it let in (batch_received, record_done,      *)
(* batch_acked): outstanding is the number of batches the producer holds,  *)
(* buffered the records they have to go, and a batch on the ack queue has  *)
(* none, so that wait_drained returns only when every received batch was   *)
(* acked.                                                                  *)
(***************************************************************************)
THEOREM GateAccounts == Spec => []TypeOK
<1>1. Init => Gauge
    <2> SUFFICES ASSUME Init PROVE Gauge
        BY Zenon
    <2>1. outstanding = 0 /\ buffered = 0 /\ DOMAIN batches = {}
        BY SMTT(30) DEF Init
    <2> QED  BY <2>1, SumEmpty, FS_EmptySet, SMTT(30) DEF Gauge
<1>2. Accounts /\ Gauge /\ [Next]_vars => Gauge'
    BY GaugeStep
<1>3. Accounts /\ Gauge => TypeOK
    <2> SUFFICES ASSUME Accounts, Gauge PROVE TypeOK
        OBVIOUS
    <2>1. Typed
        BY DEF Accounts, Seen
    <2>2. Range(ackq) \subseteq {b \in DOMAIN batches : batches[b].remaining = 0}
        BY DEF Range, Accounts, Acks
    <2>3. /\ outstanding = Cardinality(DOMAIN batches)
          /\ buffered = SumFunctionOnSet(
               [b \in DOMAIN batches |-> batches[b].remaining], DOMAIN batches)
        BY DEF Gauge, Remaining
    <2>4. /\ bucket \in [Keys -> Versions \cup {Gone}]
          /\ note \in Seq([kind : {"catalog", "delete", "ignored", "malformed"}, key : Keys])
          /\ unsent \subseteq DOMAIN note
          /\ visible \subseteq Messages /\ invisible \subseteq Messages
          /\ budget \subseteq AllFaults
        BY <2>1, Zenon DEF Typed, WorldTypes, Values, Kinds
    <2>5. /\ producer.at \in {"drain", "poll", "process", "stopped"}
          /\ producer.got \subseteq Messages
          /\ \A b \in DOMAIN batches : batches[b].msg \in Messages
          /\ worker.at \in {"idle", "event", "audit", "stopped"}
        BY <2>1 DEF Typed, ProducerTypes, WorkerTypes
    <2>6. RowTypes /\ FlagTypes
        BY <2>1 DEF Typed
    <2> QED  BY <2>2, <2>3, <2>4, <2>5, <2>6, Zenon DEF TypeOK, RowTypes, FlagTypes, Values
<1> QED  BY <1>1, <1>2, <1>3, AlwaysAccounts, PTL DEF Spec
=============================================================================
