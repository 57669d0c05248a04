---------------------------- MODULE EventIntake ----------------------------
(***************************************************************************)
(* The S3 event tier of the catalog builder: bucket notifications arrive   *)
(* in an SQS queue, the producer thread (s3_producer.py) receives them and *)
(* puts their records on the work queue, the worker thread (worker_loop)   *)
(* applies each record to the catalog, and the producer deletes a message  *)
(* once every record of it was committed.  The audit coordinator closes    *)
(* the intake, waits for the received batches, and puts a full reconcile   *)
(* on the same work queue.                                                 *)
(*                                                                         *)
(* A notification is known by its position in `note'; an SQS message is a  *)
(* set of notifications.  Object contents are abstract versions, and the   *)
(* ETag of a version is the version itself, as S3 computes it from the     *)
(* content.  A catalog row is the ETag it was written under and the        *)
(* version its summary was read from.  A poll or an audit may fail at any  *)
(* time; each fault of the scenario happens once.                          *)
(***************************************************************************)
EXTENDS Integers, Sequences, FiniteSets, FiniteSetsExt, Functions

CONSTANTS Keys,         \* object keys
          Versions,     \* object contents
          Stored,       \* how many keys are stored and cataloged at the start
          MaxNotes,     \* bound: notifications the bucket emits
          MaxBuffered,  \* max_buffered_records
          Scenarios     \* sets of faults that may happen together, each once

AllFaults == {"raise", "unreadable", "unwritable", "abandon", "stop",
              "crash", "noise"}

Gone == "gone"
NoRow == [etag |-> Gone, summary |-> Gone]

ASSUME IntakeConstants ==
  /\ MaxNotes \in Nat /\ Stored \in 0..Cardinality(Keys)
  /\ MaxBuffered \in Nat \ {0}
  /\ Scenarios \subseteq SUBSET AllFaults
  /\ Gone \notin Versions

VARIABLES
  bucket,      \* the object store: key -> version or Gone
  note,        \* every notification the bucket emitted, in order
  unsent,      \* notifications not yet in a message
  visible,     \* messages SQS may hand out
  invisible,   \* messages received and inside their visibility timeout
  budget,      \* faults still to come
  paused,      \* IntakeGate._paused
  buffered,    \* IntakeGate._records_buffered
  outstanding, \* IntakeGate._batches_outstanding
  producer,    \* [at, got]: where the producer thread is, messages in hand
  batches,     \* SqsBatch objects not yet acked: id -> [msg, remaining]
  ackq,        \* batches whose records are all terminal
  workq,       \* the work queue: EventRecords and the AuditItem
  coordinator, \* "idle", "draining", "drained", "waiting", "stopped"
  audit,       \* AuditItem._state, or "none"
  worker,      \* [at, item, stat, listing, todo] of the worker thread
  catalog,     \* files: key -> row
  failures,    \* catalog_failures
  stop         \* stop_event

world == <<bucket, note, unsent, visible, invisible>>
gate == <<paused, buffered, outstanding>>
intake == <<producer, batches, ackq>>
auditing == <<coordinator, audit>>
rows == <<catalog, failures>>
vars == <<world, budget, gate, intake, workq, auditing, worker, rows, stop>>

NoItem == [type |-> "none", n |-> 0, batch |-> 0]
AuditEntry == [type |-> "audit", n |-> 0, batch |-> 0]
Event(n, b) == [type |-> "event", n |-> n, batch |-> b]
NoListing == [k \in Keys |-> Gone]
IdleWorker == [at |-> "idle", item |-> NoItem, stat |-> Gone,
               listing |-> NoListing, todo |-> {}]

\* The threads as main starts them over an existing catalog.
Init ==
  /\ bucket \in [Keys -> Versions \cup {Gone}]
  /\ Cardinality({k \in Keys : bucket[k] # Gone}) = Stored
  /\ note = <<>> /\ unsent = {} /\ visible = {} /\ invisible = {}
  /\ budget \in Scenarios
  /\ catalog = [k \in Keys |-> [etag |-> bucket[k], summary |-> bucket[k]]]
  /\ failures = {}
  /\ paused = FALSE /\ buffered = 0 /\ outstanding = 0
  /\ producer = [at |-> "drain", got |-> {}]
  /\ batches = <<>> /\ ackq = <<>> /\ workq = <<>>
  /\ coordinator = "idle" /\ audit = "none"
  /\ worker = IdleWorker
  /\ stop = FALSE

Happens(fault) == fault \in budget /\ budget' = budget \ {fault}

-----------------------------------------------------------------------------
(* The bucket and the queue service.                                       *)

Emit(kind, k) ==
  /\ note' = Append(note, [kind |-> kind, key |-> k])
  /\ unsent' = unsent \cup {Len(note) + 1}
  /\ UNCHANGED <<visible, invisible, gate, intake, workq, auditing, worker,
                 rows, stop>>

Relevant(n) == note[n].kind \in {"catalog", "delete"}
Changes == {n \in DOMAIN note : Relevant(n)}

upload(k, v) ==
  /\ Len(note) < MaxNotes
  /\ bucket' = [bucket EXCEPT ![k] = v]
  /\ Emit("catalog", k)
  /\ UNCHANGED budget

removeObject(k) ==
  /\ Len(note) < MaxNotes
  /\ bucket[k] # Gone
  /\ bucket' = [bucket EXCEPT ![k] = Gone]
  /\ Emit("delete", k)
  /\ UNCHANGED budget

\* A record of another kind, or a body that does not parse, is sent.  Nobody
\* reads its key: one stands for all.
anyKey == CHOOSE k \in Keys : TRUE

noise(kind, k) ==
  /\ Len(note) < MaxNotes
  /\ Happens("noise") /\ k = anyKey
  /\ Emit(kind, k)
  /\ UNCHANGED bucket

\* One message carries the records of one or more notifications.
sendMessage(ns) ==
  /\ ns # {} /\ ns \subseteq unsent
  /\ (\E n \in ns : note[n].kind = "malformed") => Cardinality(ns) = 1
  /\ unsent' = unsent \ ns
  /\ visible' = visible \cup {ns}
  /\ UNCHANGED <<bucket, note, invisible, budget, gate, intake, workq,
                 auditing, worker, rows, stop>>

visibilityExpires(m) ==
  /\ m \in invisible
  /\ invisible' = invisible \ {m}
  /\ visible' = visible \cup {m}
  /\ UNCHANGED <<bucket, note, unsent, budget, gate, intake, workq, auditing,
                 worker, rows, stop>>

\* DeleteMessage: it may fail, or come on an expired receipt.
DeleteMessage(m) ==
  \/ visible' = visible \ {m} /\ invisible' = invisible \ {m}
  \/ UNCHANGED <<visible, invisible>>

-----------------------------------------------------------------------------
(* s3_event_producer: drain the ack queue, look at the gate, long-poll,    *)
(* process what came.                                                      *)

ProducerOnly == UNCHANGED <<bucket, note, unsent, auditing, worker, rows, stop>>

\* Mutant of batch_acked: the batch stays counted.
ackNotCounted(b) == UNCHANGED outstanding
batch_acked(b) == outstanding' = IF outstanding = 0 THEN 0 ELSE outstanding - 1

drainAck ==
  /\ producer.at = "drain"
  /\ ackq # <<>>
  /\ DeleteMessage(batches[Head(ackq)].msg)
  /\ batch_acked(Head(ackq))
  /\ batches' = [b \in DOMAIN batches \ {Head(ackq)} |-> batches[b]]
  /\ ackq' = Tail(ackq)
  /\ UNCHANGED <<budget, paused, buffered, producer, workq>>
  /\ ProducerOnly

gateOpen ==
  /\ producer.at = "drain"
  /\ ackq = <<>> /\ ~stop
  /\ ~paused /\ buffered < MaxBuffered
  /\ producer' = [producer EXCEPT !.at = "poll"]
  /\ UNCHANGED <<budget, visible, invisible, gate, batches, ackq, workq>>
  /\ ProducerOnly

receive(ms) ==
  /\ producer.at = "poll"
  /\ ms \subseteq visible
  /\ visible' = visible \ ms
  /\ invisible' = invisible \cup ms
  /\ producer' = [at |-> "process", got |-> ms]
  /\ UNCHANGED <<budget, gate, batches, ackq, workq>>
  /\ ProducerOnly

\* The poll raises, or the processing of what it returned does: the messages
\* not reached yet are abandoned, and stay invisible until their timeout.
iterationFails ==
  /\ \/ producer.at = "poll" /\ UNCHANGED budget
     \/ producer.at = "process" /\ Happens("abandon")
  /\ producer' = [at |-> "drain", got |-> {}]
  /\ UNCHANGED <<visible, invisible, gate, batches, ackq, workq>>
  /\ ProducerOnly

FreshBatch == Min((1..(Cardinality(DOMAIN batches) + 1)) \ DOMAIN batches)

batch_received(n) ==
  /\ outstanding' = outstanding + 1
  /\ buffered' = buffered + n

\* The records of a message in the order their notifications have.
InOrder(records) ==
  {order \in [1..Cardinality(records) -> records] :
     \A i, j \in 1..Cardinality(records) : i < j => order[i] < order[j]}

EnqueueRecords(m, records) ==
  /\ batches' = [b \in DOMAIN batches \cup {FreshBatch} |->
                  IF b = FreshBatch
                    THEN [msg |-> m, remaining |-> Cardinality(records)]
                    ELSE batches[b]]
  /\ batch_received(Cardinality(records))
  /\ \E order \in InOrder(records) :
       workq' = workq \o [i \in DOMAIN order |-> Event(order[i], FreshBatch)]
  /\ UNCHANGED <<visible, invisible, paused>>

processMessage(m) ==
  LET records == {n \in m : Relevant(n)}
      malformed == \E n \in m : note[n].kind = "malformed" IN
  /\ producer.at = "process" /\ m \in producer.got
  /\ producer' = [producer EXCEPT !.got = @ \ {m}]
  /\ \/ /\ malformed
        /\ UNCHANGED <<visible, invisible, gate, batches, workq>>
     \/ /\ ~malformed /\ records = {}
        /\ DeleteMessage(m)
        /\ UNCHANGED <<gate, batches, workq>>
     \/ /\ ~malformed /\ records # {}
        /\ EnqueueRecords(m, records)
  /\ UNCHANGED <<budget, ackq>>
  /\ ProducerOnly

processed ==
  /\ producer.at = "process" /\ producer.got = {}
  /\ producer' = [producer EXCEPT !.at = "drain"]
  /\ UNCHANGED <<budget, visible, invisible, gate, batches, ackq, workq>>
  /\ ProducerOnly

producerStops ==
  /\ producer.at = "drain"
  /\ stop /\ ackq = <<>>
  /\ producer' = [producer EXCEPT !.at = "stopped"]
  /\ UNCHANGED <<budget, visible, invisible, gate, batches, ackq, workq>>
  /\ ProducerOnly

-----------------------------------------------------------------------------
(* What the worker does to the catalog.                                    *)

\* read_summary: the object as it is now; a read of an object that is not
\* the one that was looked at may also fail.
ReadSummary(k, st) ==
  {bucket[k]} \cup (IF bucket[k] # st THEN {Gone} ELSE {})

\* Mutant of Quarantine: the stale row is left.
QuarantineKeepsRow(k) ==
  /\ failures' = failures \cup {k}
  /\ UNCHANGED catalog
Quarantine(k) ==
  /\ catalog' = [catalog EXCEPT ![k] = NoRow]
  /\ failures' = failures \cup {k}

\* _write_file_row: one transaction.  When it raises the rollback brings the
\* old row back, and that row is quarantined.
WriteFileRow(k, st, summary) ==
  \/ /\ catalog' = [catalog EXCEPT ![k] = [etag |-> st, summary |-> summary]]
     /\ failures' = failures \ {k}
     /\ UNCHANGED budget
  \/ Happens("unwritable") /\ Quarantine(k)

delete_by_key(k) ==
  /\ catalog' = [catalog EXCEPT ![k] = NoRow]
  /\ failures' = failures \ {k}

\* Mutant of Unchanged: any row will do.
RowExists(k, st) == catalog[k].etag # Gone
\* The fingerprint skip: the row was written under the ETag just seen.
Unchanged(k, st) == catalog[k].etag = st

\* Read the summary of an object seen under st and write what came of it.
ReadAndWrite(k, st) ==
  \/ \E summary \in ReadSummary(k, st) :
       IF summary = Gone THEN Quarantine(k) /\ UNCHANGED budget
                         ELSE WriteFileRow(k, st, summary)
  \/ Happens("unreadable") /\ Quarantine(k)

\* The part of catalog_object after the HEAD answered st.
catalog_object(k, st) ==
  IF st = Gone \/ Unchanged(k, st) THEN UNCHANGED <<rows, budget>>
                                  ELSE ReadAndWrite(k, st)

-----------------------------------------------------------------------------
(* worker_loop.                                                            *)

WorkerOnly ==
  UNCHANGED <<world, paused, outstanding, producer, coordinator, stop>>

\* The HEAD of an event record: stat of its key.
takeEvent ==
  /\ worker.at = "idle" /\ ~stop
  /\ workq # <<>> /\ Head(workq).type = "event"
  /\ workq' = Tail(workq)
  /\ worker' = [worker EXCEPT !.at = "event", !.item = Head(workq),
                              !.stat = bucket[note[Head(workq).n].key]]
  /\ UNCHANGED <<budget, buffered, batches, ackq, audit, rows>>
  /\ WorkerOnly

\* The last record of a batch that becomes terminal puts it on the ack queue.
BatchDone(b) == batches[b].remaining = 1

record_terminal(b) ==
  /\ batches' = [batches EXCEPT ![b].remaining = @ - 1]
  /\ buffered' = IF buffered = 0 THEN 0 ELSE buffered - 1
  /\ ackq' = IF BatchDone(b) THEN Append(ackq, b) ELSE ackq

\* Mutant of deleteGuarded: no HEAD before the delete.
deleteUnguarded(k, st) == delete_by_key(k) /\ UNCHANGED budget
deleteGuarded(k, st) ==
  IF st = Gone THEN delete_by_key(k) /\ UNCHANGED budget
               ELSE catalog_object(k, st)

applyEvent ==
  LET k == note[worker.item.n].key IN
  /\ worker.at = "event"
  /\ IF note[worker.item.n].kind = "catalog"
       THEN catalog_object(k, worker.stat)
       ELSE deleteGuarded(k, worker.stat)
  /\ record_terminal(worker.item.batch)
  /\ worker' = IdleWorker
  /\ UNCHANGED <<workq, audit>>
  /\ WorkerOnly

\* Mutant of NotTerminal: a raised record counts as done.
raisedIsTerminal(b) == record_terminal(b)
\* The record whose HEAD or commit raised is dropped without record_terminal.
NotTerminal(b) == UNCHANGED <<buffered, batches, ackq>>

eventRaises ==
  /\ worker.at = "event"
  /\ Happens("raise")
  /\ NotTerminal(worker.item.batch)
  /\ worker' = IdleWorker
  /\ UNCHANGED <<workq, audit, rows>>
  /\ WorkerOnly

AuditStep == UNCHANGED <<buffered, batches, ackq>> /\ WorkerOnly

\* AuditItem.start, then the LIST of full_reconcile.  The rows to extract are
\* those whose stored ETag is not the listed one.
startAudit ==
  /\ worker.at = "idle" /\ ~stop
  /\ workq # <<>> /\ Head(workq).type = "audit"
  /\ workq' = Tail(workq)
  /\ audit' = "running"
  /\ worker' = [worker EXCEPT !.at = "audit", !.listing = bucket,
       !.todo = {k \in Keys : bucket[k] # Gone /\ ~Unchanged(k, bucket[k])}]
  /\ UNCHANGED <<budget, rows>>
  /\ AuditStep

\* extract_summary and apply_extract of one listed object; one that has
\* vanished since the LIST is left to the sweep.  The pool reads ahead of the
\* apply, but no other writer can come between the two.
auditExtract(k) ==
  /\ worker.at = "audit" /\ ~stop
  /\ k \in worker.todo
  /\ IF bucket[k] = Gone THEN UNCHANGED <<rows, budget>>
                         ELSE ReadAndWrite(k, worker.listing[k])
  /\ worker' = [worker EXCEPT !.todo = @ \ {k}]
  /\ UNCHANGED <<workq, audit>>
  /\ AuditStep

finishAudit == audit' = "finished" /\ worker' = IdleWorker

auditSweep ==
  /\ worker.at = "audit" /\ ~stop
  /\ worker.todo = {}
  /\ catalog' = [k \in Keys |->
                 IF worker.listing[k] = Gone THEN NoRow ELSE catalog[k]]
  /\ finishAudit
  /\ UNCHANGED <<workq, budget, failures>>
  /\ AuditStep

auditFails ==
  /\ worker.at = "audit"
  /\ finishAudit
  /\ UNCHANGED <<workq, budget, rows>>
  /\ AuditStep

auditCancelled ==
  /\ worker.at = "audit" /\ stop
  /\ finishAudit
  /\ UNCHANGED <<workq, budget, rows>>
  /\ AuditStep

\* The loop ends with the item in hand dropped, or before taking one.
workerStops ==
  /\ worker.at = "idle" /\ stop
  /\ worker' = [worker EXCEPT !.at = "stopped"]
  /\ audit' \in {audit} \cup IF audit = "pending" /\ Head(workq) = AuditEntry
                               THEN {"finished"} ELSE {}
  /\ UNCHANGED <<workq, budget, rows>>
  /\ AuditStep

-----------------------------------------------------------------------------
(* AuditCoordinator._run.                                                  *)

CoordinatorOnly ==
  UNCHANGED <<world, budget, buffered, outstanding, intake, worker, rows, stop>>

auditDue ==
  /\ coordinator = "idle" /\ ~stop
  /\ paused' = TRUE
  /\ coordinator' = "draining"
  /\ UNCHANGED <<workq, audit>>
  /\ CoordinatorOnly

Drained == outstanding = 0

\* wait_drained returns TRUE.  A poll that was in progress at the pause may
\* still bring messages, before the audit is enqueued and after it.
drained ==
  /\ coordinator = "draining" /\ Drained
  /\ coordinator' = "drained"
  /\ UNCHANGED <<paused, workq, audit>>
  /\ CoordinatorOnly

\* _enqueue_if_idle makes no item after a stop.
enqueueAudit ==
  /\ coordinator = "drained"
  /\ IF stop
       THEN /\ coordinator' = "stopped" /\ paused' = FALSE
            /\ UNCHANGED <<workq, audit>>
       ELSE /\ coordinator' = "waiting" /\ audit' = "pending"
            /\ workq' = Append(workq, AuditEntry)
            /\ UNCHANGED paused
  /\ CoordinatorOnly

\* Mutant of DrainStopped: the wait does not look at stop_event.
DrainIgnoresStop == FALSE
DrainStopped == stop

drainStopped ==
  /\ coordinator = "draining" /\ DrainStopped
  /\ coordinator' = "stopped"
  /\ paused' = FALSE
  /\ UNCHANGED <<workq, audit>>
  /\ CoordinatorOnly

\* Mutant of resume: the gate is left paused.
staysPaused == UNCHANGED paused
\* It runs in the finally of every iteration.
resume == paused' = FALSE

auditDone ==
  /\ coordinator = "waiting" /\ audit = "finished"
  /\ coordinator' = IF stop THEN "stopped" ELSE "idle"
  /\ audit' = "none"
  /\ resume
  /\ UNCHANGED workq
  /\ CoordinatorOnly

\* AuditItem.wait on a stop: a pending item is dropped, a running one is left
\* to the worker.
waitStopped ==
  /\ coordinator = "waiting" /\ audit # "finished" /\ stop
  /\ coordinator' = "stopped"
  /\ audit' = IF audit = "pending" THEN "finished" ELSE audit
  /\ resume
  /\ UNCHANGED workq
  /\ CoordinatorOnly

coordinatorStops ==
  /\ coordinator = "idle" /\ stop
  /\ coordinator' = "stopped"
  /\ UNCHANGED <<paused, workq, audit>>
  /\ CoordinatorOnly

-----------------------------------------------------------------------------
on_signal ==
  /\ ~stop
  /\ Happens("stop")
  /\ stop' = TRUE
  /\ UNCHANGED <<world, gate, intake, workq, auditing, worker, rows>>

\* The process dies and is started again: what it held in memory is lost, the
\* committed rows and the queue are not.
crash ==
  /\ Happens("crash")
  /\ paused' = FALSE /\ buffered' = 0 /\ outstanding' = 0
  /\ producer' = [at |-> "drain", got |-> {}]
  /\ batches' = <<>> /\ ackq' = <<>> /\ workq' = <<>>
  /\ coordinator' = "idle" /\ audit' = "none"
  /\ worker' = IdleWorker
  /\ stop' = FALSE
  /\ UNCHANGED <<world, rows>>

Environment ==
  \/ \E k \in Keys : \E v \in Versions : upload(k, v)
  \/ \E k \in Keys : removeObject(k)
  \/ \E k \in Keys : \E kind \in {"ignored", "malformed"} : noise(kind, k)
  \/ \E ns \in SUBSET unsent : sendMessage(ns)
  \/ \E m \in invisible : visibilityExpires(m)

Process == \E m \in producer.got : processMessage(m)

ProducerStep ==
  drainAck \/ gateOpen \/ Process \/ processed \/ producerStops

WorkerStep ==
  \/ takeEvent \/ applyEvent
  \/ startAudit \/ (\E k \in Keys : auditExtract(k)) \/ auditSweep
  \/ auditCancelled \/ workerStops

AwaitAudit ==
  \/ drained \/ enqueueAudit \/ drainStopped \/ auditDone \/ waitStopped
  \/ coordinatorStops

Next ==
  \/ Environment
  \/ ProducerStep \/ iterationFails \/ (\E ms \in SUBSET visible : receive(ms))
  \/ WorkerStep \/ eventRaises \/ auditFails
  \/ AwaitAudit \/ auditDue
  \/ on_signal \/ crash

\* The threads keep running and the queue service keeps its promises: a
\* notification is sent, an unacked message becomes visible, and a producer
\* that polls again and again is handed all the visible messages at some time
\* (they are fewer than the ten a poll returns).  The gate is open for a full
\* interval between audits, far longer than the 0.2 s the producer sleeps, so
\* it does not miss every opening.  Nothing makes the environment change the
\* bucket, and no audit need ever fall due.
Fairness ==
  /\ WF_vars(ProducerStep)
  /\ SF_vars(gateOpen)
  /\ WF_vars(WorkerStep)
  /\ WF_vars(AwaitAudit)
  /\ WF_vars(\E ns \in SUBSET unsent : sendMessage(ns))
  /\ WF_vars(\E ms \in SUBSET visible : receive(ms))
  /\ SF_vars(receive(visible) /\ visible # {})
  /\ \A m \in SUBSET (1..MaxNotes) : WF_vars(visibilityExpires(m))

Spec == Init /\ [][Next]_vars
FairSpec == Spec /\ Fairness

-----------------------------------------------------------------------------
(* Properties.                                                             *)

Messages == SUBSET DOMAIN note

\* Every variable has its type, every batch on the ack queue is one the
\* producer still holds, and the gate's two counters are those of the batches
\* the three threads pass around (batch_received, record_done, batch_acked).
TypeOK ==
  /\ bucket \in [Keys -> Versions \cup {Gone}]
  /\ note \in Seq([kind : {"catalog", "delete", "ignored", "malformed"},
                   key : Keys])
  /\ unsent \subseteq DOMAIN note
  /\ visible \subseteq Messages /\ invisible \subseteq Messages
  /\ budget \subseteq AllFaults
  /\ paused \in BOOLEAN /\ stop \in BOOLEAN
  /\ producer.at \in {"drain", "poll", "process", "stopped"}
  /\ producer.got \subseteq Messages
  /\ \A b \in DOMAIN batches : batches[b].msg \in Messages
  /\ Range(ackq) \subseteq {b \in DOMAIN batches : batches[b].remaining = 0}
  /\ outstanding = Cardinality(DOMAIN batches)
  /\ buffered = SumFunctionOnSet([b \in DOMAIN batches |-> batches[b].remaining],
                                 DOMAIN batches)
  /\ coordinator \in {"idle", "draining", "drained", "waiting", "stopped"}
  /\ audit \in {"none", "pending", "running", "finished"}
  /\ worker.at \in {"idle", "event", "audit", "stopped"}
  /\ catalog \in [Keys -> [etag : Versions \cup {Gone},
                           summary : Versions \cup {Gone}]]
  /\ failures \subseteq Keys

Settled(k) == catalog[k].etag = bucket[k] \/ (k \in failures /\ bucket[k] # Gone)

Undeleted(n) == n \in unsent \/ \E m \in visible \cup invisible : n \in m

\* No change of the bucket is lost.  The notification of the last change of a
\* key is still to be delivered or redelivered, or the catalog accounts for
\* the object as it is: a row under its ETag, a quarantine, or nothing for an
\* object that is gone.  It holds across raised records, multi-record
\* messages, stale deletes, overlapping audits, a crash and a shutdown.
NoLostChange ==
  \A k \in Keys :
    LET own == {n \in Changes : note[n].key = k} IN
      own # {} => Undeleted(Max(own)) \/ Settled(k)

\* A key is never both cataloged and failed (catalog_object's quarantine).
NeverCatalogedAndFailed == \A k \in failures : catalog[k] = NoRow

Converged == \A k \in Keys : catalog[k].etag = bucket[k]

\* The event tier alone brings the catalog to the bucket: even if no audit
\* ever falls due, once the bucket stops changing every row is under the
\* ETag of its object for good, unless the process is told to stop first.
Converges == <>[](stop \/ Converged)

\* An intake paused for an audit is resumed (the finally of _run).
PauseClears == paused ~> ~paused

\* A stop ends the worker, the coordinator and the producer, wherever each of
\* them is waiting.
StopEnds ==
  stop ~> /\ worker.at = "stopped"
          /\ coordinator = "stopped"
          /\ producer.at = "stopped"
=============================================================================
