---------------------------- MODULE SessionStream ----------------------------
(***************************************************************************)
(* The content of one session: the producer's batches on their way through *)
(* the retain buffer, the consumer, the two lanes of the connection's      *)
(* write loop and the wire to the client's frame loop, the acks on their   *)
(* way back, and reconnect-resume after a dropped connection.              *)
(* Sources: session/producer.go, retain.go, consumer.go, registry.go (the  *)
(* ledger), ws/conn.go, ws/handlers_session.go, and the plugin's           *)
(* backend_connection.cpp.                                                 *)
(*                                                                         *)
(* A batch is its sequence number; Messages and Bytes give its size.  The  *)
(* session has one attachment at a time and a takeover is one step (the    *)
(* races of two attachments are the subject of SessionLifecycle).          *)
(* Progress frames carry nothing the properties tell apart; their effect,  *)
(* that an attached client never runs into its frame timeout, is stated at *)
(* lostLink.                                                               *)
(***************************************************************************)
EXTENDS Integers, Sequences, FiniteSets, Functions

CONSTANTS MaxSeq,         \* batches of the plan
          Messages,       \* messages in each batch
          Bytes,          \* marshalled size of each batch
          RetainMaxSeqs, RetainMaxBytes,  \* RetainOpts
          BulkCap,        \* bulkChanCap
          AckCap,         \* capacity of SessionState.AckCh
          AckEvery,       \* kAckEveryBatches
          MaxAttempts,    \* kMaxResumeAttempts
          Stops           \* what may end a download early: the client gives
                          \* up, or the producer fails

ASSUME StreamConstants ==
    /\ MaxSeq \in Nat
    /\ Messages \in [1..MaxSeq -> Nat]
    /\ Bytes \in [1..MaxSeq -> Nat]
    /\ {RetainMaxSeqs, BulkCap, AckCap, AckEvery} \subseteq Nat \ {0}
    /\ {RetainMaxBytes, MaxAttempts} \subseteq Nat
    /\ Stops \subseteq {"cancel", "deadline", "sink", "decode", "error",
                     "panic"}

VARIABLES nextSeq,     \* Producer.nextSeq
          producer,    \* "idle", "appending" (in Retain.Append), "fatal",
                       \* "report" or "done"
          ledger,      \* cumulative messages through each recorded seq
          queue,       \* the seqs in the retain buffer
          totalBytes,  \* RetainBuffer.totalBytes
          closed,      \* RetainBuffer.closed
          fate,        \* the session is "live", or was "evicted" or "removed"
          armed,       \* its eviction timer is armed
          AckCh,       \* acks waiting for the consumer
          con,         \* the attached consumer
          ctxDone,     \* its context was cancelled
          attached,    \* its connection has not run detachAll
          writer,      \* the write loop: "poll" the priority lane or "block"
          priority, bulk,  \* the lanes
          connDone,    \* conn.done is closed
          link,        \* the socket is "up" or "down"
          toClient, toServer,  \* frames in flight, the client's inbox included
          leg,         \* "streaming", "reconnecting" or "done"
          cursor,      \* last_seq: the last fully delivered batch
          received,    \* messages_received
          sinceAck,    \* batches_since_ack
          cancel,      \* "no", "requested" or "sent"
          attempts,    \* attempts_used
          eos,         \* "open", then the SessionEos of the download
          total        \* eos_total_messages_sent

session == <<nextSeq, producer, ledger>>
retain == <<queue, totalBytes, closed>>
registration == <<fate, armed>>
lanes == <<writer, priority, bulk, connDone>>
attachment == <<con, ctxDone, attached>>
wire == <<link, toClient, toServer>>
counters == <<cursor, received, sinceAck>>
outcome == <<leg, eos, total>>
client == <<counters, cancel, attempts, outcome>>
vars == <<session, retain, registration, AckCh, lanes, attachment, wire,
          client>>

Batch(seq) == [type |-> "batch", seq |-> seq]
Eos(reason, count) == [type |-> "eos", reason |-> reason, total |-> count]
Ack(seq) == [type |-> "ack", seq |-> seq]
ErrorFrame == [type |-> "error"]
CancelFrame == [type |-> "cancel"]

(* Mutant of CountersThrough: a resumed attachment starts from zero.       *)
CountersFromZero(seq) == 0

CountersThrough(seq) ==
    IF seq = 0 \/ ledger = <<>> THEN 0
    ELSE ledger[IF seq < Len(ledger) THEN seq ELSE Len(ledger)]

HighestAppendedSeq == Len(ledger)

(* A Consumer starts after the batches the client already has.             *)
NewConsumer(seq) ==
    [pc |-> "run", last |-> seq, fetched |-> 0, sending |-> FALSE,
     msgs |-> CountersThrough(seq)]

live == fate = "live"

(* openFresh has registered the session and spawned its goroutines.        *)
Init ==
    /\ nextSeq = 0 /\ producer = "idle" /\ ledger = <<>>
    /\ queue = {} /\ totalBytes = 0 /\ closed = FALSE
    /\ fate = "live" /\ armed = FALSE
    /\ AckCh = <<>>
    /\ writer = "poll" /\ priority = <<>> /\ bulk = <<>> /\ connDone = FALSE
    /\ con = NewConsumer(0)
    /\ ctxDone = FALSE /\ attached = TRUE
    /\ link = "up" /\ toClient = <<>> /\ toServer = <<>>
    /\ cursor = 0 /\ received = 0 /\ sinceAck = 0
    /\ cancel = "no" /\ attempts = 0
    /\ leg = "streaming" /\ eos = "open" /\ total = 0

-----------------------------------------------------------------------------
(* The producer.                                                           *)

(* Mutant of RecordAppend: the ledger is not extended.                     *)
RecordNothing(seq) == UNCHANGED ledger

RecordAppend(seq) ==
    ledger' = Append(ledger, CountersThrough(Len(ledger)) + Messages[seq])

(* flush numbers the batch and records it before it becomes visible.       *)
flush ==
    /\ producer = "idle" /\ nextSeq < MaxSeq
    /\ nextSeq' = nextSeq + 1
    /\ RecordAppend(nextSeq + 1)
    /\ producer' = "appending"
    /\ UNCHANGED <<retain, registration, AckCh, lanes, attachment, wire,
                   client>>

(* Mutant of HasRoom: the size of the new batch is not counted in.         *)
HasRoomBefore(seq) ==
    \/ queue = {}
    \/ Cardinality(queue) < RetainMaxSeqs /\ totalBytes <= RetainMaxBytes

HasRoom(seq) ==
    \/ queue = {}
    \/ /\ Cardinality(queue) < RetainMaxSeqs
       /\ totalBytes + Bytes[seq] <= RetainMaxBytes

(* Append blocks at the caps, and returns with nothing done once closed.   *)
RetainAppend ==
    /\ producer = "appending"
    /\ \/ /\ ~closed /\ HasRoom(nextSeq)
          /\ queue' = queue \union {nextSeq}
          /\ totalBytes' = totalBytes + Bytes[nextSeq]
       \/ closed /\ UNCHANGED <<queue, totalBytes>>
    /\ producer' = "idle"
    /\ UNCHANGED <<nextSeq, ledger, closed, registration, AckCh, lanes,
                   attachment, wire, client>>

(* The plan is exhausted, or teardown cancelled the producer's context.    *)
producerDone ==
    /\ producer = "idle" /\ (nextSeq = MaxSeq \/ closed)
    /\ producer' = "done"
    /\ UNCHANGED <<nextSeq, ledger, retain, registration, AckCh, lanes,
                   attachment, wire, client>>

(* streamFatal: Run returns an error under a live context, or panics.      *)
producerFails ==
    /\ producer = "idle"
    /\ ("error" \in Stops /\ ~closed) \/ "panic" \in Stops
    /\ producer' = "fatal"
    /\ UNCHANGED <<nextSeq, ledger, retain, registration, AckCh, lanes,
                   attachment, wire, client>>

Deregister ==
    /\ fate' = "removed" /\ closed' = TRUE
    /\ UNCHANGED <<armed, queue, totalBytes>>

(* Registry.Cancel: the session goes and its consumer's context with it.   *)
Cancel ==
    IF live THEN Deregister /\ ctxDone' = TRUE
            ELSE UNCHANGED <<registration, retain, ctxDone>>

producerCancels ==
    /\ producer = "fatal"
    /\ Cancel
    /\ producer' = "report"
    /\ UNCHANGED <<nextSeq, ledger, AckCh, con, attached, lanes, wire, client>>

(* Error and Eos{ERROR} go to the connection that opened the session: a    *)
(* client that has resumed since does not get them.                        *)
producerReports ==
    /\ producer = "report"
    /\ producer' = "done"
    /\ priority' = IF connDone \/ attempts > 0 THEN priority
                   ELSE priority \o <<ErrorFrame, Eos("Error", 0)>>
    /\ UNCHANGED <<nextSeq, ledger, retain, registration, AckCh, attachment,
                   writer, bulk, connDone, wire, client>>

-----------------------------------------------------------------------------
(* The consumer: Run's select, then drainAndEos.                           *)

(* Mutant of Pruned: also the batch after through_seq goes.                *)
PrunedTooFar(through) == {seq \in queue : seq > through + 1}

Pruned(through) == {seq \in queue : seq > through}

Prune(through) ==
    /\ queue' = Pruned(through)
    /\ totalBytes' = totalBytes
                     - SumFunctionOnSet(Bytes, queue \ Pruned(through))
    /\ UNCHANGED closed

Running == con.pc \in {"run", "drain"}

(* Mutant of Undelivered: the last batch sent counts as undelivered.       *)
UndeliveredFromLast == {seq \in queue : seq >= con.last}

Undelivered == {seq \in queue : seq > con.last}

(* RetainBuffer.Next: the lowest seq above lastSeq.  Run's helper leaves   *)
(* it in nextCh, the drain has it in hand.                                 *)
consumerNext ==
    /\ Running /\ con.fetched = 0
    /\ \E seq \in Undelivered :
          /\ \A other \in Undelivered : seq <= other
          /\ con' = [con EXCEPT !.fetched = seq, !.sending = con.pc = "drain"]
    /\ UNCHANGED <<session, retain, registration, AckCh, ctxDone, attached,
                   lanes, wire, client>>

(* The select takes the batch from nextCh.                                 *)
consumerTake ==
    /\ con.pc = "run" /\ con.fetched # 0 /\ ~con.sending
    /\ con' = [con EXCEPT !.sending = TRUE]
    /\ UNCHANGED <<session, retain, registration, AckCh, ctxDone, attached,
                   lanes, wire, client>>

(* sendBatch: SendBulk blocks while the lane is full; done detaches.       *)
consumerSend ==
    /\ Running /\ con.sending
    /\ \/ /\ ~connDone /\ Len(bulk) < BulkCap
          /\ bulk' = Append(bulk, con.fetched)
          /\ con' = [con EXCEPT !.last = con.fetched, !.fetched = 0,
                                !.sending = FALSE,
                                !.msgs = @ + Messages[con.fetched]]
       \/ /\ connDone
          /\ con' = [con EXCEPT !.pc = "over"]
          /\ UNCHANGED bulk
    /\ UNCHANGED <<session, retain, registration, AckCh, ctxDone, attached,
                   writer, priority, connDone, wire, client>>

consumerAck ==
    /\ Running /\ ~con.sending /\ AckCh # <<>>
    /\ Prune(Head(AckCh))
    /\ AckCh' = Tail(AckCh)
    /\ UNCHANGED <<session, registration, attachment, lanes, wire, client>>

(* A batch waiting in nextCh is discarded and fetched again by the drain.  *)
AtProducerDone == [con EXCEPT !.pc = "drain", !.fetched = 0]

consumerProducerDone ==
    /\ con.pc = "run" /\ ~con.sending
    /\ producer = "done" /\ ~ctxDone
    /\ con' = AtProducerDone
    /\ UNCHANGED <<session, retain, registration, AckCh, ctxDone, attached,
                   lanes, wire, client>>

(* The end of drainAndEos.                                                 *)
consumerEos ==
    /\ con.pc = "drain" /\ con.fetched = 0 /\ Undelivered = {}
    /\ con' = [con EXCEPT !.pc = "eos"]
    /\ priority' = IF connDone THEN priority
                   ELSE Append(priority, Eos("Complete", con.msgs))
    /\ UNCHANGED <<session, retain, registration, AckCh, ctxDone, attached,
                   writer, bulk, connDone, wire, client>>

(* spawnConsumer disposes of the session, unless the consumer was detached *)
(* or cancelled meanwhile.                                                 *)
consumerDispose ==
    /\ con.pc = "eos"
    /\ con' = [con EXCEPT !.pc = "over"]
    /\ IF ctxDone THEN UNCHANGED <<registration, retain>> ELSE Deregister
    /\ UNCHANGED <<session, AckCh, ctxDone, attached, lanes, wire, client>>

consumerCtxDone ==
    /\ con.pc = "run" /\ ~con.sending /\ ctxDone
    /\ con' = [con EXCEPT !.pc = "over"]
    /\ UNCHANGED <<session, retain, registration, AckCh, ctxDone, attached,
                   lanes, wire, client>>

-----------------------------------------------------------------------------
(* The connection: write loop, read loop and its end.                      *)

(* A write on a dead socket fails, which closes done and ends the loop.    *)
WriteFrame(frame) ==
    \/ /\ link = "up"
       /\ toClient' = Append(toClient, frame)
       /\ writer' = "poll"
       /\ UNCHANGED connDone
    \/ /\ link = "down"
       /\ connDone' = TRUE /\ writer' = "stopped"
       /\ UNCHANGED toClient

writePriority ==
    /\ writer \in {"poll", "block"} /\ priority # <<>>
    /\ WriteFrame(Head(priority))
    /\ priority' = Tail(priority)
    /\ UNCHANGED <<session, retain, registration, AckCh, attachment, bulk,
                   link, toServer, client>>

(* Nothing in the priority lane: wait on both.                             *)
writePoll ==
    /\ writer = "poll" /\ priority = <<>>
    /\ writer' = "block"
    /\ UNCHANGED <<session, retain, registration, AckCh, attachment, priority,
                   bulk, connDone, wire, client>>

writeBulk ==
    /\ writer = "block" /\ bulk # <<>>
    /\ WriteFrame(Batch(Head(bulk)))
    /\ bulk' = Tail(bulk)
    /\ UNCHANGED <<session, retain, registration, AckCh, attachment, priority,
                   link, toServer, client>>

(* An ack that finds AckCh full is dropped.                                *)
handleAck ==
    /\ toServer # <<>> /\ Head(toServer).type = "ack"
    /\ AckCh' = IF live /\ Len(AckCh) < AckCap
                THEN Append(AckCh, Head(toServer).seq) ELSE AckCh
    /\ toServer' = Tail(toServer)
    /\ UNCHANGED <<session, retain, registration, attachment, lanes, link,
                   toClient, client>>

handleCancel ==
    /\ toServer # <<>> /\ Head(toServer).type = "cancel"
    /\ toServer' = Tail(toServer)
    /\ priority' = IF connDone \/ ~live THEN priority
                   ELSE Append(priority, Eos("Cancelled", 0))
    /\ Cancel
    /\ UNCHANGED <<session, AckCh, con, attached, writer, bulk, connDone,
                   link, toClient, client>>

(* The socket dies; what was in flight arrives in part.                    *)
Drop ==
    /\ link = "up"
    /\ link' = "down"
    /\ \E n \in 0..Len(toClient) : toClient' = SubSeq(toClient, 1, n)
    /\ \E n \in 0..Len(toServer) : toServer' = SubSeq(toServer, 1, n)
    /\ UNCHANGED <<session, retain, registration, AckCh, attachment, lanes,
                   client>>

(* The read loop notices: Detach cancels the consumer and arms eviction.   *)
detachAll ==
    /\ link = "down" /\ attached /\ toServer = <<>>
    /\ attached' = FALSE
    /\ ctxDone' = TRUE
    /\ armed' = live
    /\ connDone' = TRUE
    /\ UNCHANGED <<session, retain, fate, AckCh, con, writer, priority, bulk,
                   wire, client>>

evictFire ==
    /\ armed /\ live
    /\ fate' = "evicted" /\ closed' = TRUE /\ armed' = FALSE
    /\ UNCHANGED <<session, queue, totalBytes, AckCh, attachment, lanes, wire,
                   client>>

-----------------------------------------------------------------------------
(* The client's frame loop and resume loop.                                *)

Finish(result, count) == leg' = "done" /\ eos' = result /\ total' = count

SendAck(seq) ==
    toServer' = IF link = "up" THEN Append(toServer, Ack(seq)) ELSE toServer

SendCancel ==
    toServer' = IF link = "up" THEN Append(toServer, CancelFrame) ELSE toServer

NextFrame(type) ==
    /\ leg = "streaming"
    /\ toClient # <<>> /\ Head(toClient).type = type
    /\ toClient' = Tail(toClient)

(* Mutant of AckDue: one batch late.                                       *)
AckDueLate(elapsed) == elapsed \/ sinceAck >= AckEvery

(* kAckEveryBatches, or kAckEveryDur since the last ack.                   *)
AckDue(elapsed) == elapsed \/ sinceAck + 1 >= AckEvery

ServerOnly == <<session, retain, registration, AckCh, attachment, lanes>>

AcceptBatch ==
    /\ cursor' = cursor + 1
    /\ received' = received + Messages[cursor + 1]
    /\ \E elapsed \in BOOLEAN :
          IF AckDue(elapsed)
          THEN SendAck(cursor + 1) /\ sinceAck' = 0
          ELSE sinceAck' = sinceAck + 1 /\ UNCHANGED toServer
    /\ UNCHANGED outcome

(* The only valid next batch is last_seq + 1; any other aborts.            *)
receiveBatch ==
    /\ NextFrame("batch")
    /\ IF Head(toClient).seq = cursor + 1 THEN AcceptBatch
       ELSE SendCancel /\ Finish("Error", total) /\ UNCHANGED counters
    /\ UNCHANGED <<ServerOnly, link, cancel, attempts>>

(* The sink refuses a message of the batch; those before it are counted.   *)
sinkAborts ==
    /\ "sink" \in Stops
    /\ NextFrame("batch")
    /\ Head(toClient).seq = cursor + 1
    /\ cursor' = cursor + 1
    /\ \E n \in 0..(Messages[cursor + 1] - 1) : received' = received + n
    /\ SendCancel
    /\ Finish("Cancelled", total)
    /\ UNCHANGED <<ServerOnly, link, sinceAck, cancel, attempts>>

(* decodeBatch refuses the batch as a whole.                               *)
decodeFails ==
    /\ "decode" \in Stops
    /\ NextFrame("batch")
    /\ SendCancel
    /\ Finish("Error", total)
    /\ UNCHANGED <<ServerOnly, link, counters, cancel, attempts>>

(* The first Eos ends the download, with a final ack.                      *)
receiveEos ==
    /\ NextFrame("eos")
    /\ SendAck(cursor)
    /\ Finish(Head(toClient).reason, Head(toClient).total)
    /\ UNCHANGED <<ServerOnly, link, cursor, received, sinceAck, cancel,
                   attempts>>

(* An Error frame ends it too, and nothing is acked.                       *)
receiveError ==
    /\ NextFrame("error")
    /\ Finish("Error", total)
    /\ UNCHANGED <<ServerOnly, link, toServer, counters, cancel, attempts>>

cancelSession ==
    /\ "cancel" \in Stops
    /\ leg # "done" /\ cancel = "no"
    /\ cancel' = "requested"
    /\ UNCHANGED <<ServerOnly, wire, counters, attempts, outcome>>

sendCancel ==
    /\ leg = "streaming" /\ cancel = "requested"
    /\ cancel' = "sent"
    /\ SendCancel
    /\ UNCHANGED <<ServerOnly, link, toClient, counters, attempts, outcome>>

(* The wait ends with an empty inbox and a cancel pending: the loop ends   *)
(* at once, sending the Cancel unless it went out before.                  *)
frameLoopCancelled ==
    /\ leg = "streaming" /\ cancel # "no"
    /\ IF cancel = "sent" THEN UNCHANGED toServer ELSE SendCancel
    /\ Finish("Cancelled", total)
    /\ UNCHANGED <<ServerOnly, link, toClient, counters, cancel, attempts>>

deadlineExpires ==
    /\ "deadline" \in Stops
    /\ leg = "streaming"
    /\ SendCancel
    /\ Finish("Cancelled", total)
    /\ UNCHANGED <<ServerOnly, link, toClient, counters, cancel, attempts>>

(* No frame for 60 s.  A running consumer sends Progress every second, so  *)
(* it has stopped, and what it queued was written.                         *)
FrameTimeout == con.pc = "over" /\ priority = <<>> /\ bulk = <<>>

(* The inbox is empty, and the socket closed or silent.                    *)
lostLink ==
    /\ leg = "streaming" /\ cancel = "no"
    /\ toClient = <<>> /\ (link = "down" \/ FrameTimeout)
    /\ leg' = "reconnecting"
    /\ UNCHANGED <<ServerOnly, wire, counters, cancel, attempts, eos, total>>

reconnectFails ==
    /\ leg = "reconnecting" /\ cancel = "no" /\ attempts < MaxAttempts
    /\ attempts' = attempts + 1
    /\ UNCHANGED <<ServerOnly, wire, counters, cancel, outcome>>

(* A cancel, the deadline, or no attempts left.  After a failed attempt    *)
(* the count is looked at before the cancel.                               *)
resumeStops ==
    /\ leg = "reconnecting"
    /\ \/ /\ cancel # "no" \/ "deadline" \in Stops
          /\ Finish("Cancelled", total)
       \/ attempts = MaxAttempts /\ Finish("Unset", total)
    /\ UNCHANGED <<ServerOnly, wire, counters, cancel, attempts>>

Resuming ==
    /\ leg = "reconnecting" /\ cancel = "no" /\ attempts < MaxAttempts
    /\ attempts' = attempts + 1

ResumePossible == live /\ cursor <= HighestAppendedSeq

(* openResume prunes through the cursor before the new consumer starts.    *)
ResumePrune(through) == Prune(through)

(* openResume on a new connection: RESUME_NOT_POSSIBLE ends the download.  *)
resumeRejected ==
    /\ Resuming /\ ~ResumePossible
    /\ Finish("Error", total)
    /\ UNCHANGED <<ServerOnly, wire, counters, cancel>>

openResume ==
    /\ Resuming /\ ResumePossible
    /\ armed' = FALSE
    /\ ResumePrune(cursor)
    /\ con' = NewConsumer(cursor)
    /\ ctxDone' = FALSE /\ attached' = TRUE
    /\ writer' = "poll" /\ priority' = <<>> /\ bulk' = <<>>
    /\ connDone' = FALSE
    /\ link' = "up" /\ toClient' = <<>> /\ toServer' = <<>>
    /\ sinceAck' = 0
    /\ leg' = "streaming"
    /\ UNCHANGED <<session, fate, AckCh, cursor, received, cancel, eos, total>>

-----------------------------------------------------------------------------

ProducerStep ==
    flush \/ RetainAppend \/ producerDone \/ producerCancels \/ producerReports

WriteLoopStep == writePriority \/ writePoll \/ writeBulk

ReadLoopStep == handleAck \/ handleCancel \/ detachAll

FrameLoopStep ==
    \/ receiveBatch \/ receiveEos \/ receiveError \/ sendCancel
    \/ frameLoopCancelled \/ lostLink

ResumeStep == reconnectFails \/ resumeRejected \/ openResume \/ resumeStops

Next ==
    \/ ProducerStep \/ producerFails
    \/ consumerNext \/ consumerTake \/ consumerSend \/ consumerAck
    \/ consumerProducerDone \/ consumerEos \/ consumerDispose
    \/ consumerCtxDone
    \/ WriteLoopStep \/ ReadLoopStep \/ FrameLoopStep \/ ResumeStep
    \/ Drop \/ evictFire
    \/ sinkAborts \/ decodeFails \/ cancelSession \/ deadlineExpires

(* Every goroutine that can take a step takes one; the consumer's select   *)
(* picks at random among what is ready, so no ready case is passed over    *)
(* for ever.  Nothing obliges a socket to drop or a timer to fire first.   *)
Fairness ==
    /\ WF_vars(ProducerStep) /\ WF_vars(WriteLoopStep)
    /\ WF_vars(consumerNext \/ consumerTake \/ consumerSend)
    /\ WF_vars(consumerEos \/ consumerDispose)
    /\ WF_vars(consumerAck)
    /\ WF_vars(consumerProducerDone \/ consumerCtxDone)
    /\ WF_vars(ReadLoopStep)
    /\ WF_vars(FrameLoopStep) /\ WF_vars(ResumeStep)

Spec == Init /\ [][Next]_vars
FairSpec == Spec /\ Fairness

-----------------------------------------------------------------------------

Frames ==
    [type : {"batch"}, seq : 1..MaxSeq]
    \union [type : {"eos"}, reason : {"Complete", "Cancelled", "Error"},
            total : Nat]
    \union {ErrorFrame}

(* The stream's state is of its types, the channels within their capacity. *)
TypeOK ==
    /\ nextSeq \in 0..MaxSeq
    /\ producer \in {"idle", "appending", "fatal", "report", "done"}
    /\ ledger \in Seq(Nat)
    /\ queue \subseteq 1..MaxSeq /\ totalBytes \in Nat /\ closed \in BOOLEAN
    /\ fate \in {"live", "evicted", "removed"} /\ armed \in BOOLEAN
    /\ AckCh \in Seq(0..MaxSeq) /\ Len(AckCh) <= AckCap
    /\ writer \in {"poll", "block", "stopped"} /\ connDone \in BOOLEAN
    /\ priority \in Seq(Frames)
    /\ bulk \in Seq(1..MaxSeq) /\ Len(bulk) <= BulkCap
    /\ con \in [pc : {"run", "drain", "eos", "over"}, last : 0..MaxSeq,
                fetched : 0..MaxSeq, sending : BOOLEAN, msgs : Nat]
    /\ ctxDone \in BOOLEAN /\ attached \in BOOLEAN
    /\ link \in {"up", "down"} /\ toClient \in Seq(Frames)
    /\ toServer \in Seq([type : {"ack"}, seq : 0..MaxSeq]
                         \union [type : {"cancel"}])
    /\ leg \in {"streaming", "reconnecting", "done"}
    /\ cursor \in 0..MaxSeq /\ received \in Nat
    /\ sinceAck \in 0..(AckEvery - 1)
    /\ cancel \in {"no", "requested", "sent"} /\ attempts \in 0..MaxAttempts
    /\ eos \in {"open", "Complete", "Cancelled", "Error", "Unset"}
    /\ total \in Nat

(* Where the batches under way to the client are, and which they are.  The *)
(* lane of a connection that is down leads nowhere.                        *)
Arriving == {p \in DOMAIN toClient : toClient[p].type = "batch"}
Waiting == IF link = "up" THEN DOMAIN bulk ELSE {}
UnderWay == {toClient[p].seq : p \in Arriving} \union {bulk[i] : i \in Waiting}

(* What is on its way to the client continues its cursor without a gap or  *)
(* a repeat, also after any number of resumes: runFrameLoop's check        *)
(* batch.seq() != last_seq + 1 never trips.                                *)
PipelineInOrder ==
    leg = "streaming" =>
        /\ \A p, q \in Arriving : p < q => toClient[p].seq < toClient[q].seq
        /\ \A p \in Arriving, i \in Waiting : toClient[p].seq < bulk[i]
        /\ \A i, j \in Waiting : i < j => bulk[i] < bulk[j]
        /\ \E last \in 0..MaxSeq : UnderWay = (cursor + 1)..last

(* A resume is always possible without loss: every batch the producer has  *)
(* appended and the client does not have yet is still retained, whatever   *)
(* acks, prunes and takeovers came in between (Prune, openResume).         *)
RetainedAboveCursor ==
    live /\ leg # "done" =>
        \A seq \in 1..nextSeq :
            seq > cursor => \/ seq \in queue
                            \/ seq = nextSeq /\ producer = "appending"

(* openResume never refuses the cursor of an honest client: the ledger is  *)
(* extended before the batch becomes visible (flush).                      *)
CursorWithinWatermark == cursor <= HighestAppendedSeq

(* The retain buffer stays within its caps, a lone oversized batch apart,  *)
(* and its running byte count is the size of what it holds (Append,Prune). *)
RetainBounded ==
    /\ Cardinality(queue) <= RetainMaxSeqs
    /\ totalBytes = SumFunctionOnSet(Bytes, queue)
    /\ totalBytes <= RetainMaxBytes \/ Cardinality(queue) = 1

Delivery == INSTANCE SessionDelivery

(* The download implements SessionDelivery: in order, once each, ended     *)
(* once, and an Eos{COMPLETE} total that counts every message of the plan  *)
(* exactly once across resumes (CountersThrough).                          *)
DeliversOnce == Delivery!Spec

(* A download ends: no drop, takeover or full buffer leaves the client and *)
(* the server waiting for each other, provided an ack comes due before the *)
(* retain buffer is full (AckEvery within both caps).                      *)
DownloadEnds == <>(leg = "done")

(* The stream can always go on where the client stands: what is under way  *)
(* continues its cursor, what is not yet there is retained, and a resume   *)
(* at that cursor is accepted.                                             *)
StreamContinues ==
    TypeOK /\ PipelineInOrder /\ RetainedAboveCursor /\ CursorWithinWatermark

(* What the comment of drainAndEos says: Eos{COMPLETE} comes after every   *)
(* batch of the session, so a completed download has them all.             *)
CompleteMeansAll == eos = "Complete" => cursor = MaxSeq
=============================================================================
