--------------------------- MODULE SessionLifecycle ---------------------------
(***************************************************************************)
(* The connection handlers around the session registry: the asynchronous   *)
(* OpenSession goroutines (openFresh, openResume, spawnConsumer), the      *)
(* consumer and producer goroutines of a session with what they do when    *)
(* they end, CancelSession, and the teardown of a connection (detachAll).  *)
(* Sources: server/internal/ws/handlers_session.go, server.go, conn.go.    *)
(*                                                                         *)
(* The registry's operations are the actions of SessionRegistry; each      *)
(* handler step is one of them conjoined with the handler's own state, or  *)
(* leaves the registry alone.  The content of the stream (batches, acks,   *)
(* cursors) is left to SessionStream.                                      *)
(***************************************************************************)
EXTENDS SessionRegistry

CONSTANTS Conns,     \* the WebSocket connections of the behaviour
          NoConn,    \* not a connection
          MaxOpens,  \* bound: OpenSession requests sent, over all connections
          Scenarios  \* sets of outside events a behaviour may contain

ASSUME LifecycleConstants ==
    /\ NoConn \notin Conns
    /\ MaxOpens \in Nat
    /\ Scenarios \subseteq SUBSET {"cancel", "writeFailure", "streamFatal",
                                    "corrupt", "panic", "shutdown"}

(* The goroutines dispatch starts: <<connection, number of the request>>.  *)
Opens == Conns \X (1..MaxOpens)

VARIABLES events,     \* the outside events of this behaviour
          conn,       \* the read loop of each connection
          writeDead,  \* connections whose done channel is closed
          subs,       \* connState.subs: generation tracked per id, 0 = none
          detaching,  \* handles flagged by detachAll
          owedDetach, \* detachAll's snapshot, still to be Detached
          open,       \* the OpenSession goroutines
          canceller,  \* the CancelSession the read loop is in, if any
          current,    \* the connection the client is using; it drops the last
                      \* socket before it dials, which the server may not see
          opens,      \* OpenSession requests sent so far
          known,      \* ids whose OpenSessionResponse reached the client
          consumer,   \* state of consumer goroutine <<id, gen>>
          home,       \* the connection a consumer writes to
          producer,   \* state of each session's producer goroutine
          origin,     \* the connection that opened the session
          terminal    \* terminal frames queued: <<connection, reason>>

socket == <<conn, writeDead>>
handles == <<subs, detaching, owedDetach>>
client == <<events, current, opens, known>>
consumers == <<consumer, home>>
producers == <<producer, origin>>
streams == <<consumers, producers, terminal>>
handlerVars == <<socket, handles, open, canceller, client, streams>>
vars == <<registryVars, handlerVars>>

ConsumerStates == {"none", "running", "draining", "exited", "untrack",
                   "cancel", "finished"}
ProducerStates == {"none", "running", "fatal", "cancel", "stopping", "report",
                   "done"}
EosReasons == {"COMPLETE", "CANCELLED", "ERROR"}
OpenSteps == {"none", "planning", "resuming", "bind", "replace", "track",
              "produce"}
CancelSteps == {"none", "untrack", "cancel", "teardown"}

NoOpen == [pc |-> "none", id |-> 0, gen |-> 0, fresh |-> FALSE]
NotCancelling == [pc |-> "none", id |-> 0]

Init ==
    /\ RegistryInit
    /\ events \in Scenarios
    /\ conn = [c \in Conns |-> "idle"]
    /\ writeDead = {}
    /\ subs = [c \in Conns |-> [id \in Ids |-> 0]]
    /\ detaching = {}
    /\ owedDetach = [c \in Conns |-> {}]
    /\ open = [g \in Opens |-> NoOpen]
    /\ canceller = [c \in Conns |-> NotCancelling]
    /\ current = NoConn
    /\ opens = 0
    /\ known = {}
    /\ consumer = [k \in Ids \X Gens |-> "none"]
    /\ home = [k \in Ids \X Gens |-> NoConn]
    /\ producer = [id \in Ids |-> "none"]
    /\ origin = [id \in Ids |-> NoConn]
    /\ terminal = [id \in Ids |-> {}]

(* SendPriority of a terminal frame: dropped when done is closed.          *)
SendTerminal(id, c, reason) ==
    terminal' = [terminal EXCEPT ![id] = IF c \in writeDead THEN @
                                         ELSE @ \union {<<c, reason>>}]

Untrack(c, id) == subs' = [subs EXCEPT ![c][id] = 0]

-----------------------------------------------------------------------------
(* Opening and resuming: the goroutine dispatch starts per OpenSession.    *)

Connect(c) ==
    /\ conn[c] = "idle"
    /\ conn' = [conn EXCEPT ![c] = "up"]
    /\ current' = c
    /\ UNCHANGED <<registryVars, writeDead, handles, open, canceller, events,
                   opens, known, streams>>

ReadLoopFree(c) == conn[c] = "up" /\ canceller[c] = NotCancelling

(* Each request gets a goroutine of its own, also one that was sent before  *)
(* the client moved on to another connection.                              *)
DispatchOpen(c) ==
    LET g == <<c, opens + 1>> IN
    /\ ReadLoopFree(c)
    /\ opens < MaxOpens
    /\ opens' = opens + 1
    /\ \/ open' = [open EXCEPT ![g] = [NoOpen EXCEPT !.pc = "planning"]]
       \/ \E id \in known : open' = [open EXCEPT ![g] =
              [pc |-> "resuming", id |-> id, gen |-> 0, fresh |-> FALSE]]
    /\ UNCHANGED <<registryVars, socket, handles, canceller, events, current,
                   known, streams>>

(* The plan is refused, or cannot be built.                                *)
OpenFails(g) ==
    /\ open[g].pc = "planning"
    /\ open' = [open EXCEPT ![g] = NoOpen]
    /\ UNCHANGED <<registryVars, socket, handles, canceller, client, streams>>

(* The plan is built, the session registered and the reply queued.         *)
openFresh(g) ==
    /\ open[g].pc = "planning"
    /\ Register
    /\ open' = [open EXCEPT ![g] =
                   [pc |-> "bind", id |-> nextID', gen |-> 0, fresh |-> TRUE]]
    /\ origin' = [origin EXCEPT ![nextID'] = g[1]]
    /\ known' = IF g[1] = current /\ g[1] \notin writeDead
                THEN known \union {nextID'} ELSE known
    /\ UNCHANGED <<socket, handles, canceller, events, current, opens, consumers,
                   producer, terminal>>

(* Lookup, Reattach and the reply; RESUME_NOT_POSSIBLE when it is gone.    *)
openResume(g) ==
    LET id == open[g].id IN
    /\ open[g].pc = "resuming"
    /\ \/ /\ Reattach(id)
          /\ open' = [open EXCEPT ![g].pc = "bind"]
       \/ /\ id \notin sessions
          /\ open' = [open EXCEPT ![g] = NoOpen]
          /\ UNCHANGED registryVars
    /\ UNCHANGED <<socket, handles, canceller, client, streams>>

(* spawnConsumer, in the three steps other goroutines can come between.    *)
AfterSpawn(g) == IF open[g].fresh THEN [open[g] EXCEPT !.pc = "produce"]
                 ELSE NoOpen

spawnBind(g) ==
    LET id == open[g].id IN
    /\ open[g].pc = "bind"
    /\ \/ /\ BindConsumerChecked(id)
          /\ open' = [open EXCEPT
                ![g].pc = IF replaced' = replaced THEN "track" ELSE "replace",
                ![g].gen = consumerGen'[id]]
       \/ /\ id \notin sessions
          /\ open' = [open EXCEPT ![g] = AfterSpawn(g)]
          /\ UNCHANGED registryVars
    /\ UNCHANGED <<socket, handles, canceller, client, streams>>

spawnReplace(g) ==
    /\ open[g].pc = "replace"
    /\ CancelReplaced(open[g].id, open[g].gen - 1)
    /\ open' = [open EXCEPT ![g].pc = "track"]
    /\ UNCHANGED <<socket, handles, canceller, client, streams>>

spawnTrack(g) ==
    LET k == <<open[g].id, open[g].gen>> IN
    /\ open[g].pc = "track"
    /\ subs' = [subs EXCEPT ![g[1]][open[g].id] = open[g].gen]
    /\ consumer' = [consumer EXCEPT ![k] = "running"]
    /\ home' = [home EXCEPT ![k] = g[1]]
    /\ open' = [open EXCEPT ![g] = AfterSpawn(g)]
    /\ UNCHANGED <<registryVars, socket, detaching, owedDetach, canceller,
                   client, producers, terminal>>

spawnProducer(g) ==
    /\ open[g].pc = "produce"
    /\ producer' = [producer EXCEPT ![open[g].id] = "running"]
    /\ open' = [open EXCEPT ![g] = NoOpen]
    /\ UNCHANGED <<registryVars, socket, handles, canceller, client,
                   consumers, origin, terminal>>

-----------------------------------------------------------------------------
(* The consumer goroutine <<id, gen>>: Run, then spawnConsumer's switch.   *)

ConsumerStep(k, from, to) ==
    /\ consumer[k] = from
    /\ consumer' = [consumer EXCEPT ![k] = to]

ConsumerOnly == UNCHANGED <<registryVars, socket, handles, open, canceller,
                            client, home, producers>>

(* ctx.Done, or ProducerDone with the context already cancelled.           *)
consumerCtxDone(k) ==
    /\ k \in ctxDone
    /\ ConsumerStep(k, "running", "exited")
    /\ ConsumerOnly /\ UNCHANGED terminal

(* A failed send sets Detached: the session stays live for a resume.  A    *)
(* retained batch that cannot be decoded counts as a failed send.          *)
SendFails(k) == home[k] \in writeDead \/ "corrupt" \in events

consumerDetached(k) ==
    /\ SendFails(k)
    /\ \/ ConsumerStep(k, "running", "finished")
       \/ ConsumerStep(k, "draining", "finished")
    /\ ConsumerOnly /\ UNCHANGED terminal

(* Mutant of ProducerFinished: ctx.Err() is not consulted.                 *)
ProducerDoneOnly(k) == producer[k[1]] = "done"

ProducerFinished(k) == producer[k[1]] = "done" /\ k \notin ctxDone

consumerProducerDone(k) ==
    /\ ProducerFinished(k)
    /\ ConsumerStep(k, "running", "draining")
    /\ ConsumerOnly /\ UNCHANGED terminal

(* The end of drainAndEos: SendPriority's result is ignored.               *)
consumerEos(k) ==
    /\ ConsumerStep(k, "draining", "exited")
    /\ SendTerminal(k[1], home[k], "COMPLETE")
    /\ ConsumerOnly

(* The recovered panic goes straight to the teardown arm of the switch.    *)
consumerPanics(k) ==
    /\ "panic" \in events
    /\ \/ ConsumerStep(k, "running", "untrack")
       \/ ConsumerStep(k, "draining", "untrack")
    /\ ConsumerOnly /\ UNCHANGED terminal

(* handleIsDetaching or consCtx.Err: keep the session, else tear it down.  *)
consumerDispose(k) ==
    /\ ConsumerStep(k, "exited",
          IF k \in detaching \union ctxDone THEN "finished" ELSE "untrack")
    /\ ConsumerOnly /\ UNCHANGED terminal

consumerUntrack(k) ==
    /\ ConsumerStep(k, "untrack", "cancel")
    /\ Untrack(home[k], k[1])
    /\ UNCHANGED <<registryVars, socket, detaching, owedDetach, open,
                   canceller, client, home, producers, terminal>>

consumerTeardown(k) ==
    /\ ConsumerStep(k, "cancel", "finished")
    /\ Cancel(k[1])
    /\ UNCHANGED <<socket, handles, open, canceller, client, home, producers,
                   terminal>>

-----------------------------------------------------------------------------
(* The producer goroutine: it lives on its own context, not the socket's.  *)

(* Mutant of prodCtxDone: teardown does not cancel the producer.           *)
prodCtxNeverDone(id) == FALSE

prodCtxDone(id) == teardown[id] = "done"

ProducerStep(id, from, to) ==
    /\ producer[id] = from
    /\ producer' = [producer EXCEPT ![id] = to]

ProducerOnly == UNCHANGED <<socket, detaching, owedDetach, open, canceller,
                            client, consumers, origin>>

(* The plan is exhausted, or the context was cancelled: ProducerDone.      *)
producerEnds(id) ==
    /\ ProducerStep(id, "running", "done")
    /\ ProducerOnly /\ UNCHANGED <<registryVars, subs, terminal>>

(* streamFatal: an error while the context is live, or a panic.            *)
producerFails(id) ==
    /\ \/ "streamFatal" \in events /\ ~prodCtxDone(id)
       \/ "panic" \in events
    /\ ProducerStep(id, "running", "fatal")
    /\ ProducerOnly /\ UNCHANGED <<registryVars, subs, terminal>>

producerUntrack(id) ==
    /\ ProducerStep(id, "fatal", "cancel")
    /\ Untrack(origin[id], id)
    /\ ProducerOnly /\ UNCHANGED <<registryVars, terminal>>

(* Cancel first; the call returns when the teardown it started is over.    *)
producerCancel(id) ==
    /\ ProducerStep(id, "cancel",
                    IF id \in sessions THEN "stopping" ELSE "report")
    /\ Cancel(id)
    /\ ProducerOnly /\ UNCHANGED <<subs, terminal>>

producerStopped(id) ==
    /\ teardown[id] = "done"
    /\ ProducerStep(id, "stopping", "report")
    /\ ProducerOnly /\ UNCHANGED <<registryVars, subs, terminal>>

(* Error and Eos{ERROR} on the opening connection, then ProducerDone.      *)
producerReport(id) ==
    /\ ProducerStep(id, "report", "done")
    /\ SendTerminal(id, origin[id], "ERROR")
    /\ ProducerOnly /\ UNCHANGED <<registryVars, subs>>

-----------------------------------------------------------------------------
(* The read loop: CancelSession, and the end of the connection.            *)

(* Lookup and Eos{CANCELLED}; the client cancels a session it was told of. *)
handleCancel(c, id) ==
    /\ "cancel" \in events
    /\ ReadLoopFree(c)
    /\ id \in known \intersect sessions
    /\ SendTerminal(id, c, "CANCELLED")
    /\ canceller' = [canceller EXCEPT ![c] = [pc |-> "untrack", id |-> id]]
    /\ UNCHANGED <<registryVars, socket, handles, open, client, consumers,
                   producers>>

handleCancelUntrack(c) ==
    /\ canceller[c].pc = "untrack"
    /\ Untrack(c, canceller[c].id)
    /\ canceller' = [canceller EXCEPT ![c].pc = "cancel"]
    /\ UNCHANGED <<registryVars, socket, detaching, owedDetach, open, client,
                   streams>>

handleCancelCancel(c) ==
    LET id == canceller[c].id IN
    /\ canceller[c].pc = "cancel"
    /\ Cancel(id)
    /\ canceller' = IF id \in sessions
                    THEN [canceller EXCEPT ![c].pc = "teardown"]
                    ELSE [canceller EXCEPT ![c] = NotCancelling]
    /\ UNCHANGED <<socket, handles, open, client, streams>>

handleCancelReturns(c) ==
    /\ canceller[c].pc = "teardown"
    /\ teardown[canceller[c].id] = "done"
    /\ canceller' = [canceller EXCEPT ![c] = NotCancelling]
    /\ UNCHANGED <<registryVars, socket, handles, open, client, streams>>

(* A socket write fails: the write loop closes done, the read loop may not *)
(* notice until the keepalive gives up.                                    *)
WriteFails(c) ==
    /\ "writeFailure" \in events
    /\ conn[c] = "up" /\ c \notin writeDead
    /\ writeDead' = writeDead \union {c}
    /\ UNCHANGED <<registryVars, conn, handles, open, canceller, client,
                   streams>>

Tracked(c) == {<<id, subs[c][id]>> : id \in {i \in Ids : subs[c][i] # 0}}

(* The read loop returns; detachAll flags the handles under c.mu.          *)
detachAll(c) ==
    /\ ReadLoopFree(c)
    /\ conn' = [conn EXCEPT ![c] = "detaching"]
    /\ detaching' = detaching \union Tracked(c)
    /\ owedDetach' = [owedDetach EXCEPT ![c] = Tracked(c)]
    /\ UNCHANGED <<registryVars, writeDead, subs, open, canceller, client,
                   streams>>

detachNext(c, k) ==
    /\ k \in owedDetach[c]
    /\ Detach(k[1], k[2])
    /\ owedDetach' = [owedDetach EXCEPT ![c] = @ \ {k}]
    /\ UNCHANGED <<socket, subs, detaching, open, canceller, client, streams>>

closeDone(c) ==
    /\ conn[c] = "detaching" /\ owedDetach[c] = {}
    /\ conn' = [conn EXCEPT ![c] = "closed"]
    /\ writeDead' = writeDead \union {c}
    /\ UNCHANGED <<registryVars, handles, open, canceller, client, streams>>

-----------------------------------------------------------------------------
(* Timers, teardown and shutdown run on goroutines of their own.           *)

Timers(id) ==
    /\ \E epoch \in Epochs : TimerFires(id, epoch) \/ evictFire(id, epoch)
    /\ UNCHANGED handlerVars

Teardown(id) ==
    /\ teardownConsumer(id) \/ teardownProducer(id)
    /\ UNCHANGED handlerVars

gracefulShutdown ==
    /\ "shutdown" \in events
    /\ CancelAll \/ \E id \in Ids : CancelAllNext(id)
    /\ UNCHANGED handlerVars

OpenStep(g) ==
    \/ OpenFails(g) \/ openFresh(g) \/ openResume(g)
    \/ spawnBind(g) \/ spawnReplace(g) \/ spawnTrack(g) \/ spawnProducer(g)

ReadLoopStep(c) ==
    \/ handleCancelUntrack(c) \/ handleCancelCancel(c)
    \/ handleCancelReturns(c)
    \/ \E k \in owedDetach[c] : detachNext(c, k)
    \/ closeDone(c)

ConsumerRuns(k) ==
    \/ consumerCtxDone(k) \/ consumerDetached(k) \/ consumerProducerDone(k)
    \/ consumerEos(k) \/ consumerDispose(k) \/ consumerUntrack(k)
    \/ consumerTeardown(k)

ProducerReports(id) ==
    \/ producerUntrack(id) \/ producerCancel(id)
    \/ producerStopped(id) \/ producerReport(id)

Next ==
    \/ \E c \in Conns : Connect(c) \/ DispatchOpen(c) \/ WriteFails(c)
    \/ \E c \in Conns : detachAll(c) \/ \E id \in Ids : handleCancel(c, id)
    \/ (\E g \in Opens : OpenStep(g)) \/ (\E c \in Conns : ReadLoopStep(c))
    \/ \E k \in Ids \X Gens : ConsumerRuns(k) \/ consumerPanics(k)
    \/ \E id \in Ids : producerEnds(id) \/ producerFails(id)
    \/ \E id \in Ids : ProducerReports(id)
    \/ \E id \in Ids : Timers(id) \/ Teardown(id)
    \/ gracefulShutdown

(* What the process does by itself: goroutines that are ready run, timers  *)
(* fire, and a producer whose context is cancelled returns.  Nothing       *)
(* forces a client to send, a producer to finish or a connection to drop.  *)
ProcessStep ==
    \/ (\E g \in Opens : OpenStep(g)) \/ (\E c \in Conns : ReadLoopStep(c))
    \/ \E k \in Ids \X Gens : ConsumerRuns(k)
    \/ \E id \in Ids : \/ prodCtxDone(id) /\ producerEnds(id)
                       \/ ProducerReports(id) \/ Timers(id) \/ Teardown(id)

Spec == Init /\ [][Next]_vars

-----------------------------------------------------------------------------

(* The handlers' state is of its types.                                    *)
TypeOK ==
    /\ events \in Scenarios
    /\ conn \in [Conns -> {"idle", "up", "detaching", "closed"}]
    /\ writeDead \subseteq Conns
    /\ subs \in [Conns -> [Ids -> 0..MaxGen]]
    /\ detaching \subseteq Ids \X Gens
    /\ owedDetach \in [Conns -> SUBSET (Ids \X Gens)]
    /\ open \in [Opens -> [pc : OpenSteps, id : 0..MaxID, gen : 0..MaxGen,
                           fresh : BOOLEAN]]
    /\ canceller \in [Conns -> [pc : CancelSteps, id : 0..MaxID]]
    /\ current \in Conns \union {NoConn}
    /\ opens \in 0..MaxOpens
    /\ known \subseteq Ids
    /\ consumer \in [Ids \X Gens -> ConsumerStates]
    /\ home \in [Ids \X Gens -> Conns \union {NoConn}]
    /\ producer \in [Ids -> ProducerStates]
    /\ origin \in [Ids -> Conns \union {NoConn}]
    /\ terminal \in [Ids -> SUBSET (Conns \X EosReasons)]

(* A consumer context is cancelled only because a takeover replaced it,    *)
(* because the session was removed, or because its own connection is being *)
(* torn down: the late teardown of a stale connection cannot cancel the    *)
(* successor (Detach's generation check).                                  *)
CancelledForCause ==
    \A k \in ctxDone' \ ctxDone :
        \/ k[2] < consumerGen[k[1]]
        \/ k[1] \notin sessions
        \/ k \in detaching

(* Once teardown has cancelled a session's consumer no final drain starts  *)
(* (Run's ctx.Err check before drainAndEos): a spurious Eos{COMPLETE} can  *)
(* only come from a drain that began before that, or in the window of a    *)
(* takeover.                                                               *)
DrainStartsLive ==
    \A k \in Ids \X Gens :
        consumer[k] # "draining" /\ consumer'[k] = "draining" =>
            \/ k[1] \in sessions
            \/ teardown[k[1]] = "consumer"
            \/ k \in replaced

(* In every step a cancel comes for a reason, and no drain begins after it. *)
CancelOrderly == [][CancelledForCause /\ DrainStartsLive]_vars

(* A removed session has wound down: its producer returned and each of its *)
(* consumers ended, so neither goroutine outlives the registry entry.      *)
WoundDown ==
    \A id \in (1..nextID) \ sessions :
        /\ producer[id] \in {"none", "done"}
        /\ \A gen \in Gens : consumer[<<id, gen>>] \in {"none", "finished"}

(* A session whose connection went away was resumed or given up: after     *)
(* detachAll flagged its handle the eviction timer removes it unless a     *)
(* resume binds a new consumer.                                            *)
DetachedSettled ==
    \A k \in detaching : k[1] \in sessions => consumerGen[k[1]] > k[2]

(* No goroutine of a removed session is left for ever, and no session      *)
(* whose connection went away is kept for ever: as long as one is, the     *)
(* process has a step to take.  Every step of ProcessStep uses up          *)
(* something only an outside event renews, so they come to an end.         *)
ComesToRest ==
    /\ TypeOK
    /\ (WoundDown /\ DetachedSettled) \/ ENABLED ProcessStep
=============================================================================
