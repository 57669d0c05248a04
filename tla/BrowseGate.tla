----------------------------- MODULE BrowseGate -----------------------------
(***************************************************************************)
(* The browse gate of the dialog: the GUI thread (mcap_cloud_dialog.cpp),  *)
(* the worker thread that runs its commands one by one (fetch_worker.cpp)  *)
(* and the catalog calls of the connection (backend_connection.cpp), over  *)
(* two FIFO queues.  A gate change issues a new request id; whatever an    *)
(* older request still delivers must not reach the panel.                  *)
(*                                                                         *)
(* A file is a number, in key order; a path is a customer, a site and a    *)
(* robot, and a file's key holds its path.  A server's catalog is rebuilt  *)
(* from one generation to the next.  latest_gate_request_ is written with  *)
(* gate_request_seq, so one variable stands for both.  The user, the       *)
(* rebuilds and the faults draw on a budget.                               *)
(***************************************************************************)
EXTENDS Integers, Sequences, SequencesExt, FiniteSets

CONSTANTS Server,
          Path,       \* records [c, s, r]
          File, PathOf, ShortOf, SourceOf,   \* a file's path, short name, source
          Vocab, Files,    \* of a server, per generation: paths, files
          PageLimit,
          Settings,   \* what the program may start with: the last server, the
                      \* picks of before the gate, a Source filter, the budget
          Stalls,     \* whether one batch may outlast the render window
          None

ASSUME GateConstants ==
    /\ \A f \in File : PathOf[f] \in Path
    /\ \A v \in Server : Len(Vocab[v]) = Len(Files[v]) /\ Len(Files[v]) > 0
    /\ PageLimit \in Nat \ {0} /\ File \subseteq Nat

VARIABLES connected, connecting, server,  \* server: active_server_key
          phase, request,                 \* gate_phase, gate_request_seq
          vocabulary, pick, saved, legacy,
          progressive, rows, labels,      \* rows received, rows held, column 0
          prefix, ascending, dates, source,
          view,                           \* SeqViewCache
          selected, infos, failed, loading,    \* topics of the selected files
          backend, closed, vocab, lastGate, lost,  \* of the worker
          work,                           \* the listing in progress, or None
          turn, batch,                    \* of the GUI thread: events being handled
          cmds, events, generation, budget

gate == <<phase, request, vocabulary, pick, saved, legacy>>
link == <<connected, connecting, server>>
table == <<progressive, rows, labels, prefix, ascending, dates, source, view>>
topics == <<selected, infos, failed, loading>>
worker == <<backend, closed, vocab, lastGate, lost, work>>
vars == <<link, gate, table, topics, worker, turn, batch, cmds, events, generation, budget>>

NoPick == [c |-> None, s |-> None, r |-> None]
Complete(p) == p.c # None /\ p.s # None /\ p.r # None
Spend(what) == budget[what] > 0 /\ budget' = [budget EXCEPT ![what] = @ - 1]
postCommand(c) == cmds' = Append(cmds, c)
postEvent(e) == events' = Append(events, e)

Customers(v) == {p.c : p \in v.paths}
siteNamesFor(v, c) == {p.s : p \in {q \in v.paths : q.c = c}}
robotNamesFor(v, c, s) == {p.r : p \in {q \in v.paths : q.c = c /\ q.s = s}}
Sole(S) == IF Cardinality(S) = 1 THEN CHOOSE x \in S : TRUE ELSE None
autoSelectCustomer(v) == Sole(Customers(v))
autoSelectRobot(v, c, s) == Sole(robotNamesFor(v, c, s))
resolveGateFilter(v, p) == p \in v.paths

\* What a server answers in its present generation.
VocabularyOf(v) == [srv |-> v, gen |-> generation[v], paths |-> Vocab[v][generation[v]]]
Listing(v, g, p) ==
    LET listed == {f \in Files[v][g] : PathOf[f] = p}
    IN [i \in 1..Cardinality(listed) |->
          [file |-> SetToSortSeq(listed, <)[i], srv |-> v, gen |-> g]]

(***************************** The sequence table *************************)
Short(f) == <<"short", ShortOf[f]>>
rebuildSeqDisplay(rs) ==
    LET Alone(i) == \A j \in DOMAIN rs : ShortOf[rs[j].file] = ShortOf[rs[i].file] => j = i
    IN [i \in DOMAIN rs |-> IF Alone(i) THEN Short(rs[i].file) ELSE <<"full", rs[i].file>>]

SortedUp(rs) == SortSeq(rs, LAMBDA a, b : a.file < b.file)
SortedDown(rs) == SortSeq(rs, LAMBDA a, b : a.file > b.file)
sortSequences(rs, up) == IF up THEN SortedUp(rs) ELSE SortedDown(rs)

populateSequences(rs) ==
    /\ rows' = sortSequences(rs, ascending)
    /\ labels' = rebuildSeqDisplay(rows')
    /\ prefix' = 0

\* The tail can be appended when no short name of it is taken.
CanAppendBlind(rs) ==
    /\ rows # <<>> /\ Len(rows) < Len(rs)
    /\ \A i \in Len(rows) + 1 .. Len(rs), j \in 1..Len(rows) :
          ShortOf[rs[i].file] # ShortOf[rows[j].file]
CanAppend(rs) ==
    /\ rows # <<>> /\ Len(rows) < Len(rs)
    /\ \A i \in Len(rows) + 1 .. Len(rs) :
          /\ \A j \in 1..Len(rows) : ShortOf[rs[i].file] # ShortOf[rows[j].file]
          /\ \A j \in Len(rows) + 1 .. i - 1 : ShortOf[rs[i].file] # ShortOf[rs[j].file]
appendSequences(rs) ==
    LET tail == SubSeq(rs, Len(rows) + 1, Len(rs))
    IN /\ rows' = rows \o tail
       /\ labels' = labels \o [i \in 1..Len(tail) |-> Short(tail[i].file)]
       /\ prefix' = Len(rows)

Stale(w) == [w EXCEPT !.fresh = FALSE]
Passes(f) == /\ dates = None \/ (dates.from <= f /\ f <= dates.to)
             /\ source = None \/ SourceOf[f] = source

clearSelection ==
    selected' = {} /\ failed' = {} /\ loading' = FALSE /\ UNCHANGED infos

(************************** Gate changes of the user **********************)
beginGateRequest(next) ==
    /\ progressive' = <<>> /\ rows' = <<>> /\ labels' = <<>> /\ prefix' = 0
    /\ view' = Stale(view)
    /\ clearSelection
    /\ dates' = None
    /\ phase' = next /\ request' = request + 1

listCommand(p) == postCommand([op |-> "list", id |-> request + 1, pick |-> p])

buttonConnect(v) ==
    /\ Spend("connect") /\ ~connecting
    /\ connecting' = TRUE
    /\ postCommand([op |-> "connect", srv |-> v])
    /\ UNCHANGED <<connected, server, gate, table, topics, worker, events, generation>>

buttonRefresh ==
    /\ Spend("refresh") /\ connected /\ ~connecting
    /\ \/ /\ Complete(pick)
          /\ beginGateRequest("ListLoading") /\ listCommand(pick)
       \/ /\ ~Complete(pick)
          /\ beginGateRequest("VocabularyLoading")
          /\ postCommand([op |-> "vocabulary", id |-> request + 1])
    /\ UNCHANGED <<link, vocabulary, pick, saved, legacy, ascending, source, worker, events, generation>>

filter_customer(c) ==
    /\ Spend("pick") /\ connected /\ vocabulary # None
    /\ c \in Customers(vocabulary) /\ c # pick.c
    /\ pick' = [NoPick EXCEPT !.c = c]
    /\ saved' = [saved EXCEPT ![server] = pick']
    /\ beginGateRequest("NeedsSelection")
    /\ UNCHANGED <<link, vocabulary, legacy, ascending, source, worker, cmds, events, generation>>

filter_customer_site(s) ==
    /\ Spend("pick") /\ connected /\ vocabulary # None
    /\ s \in siteNamesFor(vocabulary, pick.c) /\ s # pick.s
    /\ pick' = [pick EXCEPT !.s = s, !.r = autoSelectRobot(vocabulary, pick.c, s)]
    /\ saved' = [saved EXCEPT ![server].s = s, ![server].r = pick'.r]
    /\ \/ /\ pick'.r = None
          /\ beginGateRequest("NeedsSelection") /\ UNCHANGED cmds
       \/ /\ pick'.r # None
          /\ beginGateRequest("ListLoading") /\ listCommand(pick')
    /\ UNCHANGED <<link, vocabulary, legacy, ascending, source, worker, events, generation>>

filter_robot(r) ==
    /\ Spend("pick") /\ connected /\ vocabulary # None
    /\ r \in robotNamesFor(vocabulary, pick.c, pick.s) /\ r # pick.r
    /\ pick' = [pick EXCEPT !.r = r]
    /\ saved' = [saved EXCEPT ![server].r = r]
    /\ beginGateRequest("ListLoading") /\ listCommand(pick')
    /\ UNCHANGED <<link, vocabulary, legacy, ascending, source, worker, events, generation>>

(************************* Other handlers of the user *********************)
onHeaderClicked ==
    /\ Spend("sort")
    /\ ascending' = ~ascending
    /\ rows' = sortSequences(rows, ascending')
    /\ labels' = rebuildSeqDisplay(rows')
    /\ IF rows = <<>> THEN UNCHANGED <<prefix, view>> ELSE prefix' = 0 /\ view' = Stale(view)
    /\ UNCHANGED <<link, gate, progressive, dates, source, topics, worker, cmds, events, generation>>

filter_source(v) ==
    /\ Spend("filter") /\ v # source
    /\ v \in {None} \cup {SourceOf[rows[i].file] : i \in DOMAIN rows}
    /\ source' = v
    /\ UNCHANGED <<link, gate, progressive, rows, labels, prefix, ascending, dates, view,
                   topics, worker, cmds, events, generation>>

LoadingUntilListed(sel, inf, fail) == \E f \in sel : inf[f] = None
Loading(sel, inf, fail) == \E f \in sel : inf[f] = None /\ f \notin fail

\* Labels clicked on screen are looked up among the labels held now.
onSelectionChanged(clicked) ==
    /\ Spend("select")
    /\ selected' = {rows[i].file : i \in {j \in DOMAIN labels : labels[j] \in clicked}}
    /\ \/ /\ clicked = {}
          /\ loading' = FALSE /\ UNCHANGED <<infos, failed, cmds>>
       \/ /\ clicked # {}
          /\ infos' = [f \in File |-> IF f \in selected' THEN infos[f] ELSE None]
          /\ failed' = {}
          /\ loading' = Loading(selected', infos', {})
          /\ cmds' = cmds \o [i \in 1..Cardinality({f \in selected' : infos'[f] = None}) |->
                [op |-> "topics",
                 file |-> SetToSortSeq({f \in selected' : infos'[f] = None}, <)[i]]]
    /\ UNCHANGED <<link, gate, table, worker, events, generation>>

\* The tag editor is modal: opened for the one selected row, then accepted.
editTags ==
    /\ Spend("tag") /\ connected /\ ~connecting
    /\ Cardinality({i \in DOMAIN view.files : view.files[i] \in selected}) = 1
    /\ postCommand([op |-> "tags"])
    /\ UNCHANGED <<link, gate, table, topics, worker, events, generation>>

\* widget_data: extend the cached view by the appended rows, or rebuild it.
MatchesDates == view.dates = dates
Matches == view.dates = dates /\ view.source = source
VisibleRows == {i \in DOMAIN rows : Passes(rows[i].file)}
CanExtend ==
    ~view.fresh /\ Matches /\ prefix > 0 /\ prefix = Len(view.files) /\ Len(rows) > prefix
Hit == view.fresh /\ Matches
Rebuilt == [fresh |-> TRUE, dates |-> dates, source |-> source, labels |-> labels,
            files |-> [i \in DOMAIN rows |-> rows[i].file], visible |-> VisibleRows]
Extended == [view EXCEPT !.fresh = TRUE,
                !.labels = @ \o SubSeq(labels, prefix + 1, Len(labels)),
                !.files = @ \o [i \in 1..Len(rows) - prefix |-> rows[prefix + i].file],
                !.visible = @ \cup {i \in VisibleRows : i > prefix}]
HidesSelection(w) == /\ selected # {} /\ rows # <<>>
                     /\ \A i \in w.visible : w.files[i] \notin selected
widgetData ==
    /\ turn # "idle" /\ batch = <<>> /\ turn' = "idle"
    /\ view' = IF Hit THEN view ELSE IF CanExtend THEN Extended ELSE Rebuilt
    /\ IF HidesSelection(view') THEN clearSelection ELSE UNCHANGED topics
    /\ UNCHANGED <<link, gate, progressive, rows, labels, prefix, ascending, dates, source,
                   worker, batch, cmds, events, generation, budget>>

(******************************* The worker *******************************)
Take(op) == work = None /\ cmds # <<>> /\ Head(cmds).op = op /\ cmds' = Tail(cmds)
gui == <<link, gate, table, topics, turn, batch>>

connectAsync(ok) ==
    /\ Take("connect")
    /\ IF ok THEN UNCHANGED budget ELSE Spend("fail")
    /\ backend' = IF ok THEN Head(cmds).srv ELSE None
    /\ closed' = FALSE /\ vocab' = None /\ lastGate' = None
    /\ lost' = IF ok THEN FALSE ELSE lost
    /\ postEvent([e |-> "connected", ok |-> ok, srv |-> Head(cmds).srv])
    /\ UNCHANGED <<work, gui, generation>>

\* The outcome of one call: on a dead socket it fails.
Calls(outcome) ==
    \/ outcome = "closed" /\ closed /\ UNCHANGED budget
    \/ outcome = "failed" /\ ~closed /\ Spend("fail")
    \/ outcome = "ok" /\ ~closed /\ UNCHANGED budget
notifyConnectionLostOnce(es) ==
    /\ lost' = TRUE
    /\ events' = (IF lost THEN events ELSE Append(events, [e |-> "lost"])) \o es

fetchVocabularyAsync ==
    /\ Take("vocabulary")
    /\ LET id == Head(cmds).id
           refused == [e |-> "noVocabulary", id |-> id]
       IN IF id # request
          THEN UNCHANGED <<vocab, lost, events, budget>>
          ELSE IF backend = None
          THEN postEvent(refused) /\ UNCHANGED <<vocab, lost, budget>>
          ELSE \/ /\ Calls("closed")
                  /\ notifyConnectionLostOnce(<<>>) /\ UNCHANGED vocab
               \/ /\ Calls("failed")
                  /\ postEvent(refused) /\ UNCHANGED <<vocab, lost>>
               \/ /\ Calls("ok")
                  /\ vocab' = VocabularyOf(backend)
                  /\ postEvent([e |-> "vocabulary", id |-> id, vocab |-> vocab', recovery |-> FALSE])
                  /\ UNCHANGED lost
    /\ UNCHANGED <<backend, closed, lastGate, work, gui, generation>>

Finished(id, error, rs) == [e |-> "finished", id |-> id, error |-> error, rows |-> rs]

forgetSelection(id, p) == UNCHANGED lastGate
rememberSelection(id, p) == lastGate' = [id |-> id, pick |-> p]
startListing(id, p) ==
    \/ /\ id # request
       /\ postEvent(Finished(id, "superseded", <<>>)) /\ UNCHANGED <<lastGate, work>>
    \/ /\ id = request /\ backend = None
       /\ postEvent(Finished(id, "connectionLost", <<>>)) /\ UNCHANGED <<lastGate, work>>
    \/ /\ id = request /\ backend # None
       /\ rememberSelection(id, p)
       /\ work' = [id |-> id, pick |-> p, attempt |-> 0, got |-> <<>>, done |-> FALSE]
       /\ UNCHANGED events
listSequencesFilteredAsync ==
    /\ Take("list")
    /\ startListing(Head(cmds).id, Head(cmds).pick)
    /\ UNCHANGED <<backend, closed, vocab, lost, gui, generation, budget>>

listEnds(error, rs) == work' = None /\ postEvent(Finished(work.id, error, rs))
listLost == /\ work' = None
            /\ notifyConnectionLostOnce(<<Finished(work.id, "connectionLost", <<>>)>>)

refreshVocabulary ==
    /\ work # None /\ vocab = None
    /\ \/ Calls("closed") /\ listLost /\ UNCHANGED vocab
       \/ Calls("failed") /\ listEnds("rebuildStorm", <<>>) /\ UNCHANGED <<vocab, lost>>
       \/ /\ Calls("ok")
          /\ vocab' = VocabularyOf(backend)
          /\ postEvent([e |-> "vocabulary", id |-> work.id, vocab |-> vocab', recovery |-> TRUE])
          /\ UNCHANGED <<work, lost>>
    /\ UNCHANGED <<backend, closed, lastGate, cmds, gui, generation>>

selectionGone ==
    /\ work # None /\ vocab # None /\ work.got = <<>> /\ ~resolveGateFilter(vocab, work.pick)
    /\ listEnds("selectionGone", <<>>)
    /\ UNCHANGED <<backend, closed, vocab, lastGate, lost, cmds, gui, generation, budget>>

\* One ListFiles page: a filter is only good for the generation it names.
Expired == vocab.gen # generation[backend]
Page == LET all == Listing(backend, generation[backend], work.pick)
        IN SubSeq(all, Len(work.got) + 1, Min({Len(all), Len(work.got) + PageLimit}))
listPage ==
    /\ work # None /\ vocab # None /\ ~work.done /\ resolveGateFilter(vocab, work.pick)
    /\ \/ /\ work.id # request /\ ~closed
          /\ listEnds("superseded", <<>>) /\ UNCHANGED <<vocab, lost, budget>>
       \/ /\ Calls("closed") /\ listLost /\ UNCHANGED vocab
       \/ /\ work.id = request /\ Calls("failed")
          /\ listEnds("partial", work.got) /\ UNCHANGED <<vocab, lost>>
       \/ /\ work.id = request /\ Calls("ok") /\ Expired /\ work.attempt = 0
          /\ vocab' = None
          /\ work' = [work EXCEPT !.attempt = 1, !.got = <<>>]
          /\ UNCHANGED <<lost, events>>
       \/ /\ work.id = request /\ Calls("ok") /\ Expired /\ work.attempt = 1
          /\ vocab' = None /\ listEnds("rebuildStorm", <<>>) /\ UNCHANGED lost
       \/ /\ work.id = request /\ Calls("ok") /\ ~Expired
          /\ LET got == work.got \o Page
                 page == [e |-> "page", id |-> work.id, rows |-> Page, reset |-> work.got = <<>>]
             IN /\ postEvent(page)
                /\ work' = [work EXCEPT !.got = got,
                     !.done = Len(got) = Len(Listing(backend, generation[backend], work.pick))]
          /\ UNCHANGED <<vocab, lost>>
    /\ UNCHANGED <<backend, closed, lastGate, cmds, gui, generation>>

\* Every page is in: the socket and the request id are looked at once more.
listDone ==
    /\ work # None /\ work.done
    /\ IF closed THEN listLost
       ELSE /\ listEnds(IF work.id = request THEN "none" ELSE "superseded",
                        IF work.id = request THEN work.got ELSE <<>>)
            /\ UNCHANGED lost
    /\ UNCHANGED <<backend, closed, vocab, lastGate, cmds, gui, generation, budget>>

listTopicsAsync ==
    /\ Take("topics")
    /\ LET f == Head(cmds).file
           refused == [e |-> "noTopics", file |-> f]
       IN IF backend = None
          THEN postEvent(refused) /\ UNCHANGED <<lost, budget>>
          ELSE \/ /\ Calls("closed") /\ lost' = TRUE
                  /\ events' = Append(events, refused)
                                \o (IF lost THEN <<>> ELSE <<[e |-> "lost"]>>)
               \/ Calls("failed") /\ postEvent(refused) /\ UNCHANGED lost
               \/ /\ Calls("ok") /\ UNCHANGED lost
                  /\ postEvent([e |-> "topics", file |-> f, srv |-> backend])
    /\ UNCHANGED <<backend, closed, vocab, lastGate, work, gui, generation>>

\* A committed edit lists the remembered selection again, under its own id.
updateTagsAsync ==
    /\ Take("tags")
    /\ \/ /\ IF backend = None THEN UNCHANGED budget ELSE Calls("closed") \/ Calls("failed")
          /\ UNCHANGED <<lastGate, work, events>>
       \/ /\ backend # None /\ Calls("ok") /\ lastGate # None
          /\ startListing(lastGate.id, lastGate.pick)
    /\ UNCHANGED <<backend, closed, vocab, lost, gui, generation>>

(************************ Results on the GUI thread ***********************)
\* onTick handles the events that were queued when it began.
onTick ==
    /\ turn = "idle" /\ events # <<>>
    /\ turn' = "handling" /\ batch' = events /\ events' = <<>>
    /\ UNCHANGED <<link, gate, table, topics, worker, cmds, generation, budget>>
Event(e) == batch # <<>> /\ Head(batch).e = e /\ batch' = Tail(batch) /\ UNCHANGED events
gateRequestNeverStale(id) == FALSE
gateRequestStale(id) == id # request

onConnectFinished ==
    /\ Event("connected")
    /\ connected' = Head(batch).ok /\ connecting' = FALSE
    /\ \/ /\ Head(batch).ok
          /\ server' = Head(batch).srv
          /\ pick' = IF server' = server THEN pick ELSE NoPick
          /\ beginGateRequest("VocabularyLoading")
          /\ postCommand([op |-> "vocabulary", id |-> request + 1])
       \/ /\ ~Head(batch).ok
          /\ phase' = "Disconnected"
          /\ UNCHANGED <<server, request, pick, cmds, progressive, rows, labels, prefix, dates, view, topics>>
    /\ UNCHANGED <<vocabulary, saved, legacy, ascending, source, worker, generation, budget>>

\* In-session choice, then the server's saved one, then the only one, then
\* the settings of before the gate; what the vocabulary lacks is dropped.
Or(a, b) == IF a # None THEN a ELSE b
Resolved(v) ==
    LET c1 == Or(Or(pick.c, saved[server].c), autoSelectCustomer(v))
        s1 == Or(pick.s, saved[server].s)
        c == Or(c1, legacy.c)
        s2 == Or(s1, legacy.s)
        s == IF c # None /\ s2 \notin siteNamesFor(v, c) THEN None ELSE s2
        r == Or(pick.r, saved[server].r)
        kept == [c |-> c, s |-> s, r |-> r]
    IN IF c # None /\ c \notin Customers(v) THEN NoPick
       ELSE IF c = None \/ s = None THEN [kept EXCEPT !.r = None]
       ELSE IF r = None THEN [kept EXCEPT !.r = autoSelectRobot(v, c, s)]
       ELSE IF resolveGateFilter(v, kept) THEN kept ELSE [kept EXCEPT !.r = None]
Migrates(v) ==
    \/ legacy.c # None /\ Or(Or(pick.c, saved[server].c), autoSelectCustomer(v)) = None
    \/ legacy.s # None /\ Or(pick.s, saved[server].s) = None

Dropped == UNCHANGED <<gate, progressive, rows, labels, prefix, dates, view, topics, cmds>>

onVocabularyReady ==
    /\ Event("vocabulary")
    /\ LET v == Head(batch).vocab
       IN \/ gateRequestStale(Head(batch).id) /\ Dropped
          \/ /\ ~gateRequestStale(Head(batch).id)
             /\ vocabulary' = v
             /\ \/ /\ Head(batch).recovery
                   /\ UNCHANGED <<phase, request, pick, legacy, progressive, rows, labels, prefix,
                                  dates, view, topics, cmds>>
                \/ /\ ~Head(batch).recovery /\ v.paths = {}
                   /\ phase' = "EmptyCatalog"
                   /\ UNCHANGED <<request, pick, legacy, progressive, rows, labels, prefix,
                                  dates, view, topics, cmds>>
                \/ /\ ~Head(batch).recovery /\ v.paths # {}
                   /\ pick' = Resolved(v)
                   /\ legacy' = IF Migrates(v) THEN NoPick ELSE legacy
                   /\ \/ /\ Complete(pick')
                         /\ beginGateRequest("ListLoading") /\ listCommand(pick')
                      \/ /\ ~Complete(pick')
                         /\ phase' = "NeedsSelection"
                         /\ UNCHANGED <<request, progressive, rows, labels, prefix, dates, view,
                                        topics, cmds>>
             /\ UNCHANGED saved
    /\ UNCHANGED <<link, ascending, source, worker, generation, budget>>

onVocabularyFailed ==
    /\ Event("noVocabulary")
    /\ phase' = IF gateRequestStale(Head(batch).id) THEN phase ELSE "VocabularyError"
    /\ UNCHANGED <<link, request, vocabulary, pick, saved, legacy, table, topics, worker, cmds,
                   generation, budget>>

\* The window stands for the render throttle: a page may wait for the next.
AccumulatedAcross(page) == progressive \o page.rows
Accumulated(page) == (IF page.reset THEN <<>> ELSE progressive) \o page.rows
renderPage(rs, reset) ==
    IF ~reset /\ CanAppend(rs) THEN appendSequences(rs) ELSE populateSequences(rs)
onGatePageReady(window) ==
    /\ Event("page")
    /\ \/ /\ gateRequestStale(Head(batch).id)
          /\ UNCHANGED <<progressive, rows, labels, prefix, view, turn>>
       \/ /\ ~gateRequestStale(Head(batch).id)
          /\ progressive' = Accumulated(Head(batch))
          /\ \/ /\ (window /\ (Stalls \/ turn # "rendered")) \/ Head(batch).reset
                /\ turn' = "rendered"
                /\ renderPage(progressive', Head(batch).reset)
                /\ view' = Stale(view)
             \/ /\ ~window /\ ~Head(batch).reset
                /\ UNCHANGED <<rows, labels, prefix, view, turn>>
    /\ UNCHANGED <<link, gate, ascending, dates, source, topics, worker, cmds, generation, budget>>

\* A source that the fresh rows lack is dropped, or it would hide them all.
PrunedNever(rs) == source
PrunedSource(rs) == IF \E i \in DOMAIN rs : SourceOf[rs[i].file] = source THEN source ELSE None
onSequencesReady(rs) ==
    /\ progressive' = <<>>
    /\ populateSequences(rs)
    /\ dates' = IF rs = <<>> THEN dates
                ELSE [from |-> SortedUp(rs)[1].file, to |-> SortedDown(rs)[1].file]
    /\ source' = PrunedSource(rs)
    /\ view' = Stale(view)

onGateListFinished ==
    /\ Event("finished")
    /\ LET error == Head(batch).error
           rs == Head(batch).rows
       IN \/ /\ gateRequestStale(Head(batch).id) \/ error \in {"superseded", "connectionLost"}
             /\ UNCHANGED <<phase, pick, table>>
          \/ /\ ~gateRequestStale(Head(batch).id)
             /\ \/ /\ error = "none"
                   /\ onSequencesReady(rs)
                   /\ phase' = IF rs = <<>> THEN "ListEmpty" ELSE "Rows"
                   /\ UNCHANGED <<pick, ascending>>
                \/ /\ error = "selectionGone"
                   /\ pick' = [pick EXCEPT !.s = None, !.r = None]
                   /\ phase' = "NeedsSelection" /\ UNCHANGED table
                \/ /\ error \in {"partial", "rebuildStorm"}
                   /\ phase' = "ListError" /\ UNCHANGED <<pick, table>>
    /\ UNCHANGED <<link, request, vocabulary, saved, legacy, topics, worker, cmds, generation, budget>>

onTopicInfosReady ==
    /\ Event("topics")
    /\ LET f == Head(batch).file
       IN \/ f \notin selected /\ UNCHANGED <<infos, loading>>
          \/ /\ f \in selected
             /\ infos' = [infos EXCEPT ![f] = Head(batch).srv]
             /\ loading' = Loading(selected, infos', failed)
    /\ UNCHANGED <<link, gate, table, selected, failed, worker, cmds, generation, budget>>

onTopicsFailed ==
    /\ Event("noTopics")
    /\ LET f == Head(batch).file
       IN \/ f \notin selected /\ UNCHANGED <<failed, loading>>
          \/ /\ f \in selected
             /\ failed' = failed \cup {f}
             /\ loading' = Loading(selected, infos, failed')
    /\ UNCHANGED <<link, gate, table, selected, infos, worker, cmds, generation, budget>>

disconnectSilently == connected' = FALSE /\ UNCHANGED phase
disconnect == connected' = FALSE /\ phase' = IF connected THEN "Disconnected" ELSE phase
onConnectionLost ==
    /\ Event("lost")
    /\ disconnect
    /\ UNCHANGED <<connecting, server, request, vocabulary, pick, saved, legacy, table, topics,
                   worker, cmds, generation, budget>>

(****************************** The outside *******************************)
socketCloses ==
    /\ Spend("drop") /\ backend # None /\ ~closed /\ closed' = TRUE
    /\ UNCHANGED <<backend, vocab, lastGate, lost, work, gui, cmds, events, generation>>
catalogRebuilt(v) ==
    /\ Spend("rebuild") /\ generation[v] < Len(Files[v])
    /\ generation' = [generation EXCEPT ![v] = @ + 1]
    /\ UNCHANGED <<gui, worker, cmds, events>>

\* initFromSettings: the last server, if any, is connected to at once.
Init ==
    /\ connected = FALSE /\ server = None
    /\ \E start \in Settings :
          /\ connecting = (start.last # None)
          /\ cmds = IF start.last = None THEN <<>> ELSE <<[op |-> "connect", srv |-> start.last]>>
          /\ legacy = start.legacy /\ source = start.source /\ budget = start.budget
    /\ phase = "Disconnected" /\ request = 0
    /\ vocabulary = None /\ pick = NoPick
    /\ saved = [v \in Server |-> NoPick]
    /\ progressive = <<>> /\ rows = <<>> /\ labels = <<>> /\ prefix = 0
    /\ ascending = TRUE /\ dates = None
    /\ view = [fresh |-> FALSE, labels |-> <<>>, files |-> <<>>, visible |-> {},
               dates |-> None, source |-> None]
    /\ selected = {} /\ infos = [f \in File |-> None] /\ failed = {} /\ loading = FALSE
    /\ backend = None /\ closed = FALSE /\ vocab = None /\ lastGate = None /\ lost = FALSE
    /\ work = None /\ turn = "idle" /\ batch = <<>> /\ events = <<>>
    /\ generation = [v \in Server |-> 1]

\* The panel is drawn after every handler and after every tick.
User ==
    /\ turn = "idle" /\ turn' = "handling" /\ UNCHANGED batch
    /\ \/ \E v \in Server : buttonConnect(v)
       \/ buttonRefresh \/ onHeaderClicked \/ editTags
       \/ \E p \in Path : filter_customer(p.c) \/ filter_customer_site(p.s) \/ filter_robot(p.r)
       \/ \E v \in {SourceOf[f] : f \in File} \cup {None} : filter_source(v)
       \/ \E clicked \in SUBSET ToSet(view.labels) : onSelectionChanged(clicked)
Callbacks ==
    \/ \E window \in BOOLEAN : onGatePageReady(window)
    \/ /\ UNCHANGED turn
       /\ \/ onConnectFinished \/ onVocabularyReady \/ onVocabularyFailed \/ onGateListFinished
          \/ onTopicInfosReady \/ onTopicsFailed \/ onConnectionLost
workerLoop ==
    \/ \E ok \in BOOLEAN : connectAsync(ok)
    \/ fetchVocabularyAsync \/ listSequencesFilteredAsync \/ refreshVocabulary \/ selectionGone
    \/ listPage \/ listDone \/ listTopicsAsync \/ updateTagsAsync
Next == \/ User \/ onTick \/ Callbacks \/ widgetData \/ workerLoop \/ socketCloses
        \/ \E v \in Server : catalogRebuilt(v)
Spec == Init /\ [][Next]_vars

(******************************** Properties ******************************)
Phases == {"Disconnected", "VocabularyLoading", "VocabularyError", "EmptyCatalog",
           "NeedsSelection", "ListLoading", "ListError", "ListEmpty", "Rows"}
Quiet == cmds = <<>> /\ events = <<>> /\ work = None /\ turn = "idle"

\* The dialog's state has its shape: a phase of the gate, parallel row and
\* label vectors, a stable prefix within the rows, an active server unless
\* none was ever reached.
TypeOK ==
    /\ phase \in Phases /\ request \in Nat
    /\ {connected, connecting, closed, lost, loading, ascending} \subseteq BOOLEAN
    /\ server \in Server \cup {None} /\ backend \in Server \cup {None}
    /\ connected => server # None
    /\ Len(labels) = Len(rows) /\ prefix \in 0..Len(rows)
    /\ selected \subseteq File /\ failed \subseteq selected
    /\ view.visible \subseteq DOMAIN view.files
    /\ turn \in {"idle", "handling", "rendered"} /\ (turn = "idle" => batch = <<>>)

\* beginGateRequestLocked: no row or selected file of a former gate selection,
\* or of a former server, survives a gate change, and no late page or listing
\* of an older request brings one back.
SiteScoped ==
    /\ \A i \in DOMAIN rows : rows[i].srv = server
    /\ Complete(pick) =>
          /\ \A i \in DOMAIN rows : PathOf[rows[i].file] = pick
          /\ \A f \in selected : PathOf[f] = pick

\* onGatePageReady, reset: the rows on screen come from one catalog
\* generation, each once, although a sweep may start over on a new one.
OneSweep ==
    \A i, j \in DOMAIN rows :
        rows[i].gen = rows[j].gen /\ (i # j => rows[i].file # rows[j].file)

\* onGateListFinished: when everything has settled, "rows" means the complete
\* listing of the selection and "no recordings" a complete, empty one; and no
\* date span or pruned Source filter of before hides all the rows.
CompleteAtRest ==
    Quiet =>
      /\ phase = "Rows" =>
            /\ rows # <<>>
            /\ ToSet(rows) = ToSet(Listing(server, rows[1].gen, pick))
            /\ \E i \in DOMAIN rows : Passes(rows[i].file)
            /\ source = None => VisibleRows = DOMAIN rows
      /\ phase = "ListEmpty" =>
            rows = <<>> /\ \E g \in 1..generation[server] : Listing(server, g, pick) = <<>>

\* rebuildSeqDisplayLocked, appendSequencesLocked: the text of column 0 names
\* one row, since a click is resolved by it.
LabelsIdentify == \A i, j \in DOMAIN labels : labels[i] = labels[j] => i = j

\* widget_data: a view cache that counts as a hit shows the rows held, however
\* many appends it missed before it was extended.
ViewFaithful ==
    Hit => view.labels = labels /\ view.visible = VisibleRows

\* Once nothing is queued or running the panel is not still loading: every
\* request ended in an answer, a failure or a newer request, and every
\* selected file's topics were listed or failed.
NothingLeftLoading ==
    Quiet => phase \notin {"VocabularyLoading", "ListLoading"} /\ ~loading /\ ~connecting

\* onConnectFinished, onConnectionLost: at rest the phase says disconnected
\* exactly when the dialog is, and a connected dialog browses the server its
\* worker is connected to.
PhaseFollowsConnection ==
    Quiet => /\ connected <=> phase # "Disconnected"
             /\ connected => backend = server

\* updateTagsAsync: the list after a tag edit always has a gate selection to
\* stay within; the catalog is never fetched unfiltered.
NeverUngated ==
    cmds # <<>> /\ work = None /\ Head(cmds).op = "tags" /\ backend # None => lastGate # None

\* The gate scopes everything: rows and selection are of the chosen site on
\* this server, and the list after a tag edit stays within it.
GateScopes == TypeOK /\ SiteScoped /\ NeverUngated

\* A listing is whole: rows of one catalog generation while the sweep runs,
\* all of them when it has ended, none hidden by what was chosen before.
ListingWhole == OneSweep /\ CompleteAtRest

\* What the table shows is what the dialog holds, and a label finds its row.
TableFaithful == LabelsIdentify /\ ViewFaithful

\* The panel comes to rest in a state that is true of the connection.
SettlesDown == NothingLeftLoading /\ PhaseFollowsConnection
=============================================================================
