------------------------------ MODULE TopicPull ------------------------------
(***************************************************************************)
(* One interactive download of the toolbox: the dialog's fetch ledger, the *)
(* worker's pullTopicsAsync with the blocking calls of its session         *)
(* connection, the requested MCAP export, the cache tee and the cancels    *)
(* that race all of them.                                                  *)
(* Sources: mcap_cloud_dialog.cpp, fetch_summary.h, fetch_worker.cpp,      *)
(* parser_ingest_driver.cpp and backend_connection.cpp of the plugin.      *)
(*                                                                         *)
(* The worker runs in RUNTIME mode (an ImportRuntime is bound: the session *)
(* tees into the file cache and an export is a copy of it) or in LEGACY    *)
(* mode (the export has a writer of its own).  The tee is what a pull sees *)
(* of it; its locks and files are the subject of ArtifactCache, promotion  *)
(* and admission order of ImportJob, the frames of a session of            *)
(* SessionStream.  Every blocking wait of the code has a timeout, which    *)
(* the model lets expire at any moment; Faults bounds the other failures.  *)
(***************************************************************************)
EXTENDS Naturals, SequencesExt

CONSTANTS Topics,     \* the topics of the request
          Scenarios,  \* [runtime, save, fetches, cancels, faults]: the mode,
                      \* whether an export is asked for, and the bounds
          None

ASSUME PullConstants ==
    /\ IsFiniteSet(Topics) /\ Topics # {}
    /\ Scenarios \subseteq [runtime: BOOLEAN, save: BOOLEAN,
                            fetches: Nat, cancels: Nat, faults: Nat]

VARIABLES left,        \* the scenario, its bounds counted down
          active,      \* fetch_active
          cancelling,  \* the user (or a report) marked the batch cancelled
          tally,       \* fetch_done, fetch_failed, imported_any, save_failed
          summary,     \* what the last batch ended as in the dialog
          events,      \* worker callbacks queued for the GUI thread
          commands,    \* pulls posted to the worker
          pc,          \* where the worker is
          flag,        \* cancel_flag_
          signalling,  \* who has set the flag and is about to use the hooks
          hook,        \* backend_session_for_cancel_ is set
          teeHook,     \* tee_for_cancel_ is set
          sock,        \* the session connection: "none" before and after
          latched,     \* its cancel_requested_
          reply,       \* the answer to the request in flight
          tee,         \* "none", "begun" (locks held) or "open" (writing)
          aborted,     \* the tee's abort_requested_
          teeOutcome,  \* tee_outcome
          paths,       \* save_paths.has_value()
          writer,      \* the LEGACY export writer is open
          saved,       \* the export result emitted, or None
          partial,     \* the reserved .mcap.partial: "none", "reserved",
                       \* "writing" (no footer yet) or "readable"
          final,       \* the final .mcap exists
          dict,        \* topics in the session's dictionary
          heard,       \* of them, those a message came for
          undecodable, \* of them, those without a parser
          errs,        \* of them, those with a failed push
          progress,    \* host_progress_active
          eos,         \* stats.eos
          sampled,     \* cancelled_after_download
          finished,    \* progressFinish was called
          verdicts,    \* what was last reported of each topic
          cached,      \* the SessionCache entry of this selection, or None
          cause        \* somebody cancelled this batch

dialog == <<active, cancelling, tally, summary>>
cancel == <<flag, signalling, cause>>
hooks == <<hook, teeHook>>
conn == <<sock, latched, reply>>
teeVars == <<tee, aborted, teeOutcome>>
export == <<paths, writer, saved, partial, final>>
session == <<dict, heard, undecodable, errs, progress>>
outcome == <<eos, sampled, finished, verdicts, cached>>
vars == <<left, dialog, events, commands, pc, cancel, hooks, conn, teeVars,
          export, session, outcome>>

runtime == left.runtime
wanted == left.save

Saves == {"Complete", "Partial", "Failed", "FailedKept", "Skipped"}
Errors == {"none", "ok", "cancelled", "error", "no messages", "no parser", "partial import"}

(* A fault happens, within the scenario's bound.                           *)
Fault == left.faults > 0 /\ left' = [left EXCEPT !.faults = @ - 1]
Either(ok) == IF ok THEN UNCHANGED left ELSE Fault

(* The plugin has just started.                                            *)
Init ==
    /\ left \in Scenarios
    /\ active = FALSE /\ cancelling = FALSE /\ summary = "none"
    /\ tally = [done |-> 0, failed |-> 0, imported |-> FALSE, unsaved |-> FALSE]
    /\ events = <<>> /\ commands = 0 /\ pc = "idle"
    /\ flag = FALSE /\ signalling = {} /\ cause = FALSE
    /\ hook = FALSE /\ teeHook = FALSE
    /\ sock = "none" /\ latched = FALSE /\ reply = "none"
    /\ tee = "none" /\ aborted = FALSE /\ teeOutcome = "none"
    /\ paths = FALSE /\ writer = FALSE /\ saved = None
    /\ partial = "none" /\ final = FALSE
    /\ dict = {} /\ heard = {} /\ undecodable = {} /\ errs = {}
    /\ progress = FALSE /\ eos = "Unset" /\ sampled = FALSE /\ finished = FALSE
    /\ verdicts = [t \in Topics |-> "none"]
    /\ cached = None

-----------------------------------------------------------------------------
(* Cancelling.                                                             *)

(* Anyone who cancels first sets the flag ...                              *)
requestCancel(who) ==
    /\ flag' = TRUE /\ cause' = TRUE
    /\ signalling' = signalling \union {who}

(* ... and then, under cancel_mu_, wakes the connection and the tee.       *)
signalHooks(who) ==
    /\ who \in signalling
    /\ signalling' = signalling \ {who}
    /\ latched' = (latched \/ hook)
    /\ aborted' = (aborted \/ teeHook)
    /\ cancelling' = (cancelling \/ who = "user")
    /\ UNCHANGED <<left, active, tally, summary, events, commands, pc, flag,
                   cause, hooks, sock, reply, tee, teeOutcome, export,
                   session, outcome>>

(* The Cancel button, live during a fetch.                                 *)
buttonCancel ==
    /\ active /\ left.cancels > 0 /\ "user" \notin signalling
    /\ left' = [left EXCEPT !.cancels = @ - 1]
    /\ requestCancel("user")
    /\ UNCHANGED <<dialog, events, commands, pc, hooks, conn, teeVars, export,
                   session, outcome>>

(* The HostStopWatchdog sees the host's stop request during the download.  *)
hostStop ==
    /\ pc = "streaming" /\ progress /\ left.cancels > 0
    /\ "watchdog" \notin signalling
    /\ left' = [left EXCEPT !.cancels = @ - 1]
    /\ requestCancel("watchdog")
    /\ UNCHANGED <<dialog, events, commands, pc, hooks, conn, teeVars, export,
                   session, outcome>>

-----------------------------------------------------------------------------
(* The dialog.                                                             *)

(* Mutant of resetCancel: the flag of an earlier cancel stays up.          *)
resetNothing == UNCHANGED flag

resetCancel == flag' = FALSE

canFetch == ~active

(* The Download button, live when no fetch is.                             *)
buttonFetch ==
    /\ canFetch /\ left.fetches > 0 /\ "user" \notin signalling
    /\ left' = [left EXCEPT !.fetches = @ - 1]
    /\ active' = TRUE /\ cancelling' = FALSE
    /\ tally' = [done |-> 0, failed |-> 0, imported |-> FALSE, unsaved |-> FALSE]
    /\ resetCancel
    /\ cause' = FALSE
    /\ commands' = commands + 1
    /\ UNCHANGED <<summary, events, pc, signalling, hooks, conn, teeVars,
                   export, session, outcome>>

onPullFinished(e) ==
    /\ e.type = "finished"
    /\ IF e.error = "ok"
       THEN /\ tally' = [tally EXCEPT !.done = @ + 1, !.imported = TRUE]
            /\ UNCHANGED cancelling
       ELSE IF cancelling \/ e.error = "cancelled"
       THEN /\ tally' = [tally EXCEPT !.done = @ + 1]
            /\ cancelling' = TRUE
       ELSE /\ tally' = [tally EXCEPT !.done = @ + 1, !.failed = @ + 1]
            /\ UNCHANGED cancelling
    /\ UNCHANGED <<active, summary>>

(* Mutant of onMcapSaveFinished: a retained partial does not count.        *)
onMcapSaveFinishedLoosely(e) ==
    /\ e.type = "save"
    /\ tally' = [tally EXCEPT !.unsaved = e.status = "Failed"]
    /\ UNCHANGED <<active, cancelling, summary>>

onMcapSaveFinished(e) ==
    /\ e.type = "save"
    /\ tally' = [tally EXCEPT !.unsaved = e.status \notin {"Complete", "Skipped"}]
    /\ UNCHANGED <<active, cancelling, summary>>

buildFetchSummary ==
    IF cancelling THEN "cancelled"
    ELSE IF ~tally.imported THEN "failed"
    ELSE IF tally.unsaved THEN "imported" ELSE "imported, closing"

onAllFetchesComplete(e) ==
    /\ e.type = "all"
    /\ active' = FALSE /\ cancelling' = FALSE
    /\ summary' = buildFetchSummary
    /\ UNCHANGED tally

(* The GUI thread runs the next queued callback; it is not in buttonCancel *)
(* at that moment.                                                         *)
onTick ==
    /\ events # <<>> /\ "user" \notin signalling
    /\ LET e == Head(events) IN
         \/ onPullFinished(e)
         \/ onMcapSaveFinished(e)
         \/ onAllFetchesComplete(e)
    /\ events' = Tail(events)
    /\ UNCHANGED <<left, commands, pc, cancel, hooks, conn, teeVars, export,
                   session, outcome>>

-----------------------------------------------------------------------------
(* The worker: exits.                                                      *)

Same(error) == [t \in Topics |-> error]

Reports(v) ==
    [i \in 1..Cardinality(Topics) |->
        [type |-> "finished", error |-> v[SetToSeq(Topics)[i]]]]

SaveEvent(status) == <<[type |-> "save", status |-> status]>>

(* Mutant of Flush: an export that never started is not mentioned.         *)
FlushNothing == FALSE

(* finish_all owes the export's one result.                                *)
Flush == wanted /\ saved = None

(* Mutant of allFetchesComplete: a cancelled pull just returns.            *)
allUnlessCancelled == IF flag THEN <<>> ELSE <<[type |-> "all"]>>

allFetchesComplete == <<[type |-> "all"]>>

(* Report every topic and finish_all: an export that never started is      *)
(* Skipped and gives its reservation back, then the batch is complete.     *)
(* The locals of the pull end here.                                        *)
Exit(reports) ==
    /\ saved' = IF Flush THEN "Skipped" ELSE saved
    /\ partial' = IF Flush THEN "none" ELSE partial
    /\ events' = events \o reports
                        \o (IF Flush THEN SaveEvent("Skipped") ELSE <<>>)
                        \o allFetchesComplete
    /\ pc' = "unwind"
    /\ dict' = {} /\ heard' = {} /\ undecodable' = {} /\ errs' = {}
    /\ progress' = FALSE
    /\ UNCHANGED <<dialog, commands, cancel, hooks, paths, writer, final,
                   eos, sampled>>

(* An early bail-out: every topic has the same outcome.                    *)
bailOut(error) ==
    /\ Exit(Reports(Same(error)))
    /\ verdicts' = Same(error)
    /\ UNCHANGED <<conn, teeVars, finished, cached>>

(* emit_save_result of a failed export whose partial is discarded; nothing *)
(* when there is no reservation (its failure was reported).                *)
exportFailed ==
    /\ saved' = IF paths /\ saved = None THEN "Failed" ELSE saved
    /\ partial' = IF paths THEN "none" ELSE partial
    /\ events' = IF paths /\ saved = None THEN events \o SaveEvent("Failed")
                                          ELSE events

(* The stack unwinds: each cancel hook is retired before what it points to *)
(* is destroyed.                                                           *)
(* Mutant of unwind: the connection and the tee go first.                  *)
unwindBackwards ==
    \/ /\ pc = "unwind" /\ pc' = "unwind conn"
       /\ sock' = "none" /\ latched' = FALSE
       /\ UNCHANGED <<hooks, reply, tee, aborted>>
    \/ /\ pc = "unwind conn" /\ pc' = "idle"
       /\ hook' = FALSE /\ teeHook' = FALSE /\ tee' = "none" /\ aborted' = FALSE
       /\ UNCHANGED conn

unwind ==
    \/ /\ pc = "unwind" /\ pc' = "unwind conn"
       /\ hook' = FALSE
       /\ UNCHANGED <<teeHook, conn, tee, aborted>>
    \/ /\ pc = "unwind conn" /\ pc' = "unwind tee"
       /\ sock' = "none" /\ latched' = FALSE /\ reply' = "none"
       /\ teeHook' = FALSE
       /\ UNCHANGED <<hook, tee, aborted>>
    \/ /\ pc = "unwind tee" /\ pc' = "idle"
       /\ tee' = "none" /\ aborted' = FALSE
       /\ UNCHANGED <<hooks, conn>>

pullReturns ==
    /\ unwind
    /\ UNCHANGED <<left, dialog, events, commands, cancel, teeOutcome, export,
                   session, outcome>>

-----------------------------------------------------------------------------
(* The worker: before the network.                                         *)

(* pullTopicsAsync starts and reserves the names of the export.            *)
reservePaths ==
    /\ pc = "idle" /\ commands > 0
    /\ commands' = commands - 1
    /\ \E ok \in BOOLEAN :
         /\ wanted \/ ok
         /\ Either(ok)
         /\ paths' = (wanted /\ ok)
         /\ partial' = IF wanted /\ ok THEN "reserved" ELSE "none"
         /\ saved' = IF ok THEN None ELSE "Failed"
         /\ events' = IF ok THEN events ELSE events \o SaveEvent("Failed")
    /\ pc' = "checks"
    /\ writer' = FALSE /\ final' = FALSE
    /\ teeOutcome' = "none" /\ eos' = "Unset"
    /\ sampled' = FALSE /\ finished' = FALSE
    /\ verdicts' = Same("none")
    /\ UNCHANGED <<dialog, cancel, hooks, conn, tee, aborted, session, cached>>

(* No host or no server.                                                   *)
notBound == pc = "checks" /\ Fault /\ bailOut("error")

(* The entry can be served: in RUNTIME mode only over a valid cache file   *)
(* that was published for this very request.                               *)
Servable(diskValid) == ~runtime \/ (diskValid /\ cached.identity)

(* A LEGACY export needs the raw bytes, so it passes the cache by.         *)
usesMemory == runtime \/ ~paths

(* The lookup finds the entry, its dataset still in the host.              *)
memoryHit ==
    /\ pc = "checks" /\ usesMemory /\ cached # None
    /\ \E diskValid \in BOOLEAN : Servable(diskValid)
    /\ teeOutcome' = IF runtime THEN "existing" ELSE teeOutcome
    /\ verdicts' = Same("ok")
    /\ events' = events \o Reports(Same("ok"))
    /\ pc' = "serving"
    /\ UNCHANGED <<left, dialog, commands, cancel, hooks, conn, tee, aborted,
                   export, session, eos, sampled, finished, cached>>

(* There is no entry, its dataset is gone, or (evicted here) its file is.  *)
memoryMiss ==
    /\ pc = "checks"
    /\ cached' \in (IF usesMemory THEN {None} ELSE {cached})
    /\ pc' = IF runtime THEN "tee" ELSE "connection"
    /\ UNCHANGED <<left, dialog, events, commands, cancel, hooks, conn,
                   teeVars, export, session, eos, sampled, finished, verdicts>>

(* export_by_copy: copy into the reserved partial, rename to the final     *)
(* name; either may fail.                                                  *)
exportByCopy(ok) ==
    IF paths /\ ok
    THEN /\ saved' = "Complete" /\ partial' = "none" /\ final' = TRUE
         /\ events' = events \o SaveEvent("Complete")
    ELSE exportFailed /\ UNCHANGED final

serveExport ==
    /\ pc = "serving"
    /\ \E ok \in BOOLEAN : Either(ok) /\ exportByCopy(ok)
    /\ pc' = "served"
    /\ UNCHANGED <<dialog, commands, cancel, hooks, conn, teeVars, paths,
                   writer, session, outcome>>

serveEnds ==
    /\ pc = "served"
    /\ Exit(<<>>)
    /\ UNCHANGED <<left, conn, teeVars, finished, verdicts, cached>>

(* CacheTee::begin: without the tee the import goes on, but the export has *)
(* no encoder.                                                             *)
(* Mutant of teeBegin: the failed tee leaves the reservation behind.       *)
teeBeginLeaves(ok) ==
    IF ok THEN /\ tee' = "begun" /\ teeHook' = TRUE /\ aborted' = FALSE
               /\ UNCHANGED <<teeOutcome, saved, partial, events>>
          ELSE /\ teeOutcome' = "failed"
               /\ saved' = IF paths THEN "Failed" ELSE saved
               /\ events' = IF paths THEN events \o SaveEvent("Failed") ELSE events
               /\ UNCHANGED <<tee, teeHook, aborted, partial>>

teeBegin(ok) ==
    IF ok THEN /\ tee' = "begun" /\ teeHook' = TRUE /\ aborted' = FALSE
               /\ UNCHANGED <<teeOutcome, saved, partial, events>>
          ELSE /\ teeOutcome' = "failed" /\ exportFailed
               /\ UNCHANGED <<tee, teeHook, aborted>>

beginTee ==
    /\ pc = "tee" /\ pc' = "admission"
    /\ \E ok \in BOOLEAN : Either(ok) /\ teeBegin(ok)
    /\ UNCHANGED <<dialog, commands, cancel, hook, conn, paths, writer, final,
                   session, outcome>>

(* Admission comes when the pulls ahead are done; a queued pull polls the  *)
(* flag.                                                                   *)
admitted ==
    /\ pc = "admission" /\ pc' = "connection"
    /\ UNCHANGED <<left, dialog, events, commands, cancel, hooks, conn,
                   teeVars, export, session, outcome>>

admissionCancelled ==
    pc = "admission" /\ flag /\ UNCHANGED left /\ bailOut("cancelled")

-----------------------------------------------------------------------------
(* The worker: connect and open the session.                               *)

worker == <<dialog, commands, cancel, teeVars, export, session, outcome>>

(* A fresh connection, shown to requestCancel before anything blocks ...   *)
(* Mutant of publishSession: it is shown only after the flag was read.     *)
publishSessionLate ==
    \/ /\ pc = "connection" /\ ~flag /\ pc' = "published"
       /\ UNCHANGED <<hook, sock>>
    \/ /\ pc = "published" /\ hook' = TRUE /\ sock' = "connecting"
       /\ pc' = "opening"

publishSession ==
    \/ /\ pc = "connection" /\ pc' = "published"
       /\ hook' = TRUE /\ sock' = "new"
    \/ /\ pc = "published" /\ ~flag /\ pc' = "opening"
       /\ sock' = "connecting"
       /\ UNCHANGED hook

startConnection ==
    /\ publishSession
    /\ UNCHANGED <<left, worker, events, teeHook, latched, reply>>

(* ... so a cancel from before the hook is seen here.                      *)
earlyCancel ==
    pc = "published" /\ flag /\ UNCHANGED left /\ bailOut("cancelled")

(* The network: the socket opens or closes, the server answers.            *)
socketOpens ==
    /\ sock = "connecting" /\ pc = "opening"
    /\ sock' = "open"
    /\ UNCHANGED <<left, worker, events, pc, hooks, latched, reply>>

socketCloses ==
    /\ sock \in {"connecting", "open"} /\ pc \in {"opening", "hello", "session"}
    /\ Fault
    /\ sock' = "closed"
    /\ UNCHANGED <<worker, events, pc, hooks, latched, reply>>

replyArrives ==
    /\ pc \in {"hello", "session"} /\ sock = "open" /\ reply = "none"
    /\ \E ok \in BOOLEAN :
         /\ Either(ok)
         /\ reply' = IF ok THEN "good" ELSE "error"
    /\ UNCHANGED <<worker, events, pc, hooks, sock, latched>>

(* Mutant of cancelWakes: a request waits for its answer whatever happens. *)
cancelWakesNobody == FALSE

(* The wait predicates include the latched cancel.                         *)
cancelWakes == latched

(* buildAndOpenSocket returns: the socket is open or closed, the cancel    *)
(* woke it, or (TRUE) the request timeout passed.                          *)
openEnds(timeout) ==
    /\ pc = "opening"
    /\ sock # "connecting" \/ cancelWakes \/ timeout

(* sendAndWait returns; an answer that is there wins.                      *)
answerEnds(timeout) ==
    /\ pc \in {"hello", "session"}
    /\ reply # "none" \/ sock = "closed" \/ cancelWakes \/ timeout

handshake ==
    \/ /\ \E timeout \in BOOLEAN : openEnds(timeout)
       /\ sock = "open" /\ pc' = "hello"
    \/ /\ pc = "hello" /\ reply = "good" /\ pc' = "connected"

connectSucceeds ==
    /\ handshake
    /\ reply' = "none"
    /\ UNCHANGED <<left, worker, events, hooks, sock, latched>>

(* A cancel is the cause, not a symptom.                                   *)
connectError == IF flag THEN "cancelled" ELSE "error"

connectFails ==
    /\ \E timeout \in BOOLEAN :
         \/ openEnds(timeout) /\ sock # "open"
         \/ pc = "hello" /\ answerEnds(timeout) /\ reply # "good"
    /\ UNCHANGED left
    /\ bailOut(connectError)

(* A cancel during the handshake is honoured before a session is opened.   *)
cancelAfterConnect ==
    pc = "connected" /\ flag /\ UNCHANGED left /\ bailOut("cancelled")

sendOpenSession ==
    /\ pc = "connected" /\ ~flag /\ pc' = "session"
    /\ UNCHANGED <<left, worker, events, hooks, conn>>

(* openSessionFresh fails: no answer (cancelled or not), or an error one.  *)
openFails ==
    /\ pc = "session"
    /\ \E timeout \in BOOLEAN : answerEnds(timeout)
    /\ reply # "good"
    /\ UNCHANGED left
    /\ bailOut(IF reply = "none" /\ latched THEN "cancelled" ELSE "error")

(* The server's plan names the topics that have messages.                  *)
openSucceeds ==
    /\ pc = "session" /\ reply = "good"
    /\ dict' \in SUBSET Topics
    /\ reply' = "none"
    /\ pc' = "plan"
    /\ UNCHANGED <<left, dialog, events, commands, cancel, hooks, sock,
                   latched, teeVars, export, heard, undecodable, errs,
                   progress, outcome>>

emptyPlan ==
    pc = "plan" /\ dict = {} /\ UNCHANGED left /\ bailOut("no messages")

(* CacheTee::openWriter; a failure drops the tee and with it the export.   *)
openWriter ==
    /\ pc = "plan" /\ dict # {} /\ pc' = "dataset"
    /\ \E ok \in BOOLEAN :
         /\ tee = "begun" \/ ok
         /\ Either(ok)
         /\ IF ok
            THEN /\ tee' = IF tee = "begun" THEN "open" ELSE tee
                 /\ UNCHANGED <<teeHook, teeOutcome, saved, partial, events>>
            ELSE /\ tee' = "none" /\ teeHook' = FALSE
                 /\ teeOutcome' = "failed" /\ exportFailed
    /\ UNCHANGED <<dialog, commands, cancel, hook, conn, aborted, paths,
                   writer, final, session, outcome>>

(* No runtime host, or the host creates no dataset.                        *)
noDataset == pc = "dataset" /\ Fault /\ bailOut("error")

-----------------------------------------------------------------------------
(* The worker: download.                                                   *)

hasDecodable(skipped) == dict \ skipped # {}

NoDecoder(t) == IF t \in dict THEN "no parser" ELSE "no messages"

(* bindSession: a topic without a schema (or every topic, on a host        *)
(* without parser ingest) has no decoder.                                  *)
bindSession ==
    /\ pc = "dataset" /\ pc' = "bound"
    /\ undecodable' \in SUBSET dict
    /\ UNCHANGED <<left, dialog, events, commands, cancel, hooks, conn,
                   teeVars, export, dict, heard, errs, progress, outcome>>

(* Nothing can be decoded and there is no tee to fill.                     *)
noDecoder ==
    /\ pc = "bound" /\ ~hasDecodable(undecodable) /\ tee = "none"
    /\ LET v == [t \in Topics |-> NoDecoder(t)] IN
         Exit(Reports(v)) /\ verdicts' = v
    /\ UNCHANGED <<left, conn, teeVars, finished, cached>>

(* The LEGACY export writer opens, the host may take the progress surface  *)
(* and then has a watchdog.                                                *)
startDownload ==
    /\ pc = "bound"
    /\ hasDecodable(undecodable) \/ tee # "none"
    /\ pc' = "streaming"
    /\ progress' \in (IF hasDecodable(undecodable) THEN BOOLEAN ELSE {FALSE})
    /\ IF ~runtime /\ paths
       THEN \E ok \in BOOLEAN :
              /\ Either(ok)
              /\ writer' = ok
              /\ IF ok THEN partial' = "writing" /\ UNCHANGED <<saved, events>>
                       ELSE exportFailed
       ELSE UNCHANGED <<left, writer, partial, saved, events>>
    /\ UNCHANGED <<dialog, commands, cancel, hooks, conn, teeVars, paths,
                   final, dict, heard, undecodable, errs, outcome>>

(* The export or the tee loses its disk: it ends, the download does not.   *)
(* Mutant of diskFails: the tee is dropped with its hook still up.         *)
diskFailsHooked ==
    /\ writer \/ tee = "open"
    /\ writer' = FALSE
    /\ tee' = "none" /\ UNCHANGED teeHook
    /\ teeOutcome' = IF tee = "open" THEN "failed" ELSE teeOutcome
    /\ exportFailed

diskFails ==
    /\ writer \/ tee = "open"
    /\ writer' = FALSE
    /\ tee' = "none" /\ teeHook' = FALSE
    /\ teeOutcome' = IF tee = "open" THEN "failed" ELSE teeOutcome
    /\ exportFailed

(* The handler of a message: save it, then decode it.  The parser is bound *)
(* at a topic's first message; a topic whose binding fails is skipped from *)
(* then on.                                                                *)
deliver(t) ==
    /\ pc = "streaming" /\ t \in dict \ heard /\ ~flag
    /\ heard' = heard \union {t}
    /\ \/ UNCHANGED <<left, writer, tee, teeHook, teeOutcome, saved, partial,
                      events>>
       \/ Fault /\ diskFails
    /\ \/ UNCHANGED <<undecodable, errs>>
       \/ undecodable' = undecodable \union {t} /\ UNCHANGED errs
       \/ t \notin undecodable /\ errs' = errs \union {t} /\ UNCHANGED undecodable
    /\ UNCHANGED <<dialog, commands, pc, cancel, hook, conn, aborted, paths,
                   final, dict, progress, outcome>>

stop(reason) ==
    /\ eos' = reason /\ pc' = "stopping"
    /\ UNCHANGED <<dialog, events, commands, flag, signalling, hooks, conn,
                   teeVars, export, session, sampled, finished, verdicts,
                   cached>>

(* The handler sees the flag and stops the download.                       *)
handlerCancelled ==
    /\ pc = "streaming" /\ flag /\ heard # dict
    /\ stop("Cancelled")
    /\ UNCHANGED <<left, cause>>

(* The host refuses progress at a message: its user pressed stop.          *)
hostRefuses ==
    /\ pc = "streaming" /\ progress /\ heard # {} /\ left.cancels > 0
    /\ left' = [left EXCEPT !.cancels = @ - 1]
    /\ cause' = TRUE
    /\ stop("Cancelled")

(* downloadSessionResumable returns: the server finished, the cancel was   *)
(* answered, or no more frames come.                                       *)
downloadEnds ==
    /\ pc = "streaming"
    /\ \/ stop("Complete")
       \/ latched /\ stop("Cancelled")
       \/ ~latched /\ stop("Error")
    /\ UNCHANGED <<left, cause>>

-----------------------------------------------------------------------------
(* The worker: the terminal.                                               *)

(* The watchdog is joined; the flag is read once for every decision below. *)
sampleCancel ==
    /\ pc = "stopping" /\ "watchdog" \notin signalling
    /\ sampled' = flag /\ pc' = "export"
    /\ UNCHANGED <<left, dialog, events, commands, cancel, hooks, conn,
                   teeVars, export, session, eos, finished, verdicts, cached>>

(* Mutant of complete: a cancelled download is published all the same.     *)
completeAnyway == eos = "Complete"

complete == eos = "Complete" /\ ~sampled

(* finishCacheTee.  An aborted tee may have dropped queued records: it     *)
(* closes, but a finalize finds the count short.                           *)
finishCacheTee ==
    /\ pc = "export" /\ tee = "open" /\ pc' = "report"
    /\ \/ /\ Fault
          /\ teeOutcome' = "failed" /\ exportFailed /\ UNCHANGED final
       \/ /\ complete /\ aborted /\ heard # {} /\ UNCHANGED left
          /\ teeOutcome' = "failed" /\ exportFailed /\ UNCHANGED final
       \/ /\ complete
          /\ teeOutcome' = "finalized"
          /\ \E ok \in BOOLEAN : Either(ok) /\ exportByCopy(ok)
       \/ /\ ~complete
          /\ teeOutcome' = "aborted"
          /\ UNCHANGED final
          /\ \/ Fault /\ exportFailed
             \/ /\ UNCHANGED left
                /\ partial' = IF paths THEN "readable" ELSE partial
                /\ saved' = IF paths THEN "Partial" ELSE saved
                /\ events' = IF paths THEN events \o SaveEvent("Partial")
                                      ELSE events
    /\ tee' = "none" /\ teeHook' = FALSE
    /\ UNCHANGED <<dialog, commands, cancel, hook, conn, aborted, paths,
                   writer, session, outcome>>

(* The LEGACY export: close the writer, then rename or keep the partial.   *)
(* A file that cannot be renamed stays under its partial name.             *)
finishExport ==
    /\ pc = "export" /\ writer /\ pc' = "report"
    /\ writer' = FALSE
    /\ \/ Fault /\ exportFailed /\ UNCHANGED final
       \/ /\ complete
          /\ \E ok \in BOOLEAN :
               /\ Either(ok)
               /\ saved' = IF ok THEN "Complete" ELSE "FailedKept"
               /\ partial' = IF ok THEN "none" ELSE "readable"
               /\ final' = ok
          /\ events' = events \o SaveEvent(saved')
       \/ /\ ~complete /\ UNCHANGED <<left, final>>
          /\ saved' = "Partial" /\ partial' = "readable"
          /\ events' = events \o SaveEvent("Partial")
    /\ UNCHANGED <<dialog, commands, cancel, hooks, conn, teeVars, paths,
                   session, outcome>>

noExport ==
    /\ pc = "export" /\ tee # "open" /\ ~writer /\ pc' = "report"
    /\ UNCHANGED <<left, worker, events, hooks, conn>>

(* Mutant of wasCancelled: the flag is read again after the export.        *)
wasCancelledNow == eos = "Cancelled" \/ flag

wasCancelled == eos = "Cancelled" \/ sampled

(* What is reported of a topic: the batch's outcome wins.                  *)
Verdict(t) ==
    IF wasCancelled THEN "cancelled"
    ELSE IF t \notin dict THEN "no messages"
    ELSE IF t \in undecodable THEN "no parser"
    ELSE IF eos = "Error" THEN "error"
    ELSE IF t \in errs THEN "partial import" ELSE "ok"

(* Only a clean COMPLETE download is remembered.                           *)
stores ==
    /\ eos = "Complete" /\ ~wasCancelled
    /\ errs = {} /\ hasDecodable(undecodable)

(* The entry, bound to the cache file when the tee published one; lost are *)
(* the topics of which messages came and no row was made.                  *)
Entry == [identity |-> teeOutcome = "finalized",
          lost |-> heard \intersect undecodable]

reportTopics ==
    /\ pc = "report"
    /\ finished' = (progress /\ complete)
    /\ verdicts' = [t \in Topics |-> Verdict(t)]
    /\ Exit(Reports(verdicts'))
    /\ cached' = IF stores THEN Entry ELSE cached
    /\ UNCHANGED <<left, conn, teeVars>>

-----------------------------------------------------------------------------

Worker ==
    \/ reservePaths \/ notBound \/ memoryHit \/ memoryMiss \/ serveExport
    \/ serveEnds \/ beginTee \/ admitted \/ admissionCancelled
    \/ startConnection \/ earlyCancel \/ connectSucceeds \/ connectFails
    \/ cancelAfterConnect \/ sendOpenSession \/ openFails \/ openSucceeds
    \/ emptyPlan \/ openWriter \/ noDataset \/ bindSession \/ noDecoder
    \/ startDownload \/ handlerCancelled \/ downloadEnds \/ sampleCancel
    \/ finishCacheTee \/ finishExport \/ noExport \/ reportTopics
    \/ pullReturns

Next ==
    \/ Worker
    \/ \E t \in Topics : deliver(t)
    \/ socketOpens \/ socketCloses \/ replyArrives
    \/ hostStop \/ hostRefuses
    \/ buttonFetch \/ buttonCancel
    \/ signalHooks("user") \/ signalHooks("watchdog")
    \/ onTick

(* The worker thread, the GUI tick and a canceller that has begun go on.   *)
Fairness ==
    /\ WF_vars(Worker)
    /\ WF_vars(onTick)
    /\ WF_vars(signalHooks("user")) /\ WF_vars(signalHooks("watchdog"))

Spec == Init /\ [][Next]_vars /\ Fairness

-----------------------------------------------------------------------------
(* Properties.                                                             *)

(* The state has its types; the bounds are never exceeded.                 *)
TypeOK ==
    /\ left \in [runtime: BOOLEAN, save: BOOLEAN,
                 fetches: Nat, cancels: Nat, faults: Nat]
    /\ {active, cancelling, flag, cause, hook, teeHook, latched, aborted, paths,
        writer, final, progress, sampled, finished} \subseteq BOOLEAN
    /\ tally \in [done: 0..Cardinality(Topics), failed: 0..Cardinality(Topics),
                  imported: BOOLEAN, unsaved: BOOLEAN]
    /\ summary \in {"none", "cancelled", "failed", "imported", "imported, closing"}
    /\ commands \in 0..1
    /\ signalling \subseteq {"user", "watchdog"}
    /\ sock \in {"none", "new", "connecting", "open", "closed"}
    /\ reply \in {"none", "good", "error"}
    /\ tee \in {"none", "begun", "open"}
    /\ teeOutcome \in {"none", "existing", "failed", "finalized", "aborted"}
    /\ saved \in Saves \union {None}
    /\ partial \in {"none", "reserved", "writing", "readable"}
    /\ undecodable \subseteq dict /\ errs \subseteq heard /\ heard \subseteq dict
    /\ dict \subseteq Topics
    /\ eos \in {"Unset", "Complete", "Cancelled", "Error"}
    /\ verdicts \in [Topics -> Errors]

(* The pull has posted its last callback.                                  *)
ended == pc \in {"unwind", "unwind conn", "unwind tee", "idle"}
pulled == ended /\ \E t \in Topics : verdicts[t] # "none"

(* mcapSaveFinished: exactly one result for a pull that was asked for an   *)
(* export and none for one that was not, on every exit path, and never     *)
(* after allFetchesComplete, so the dialog knows it when it decides        *)
(* whether to close.                                                       *)
SaveResultOnce ==
    /\ pulled => (wanted <=> saved # None)
    /\ Cardinality({i \in DOMAIN events : events[i].type = "save"}) <= 1
    /\ \A i, j \in DOMAIN events :
         events[i].type = "all" /\ events[j].type = "save" => j < i

(* What lies on the disk when a pull ends is what its one result says: a   *)
(* final file exactly for Complete, a partial exactly for Partial or for a *)
(* file that could not be renamed, and then one with a footer; no exit     *)
(* leaves a reservation behind (discard_partial).                          *)
ExportTruthful ==
    pulled => /\ final <=> saved = "Complete"
              /\ partial = IF saved \in {"Partial", "FailedKept"}
                           THEN "readable" ELSE "none"

(* One pull is not complete on one surface and cancelled on another: the   *)
(* export, the host's progress, the cache entry and the topics' reports    *)
(* agree, whenever a cancel arrives (the single sample of cancel_flag_).   *)
OneVerdict ==
    pulled /\ (\E t \in Topics : verdicts[t] = "cancelled")
    => /\ verdicts = Same("cancelled")
       /\ saved # "Complete" /\ ~finished /\ teeOutcome # "finalized"

(* A batch is called cancelled only if somebody cancelled it: the user or  *)
(* the host during this very batch, never a cancel of an earlier one that  *)
(* its flag or its connection carried over.                                *)
CancelHasCause ==
    pulled /\ (commands = 0) /\ (\E t \in Topics : verdicts[t] = "cancelled")
    /\ active => cause

(* Once a cancel has run its course, no wait of the pull lasts until its   *)
(* timeout: the connection it blocks on is latched, or the wait polls the  *)
(* flag, or the flag is read before the next wait.                         *)
CancelReaches ==
    (flag /\ signalling = {} /\ commands = 0
     /\ pc \in {"opening", "hello", "session", "streaming"}) => latched /\ cancelWakes

(* requestCancel never touches an object that is gone: a published hook    *)
(* points to a connection or a tee that exists (cancel_mu_, the scope      *)
(* guards' order, teeEnqueueFailed).                                       *)
HooksAlive == (hook => sock # "none") /\ (teeHook => tee # "none")

(* The dialog's ledger when no fetch is active: every requested topic was  *)
(* counted once, and the panel closes by itself only after a batch of      *)
(* which something was imported and every requested export is whole.       *)
LedgerBalanced ==
    (~active /\ summary # "none") =>
        /\ tally.done = Cardinality(Topics)
        /\ summary = "imported, closing" =>
             /\ tally.imported /\ ~tally.unsaved
             /\ pc = "idle" /\ wanted => saved \in {"Complete", "Skipped"}

(* A started download ends and gives the dialog back, whatever fails and   *)
(* whoever cancels (finish_all on every exit path).                        *)
FetchEnds == active ~> ~active

(* What the dialog is told: one export result, in time, and one report of  *)
(* every topic, from which its ledger decides whether to close.            *)
DialogInformed == SaveResultOnce /\ LedgerBalanced

(* What a pull leaves behind is of one piece: the file on the disk is the  *)
(* one the export result names, and no surface contradicts another.        *)
VerdictTruthful == ExportTruthful /\ OneVerdict

(* requestCancel ends the batch it was meant for and no other, wherever    *)
(* the worker waits, and touches only objects that exist.                  *)
CancelSound == TypeOK /\ CancelHasCause /\ CancelReaches /\ HooksAlive
=============================================================================
