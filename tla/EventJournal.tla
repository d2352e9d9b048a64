---------------------------- MODULE EventJournal ----------------------------
(***************************************************************************)
(* How the events of one host become the journal of the run, and what a    *)
(* resumed run makes of it.  Every event of the play reaches the           *)
(* application twice: as a line of the playbook's output, parsed by the    *)
(* controller thread, and as a line of lb_events.jsonl, which the callback *)
(* plugin appends and the tailer thread parses.  Both threads dedupe,      *)
(* update the journal in memory and rewrite its file, without a lock; the  *)
(* controller thread backfills it from the results and the UI thread       *)
(* closes the run.  The process may die at any point.  A line reaches a    *)
(* reader whole: an event is far shorter than the buffer it is written     *)
(* with.                                                                   *)
(***************************************************************************)
EXTENDS Naturals, Sequences, FiniteSets

CONSTANTS
  Reps,       \* repetitions of the workload on the host
  LogTexts,   \* the messages its log events carry
  LogLines,   \* bound: log events a repetition may write
  Window,     \* how many events _EventDedupe remembers
  Runs        \* bound: the first run and its resumptions

ASSUME BoundsAssumption ==
  /\ Reps \in Nat \ {0} /\ LogLines \in Nat /\ Window \in Nat \ {0} /\ Runs \in Nat \ {0}

Rep == 1 .. Reps
Statuses == {"pending", "running", "completed", "failed", "skipped"}

\* The fields of a RunEvent that tell events apart.
Event(r, s, type, msg) == [rep |-> r, status |-> s, type |-> type, msg |-> msg]
Says(r, s, msg) == Event(r, s, "status", msg)
LogEvent(r, text) == Event(r, "running", "log", text)

Readers == {"controller", "tailer"}
Savers == Readers \cup {"ui"}
Torn == [r \in Rep |-> "torn"]
Nothing == [r \in Rep |-> "nothing"]

VARIABLES
  play,       \* the run playbook: its next step
  due, out,   \* repetitions it still has to run, lines of the current runner
  ending,     \* how that runner ends
  lines,      \* what each reader has not read yet
  hand,       \* the event a reader has in hand, and its next step
  recent, known,  \* _EventDedupe.recent_events, recent_set
  memory,     \* RunJournal.tasks
  disk,       \* run_journal.json
  doc,        \* what a saver has serialised and not written yet
  crossed,    \* savers over whose open file another one has written
  results,    \* the entries of <workload>_results.json
  main,       \* the controller thread, then the UI thread
  stopped,    \* the stop token
  run,        \* which run this is
  written, applied,         \* history: events of this run, those applied
  ended, proven             \* history: the last word on each repetition, those said done

playSide == <<play, due, out, ending>>
dedupe == <<recent, known>>
file == <<disk, doc, crossed>>
history == <<written, applied, ended, proven>>
vars == <<playSide, lines, hand, dedupe, memory, file, results, main, stopped, run, history>>

Idle == [step |-> "idle", event |-> <<>>]
Hand(step, e) == [step |-> step, event |-> <<e>>]
Held(p) == hand[p].event[1]

Init ==
  /\ play = "next" /\ due = Rep /\ out = <<>> /\ ending = "none"
  /\ lines = [p \in Readers |-> <<>>] /\ hand = [p \in Readers |-> Idle]
  /\ recent = <<>> /\ known = {}
  /\ memory = [r \in Rep |-> "pending"] /\ disk = memory
  /\ doc = [p \in Savers |-> Nothing] /\ crossed = {}
  /\ results = [r \in Rep |-> "none"]
  /\ main = "playing" /\ stopped = FALSE /\ run = 1
  /\ written = {} /\ applied = {} /\ ended = [r \in Rep |-> "none"] /\ proven = {}

Up == main # "down"

-----------------------------------------------------------------------------
(* The play: what the role and the runner say, and where it arrives *)

Current == CHOOSE r \in due : \A k \in due : r <= k

\* make_progress_handler makes the event of an output line without its type.
Parsed(e) == [e EXCEPT !.type = "status"]

Untyped(seq) == [i \in DOMAIN seq |-> Parsed(seq[i])]

\* What is said of the repetition: its last status, and whether it was done.
Heard(seq) ==
  /\ written' = written \cup {seq[i] : i \in DOMAIN seq}
  /\ ended' = [ended EXCEPT ![Current] = seq[Len(seq)].status]
  /\ proven' = IF \E i \in DOMAIN seq : seq[i].status = "done"
               THEN proven \cup {Current} ELSE proven

\* A debug task prints its event and hands it to the callback plugin.
Debug(e) ==
  /\ lines' = [controller |-> Append(lines.controller, Parsed(e)),
               tailer |-> Append(lines.tailer, e)]
  /\ Heard(<<e>>)

Logs(r) == UNION {[1 .. n -> {LogEvent(r, text) : text \in LogTexts}] : n \in 0 .. LogLines}

\* What LocalRunner and async_localrunner print: the log lines come before the
\* outcome; a runner that crashes says nothing more.
Outputs(r, s) ==
  {<<Says(r, "running", "")>> \o logs \o
     (CASE s = "crash" -> <<>>
        [] s = "done" -> <<Says(r, "done", ""), Says(r, "done", "duration")>>
        [] OTHER -> <<Says(r, s, ""), Says(r, "failed", "duration")>>) : logs \in Logs(r)}

StartRep ==
  /\ Up /\ play = "next" /\ due # {}
  /\ \E s \in {"done", "failed", "stopped", "crash"} : \E o \in Outputs(Current, s) :
       out' = o /\ ending' = s
  /\ play' = "poll" /\ Debug(Says(Current, "running", ""))
  /\ UNCHANGED <<due, hand, dedupe, memory, file, results, main, stopped, run, applied>>

\* Poll LB_EVENT stream, Emit captured events: the plugin finds the first event
\* in the output of the poll and then every event in the loop that prints them.
Poll ==
  /\ Up /\ play = "poll" /\ out # <<>>
  /\ \E n \in 1 .. Len(out) :
       LET batch == SubSeq(out, 1, n)
       IN /\ lines' = [controller |-> lines.controller \o Untyped(batch),
                       tailer |-> lines.tailer \o <<batch[1]>> \o batch]
          /\ Heard(batch)
          /\ out' = SubSeq(out, n + 1, Len(out))
  /\ UNCHANGED <<play, due, ending, hand, dedupe, memory, file, results, main, stopped, run,
                 applied>>

\* What the runner leaves in <workload>_results.json.
Entries == CASE ending = "done" -> {"none", "clean"} [] ending = "failed" -> {"none", "error"}
             [] OTHER -> {"none"}

\* The judgement of the role, which collects the results either way; it goes on to
\* the next repetition only if the runner's last word was done.
Judge ==
  /\ Up /\ play = "poll"
  /\ \E entry \in Entries :
       results' = [results EXCEPT ![Current] = IF entry = "none" THEN @ ELSE entry]
  /\ \/ /\ ended[Current] = "done" /\ Debug(Says(Current, "done", ""))
        /\ due' = due \ {Current} /\ play' = "next"
     \/ /\ Debug(Says(Current, "failed", "stderr"))
        /\ play' = "over" /\ due' = {}
  /\ UNCHANGED <<out, ending, hand, dedupe, memory, file, main, stopped, run, applied>>

PlayOver ==
  /\ Up /\ play = "next" /\ due = {} /\ play' = "over"
  /\ UNCHANGED <<due, out, ending, lines, hand, dedupe, memory, file, results, main, stopped,
                 run, history>>

\* The stop kills the playbook wherever it is.
KillPlay ==
  /\ main = "playing" /\ stopped /\ play # "over" /\ play' = "over"
  /\ UNCHANGED <<due, out, ending, lines, hand, dedupe, memory, file, results, main, stopped,
                 run, history>>

-----------------------------------------------------------------------------
(* The file: save() opens it, which empties it, then writes *)

Open(p, tasks) ==
  /\ doc' = [doc EXCEPT ![p] = tasks]
  /\ disk' = Torn /\ crossed' = crossed \ {p}

\* A document written over another may leave the end of the other behind it.
Close(p) ==
  /\ disk' \in IF p \in crossed THEN {doc[p], Torn} ELSE {doc[p]}
  /\ doc' = [doc EXCEPT ![p] = Nothing]
  /\ crossed' = (crossed \cup {q \in Savers : doc[q] # Nothing}) \ {p}

-----------------------------------------------------------------------------
(* The stop: arming the state machine saves the journal on the UI thread *)

Stop ==
  /\ main = "playing" /\ ~stopped /\ stopped' = TRUE /\ Open("ui", memory)
  /\ UNCHANGED <<playSide, lines, hand, dedupe, memory, results, main, run, history>>

StopSaved ==
  /\ Up /\ main # "closing" /\ doc["ui"] # Nothing /\ Close("ui")
  /\ UNCHANGED <<playSide, lines, hand, dedupe, memory, results, main, stopped, run, history>>

-----------------------------------------------------------------------------
(* The readers: ingest_event *)

Listening(p) == Up /\ (p = "controller" => main = "playing")

\* Bug: the message is not part of the key.
CheckWithoutMessage(p) ==
  /\ Listening(p) /\ hand[p] = Idle /\ lines[p] # <<>>
  /\ lines' = [lines EXCEPT ![p] = Tail(@)]
  /\ LET e == Head(lines[p])
         same == \E k \in known : [k EXCEPT !.msg = e.msg] = e
     IN hand' = [hand EXCEPT ![p] = IF same THEN Idle ELSE Hand("record", e)]
  /\ UNCHANGED <<playSide, dedupe, memory, file, results, main, stopped, run, history>>

\* record: is the key known?
Check(p) ==
  /\ Listening(p) /\ hand[p] = Idle /\ lines[p] # <<>>
  /\ lines' = [lines EXCEPT ![p] = Tail(@)]
  /\ LET e == Head(lines[p])
     IN hand' = [hand EXCEPT ![p] = IF e \in known THEN Idle ELSE Hand("record", e)]
  /\ UNCHANGED <<playSide, dedupe, memory, file, results, main, stopped, run, history>>

\* record: remember it, forget the oldest.
Record(p) ==
  /\ Listening(p) /\ hand[p].step = "record"
  /\ hand' = [hand EXCEPT ![p] = Hand("apply", Held(p))]
  /\ LET queue == Append(recent, Held(p))
     IN IF Len(queue) > Window
        THEN /\ recent' = Tail(queue)
             /\ known' = (known \cup {Held(p)}) \ {Head(queue)}
        ELSE recent' = queue /\ known' = known \cup {Held(p)}
  /\ UNCHANGED <<playSide, lines, memory, file, results, main, stopped, run, history>>

\* Bug: a stopped repetition is journalled as done.
MappedStopped(s) ==
  CASE s \in {"done", "stopped"} -> "completed" [] s = "failed" -> "failed" [] OTHER -> "running"

Mapped(s) ==
  CASE s = "done" -> "completed"
    [] s = "failed" -> "failed"
    [] s \in {"skipped", "stopped"} -> "skipped"
    [] OTHER -> "running"

\* LogSink.emit: the task and the start of the save.
Apply(p) ==
  /\ Listening(p) /\ hand[p].step = "apply"
  /\ LET e == Held(p)
     IN /\ memory' = [memory EXCEPT ![e.rep] = Mapped(e.status)]
        /\ applied' = applied \cup {e}
        /\ hand' = [hand EXCEPT ![p] = Hand("save", e)]
  /\ Open(p, memory')
  /\ UNCHANGED <<playSide, lines, dedupe, results, main, stopped, run, written, ended, proven>>

Saved(p) ==
  /\ Listening(p) /\ hand[p].step = "save"
  /\ hand' = [hand EXCEPT ![p] = Idle] /\ Close(p)
  /\ UNCHANGED <<playSide, lines, dedupe, memory, results, main, stopped, run, history>>

Reader(p) == Check(p) \/ Record(p) \/ Apply(p) \/ Saved(p)

-----------------------------------------------------------------------------
(* After the play *)

\* The playbook has exited; output nobody has read by then is not read.
LeavePlay ==
  /\ main = "playing" /\ play = "over" /\ hand["controller"] = Idle
  /\ main' = "backfill" /\ lines' = [lines EXCEPT !["controller"] = <<>>]
  /\ UNCHANGED <<playSide, hand, dedupe, memory, file, results, stopped, run, history>>

\* _update_task_status
Backfilled(r) ==
  CASE results[r] = "error" -> "failed"
    [] results[r] = "clean" /\ memory[r] \notin {"failed", "skipped"} -> "completed"
    [] OTHER -> memory[r]

Backfill ==
  /\ main = "backfill" /\ main' = "backfilled"
  /\ memory' = [r \in Rep |-> Backfilled(r)]
  /\ IF \E r \in Rep : results[r] # "none"
     THEN Open("controller", memory') ELSE UNCHANGED file
  /\ UNCHANGED <<playSide, lines, hand, dedupe, results, stopped, run, history>>

BackfillSaved ==
  /\ main = "backfilled" /\ main' = "teardown"
  /\ IF doc["controller"] # Nothing THEN Close("controller") ELSE UNCHANGED file
  /\ UNCHANGED <<playSide, lines, hand, dedupe, memory, results, stopped, run, history>>

\* The moves of the state machine to its final state save the journal too: the last.
FinalState ==
  /\ main = "teardown" /\ main' = "final" /\ Open("controller", memory)
  /\ UNCHANGED <<playSide, lines, hand, dedupe, memory, results, stopped, run, history>>

FinalStateSaved ==
  /\ main = "final" /\ main' = "ui" /\ Close("controller")
  /\ UNCHANGED <<playSide, lines, hand, dedupe, memory, results, stopped, run, history>>

\* _handle_run_completion: on a stop the tasks still running are failed and saved;
\* otherwise the journal is saved if there is system info to attach.
Complete ==
  /\ main = "ui" /\ main' = "closing" /\ doc["ui"] = Nothing
  /\ memory' = [r \in Rep |-> IF stopped /\ memory[r] = "running" THEN "failed" ELSE memory[r]]
  /\ Open("ui", memory') \/ (~stopped /\ UNCHANGED file)
  /\ UNCHANGED <<playSide, lines, hand, dedupe, results, stopped, run, history>>

Completed ==
  /\ main = "closing" /\ main' = "closed"
  /\ IF doc["ui"] # Nothing THEN Close("ui") ELSE UNCHANGED file
  /\ UNCHANGED <<playSide, lines, hand, dedupe, memory, results, stopped, run, history>>

\* The process ends, or dies: the file as it is and the results remain.
Down ==
  /\ Up /\ main' = "down"
  /\ play' = "over" /\ due' = {} /\ out' = <<>> /\ ending' = "none"
  /\ hand' = [p \in Readers |-> Idle] /\ lines' = [p \in Readers |-> <<>>]
  /\ recent' = <<>> /\ known' = {} /\ memory' = [r \in Rep |-> "pending"]
  /\ doc' = [p \in Savers |-> Nothing] /\ crossed' = {} /\ stopped' = FALSE
  /\ written' = {} /\ applied' = {} /\ ended' = [r \in Rep |-> "none"]
  /\ UNCHANGED <<disk, results, run, proven>>

\* load_resume_journal: a file that cannot be parsed ends the resumption; what
\* is not completed is due.
Resume ==
  /\ main = "down" /\ run < Runs /\ disk # Torn
  /\ memory' = disk /\ due' = {r \in Rep : disk[r] # "completed"}
  /\ due' # {}
  /\ main' = "playing" /\ play' = "next" /\ run' = run + 1
  /\ UNCHANGED <<out, ending, lines, hand, dedupe, file, results, stopped, history>>

Halted ==
  /\ main = "down" /\ (run = Runs \/ disk = Torn \/ \A r \in Rep : disk[r] = "completed")
  /\ UNCHANGED vars

Next ==
  \/ StartRep \/ Poll \/ Judge \/ PlayOver \/ Stop \/ StopSaved \/ KillPlay
  \/ \E p \in Readers : Reader(p)
  \/ LeavePlay \/ Backfill \/ BackfillSaved \/ FinalState \/ FinalStateSaved \/ Complete \/ Completed
  \/ Down \/ Resume \/ Halted

Spec == Init /\ [][Next]_vars

-----------------------------------------------------------------------------
(* Properties *)

TypeOK ==
  /\ play \in {"next", "poll", "over"} /\ due \subseteq Rep /\ stopped \in BOOLEAN
  /\ ending \in {"none", "done", "failed", "stopped", "crash"}
  /\ \A p \in Readers : hand[p] = Idle \/ hand[p].step \in {"record", "apply", "save"}
  /\ Len(recent) <= Window /\ known \subseteq {recent[i] : i \in DOMAIN recent}
  /\ memory \in [Rep -> Statuses] /\ disk \in [Rep -> Statuses] \cup {Torn}
  /\ main \in {"playing", "backfill", "backfilled", "teardown", "final", "ui", "closing",
              "closed", "down"}
  /\ results \in [Rep -> {"none", "clean", "error"}] /\ run \in 1 .. Runs

\* A repetition the journal calls completed, in memory or in the file, was said to
\* be done or left a clean result: resume, which repeats all but the completed ones
\* (should_run), never skips one that did not get that far.
CompletedHasEvidence ==
  \A r \in Rep : memory[r] = "completed" \/ disk[r] = "completed" =>
    r \in proven \/ results[r] = "clean"

AllRead == Up /\ lines["tailer"] = <<>> /\ \A p \in Readers : hand[p] = Idle

\* Whichever reader comes first and however they overlap, once the tailer has read
\* everything each event has been applied at least once: the dedupe never leaves an
\* event to a reader that has dropped it (_EventDedupe.record, make_ingest_event).
NothingDropped == AllRead => written \subseteq applied

\* LogSink promises to mirror the events to the journal and _EventDedupe to avoid
\* duplicates: once the play is over, unstopped, and both readers have read everything, a
\* repetition whose last word was done is completed (LogSink, _EventDedupe,
\* make_progress_handler).
DoneMirrored ==
  AllRead /\ lines["controller"] = <<>> /\ play = "over" /\ main = "playing" /\ ~stopped =>
    \A r \in Rep : ended[r] = "done" => memory[r] = "completed"
=============================================================================
