-------------------------- MODULE GeneratorAttempt --------------------------
(***************************************************************************)
(* One LocalRunner process after the other on a host, each with one        *)
(* repetition: RepetitionExecutor in the main thread, the worker thread of *)
(* the generator with the child processes it starts, and the collectors.   *)
(* The worker is not a daemon and is only waited for so long: it may       *)
(* outlive the attempt, and then the interpreter as well, while the next   *)
(* repetition is already measured.                                         *)
(*                                                                         *)
(* A generator is one of the shapes the plugins have: how many commands it *)
(* starts, when it starts another, and what its stop touches.              *)
(***************************************************************************)
EXTENDS Naturals, FiniteSets

CONSTANTS
  Generators,  \* the shapes of generator that are tried, a subset of Shapes
  Collectors,  \* the metric collectors of a repetition
  Reps,        \* repetitions of the workload
  Launches     \* bound: LocalRunner processes started, one after the other

Shapes == {"command", "hpl", "stream", "geekbench", "yabs", "phoronix", "baseline", "faas"}

ASSUME GeneratorsAssumption == Generators \subseteq Shapes
ASSUME CollectorsAssumption == IsFiniteSet(Collectors)
ASSUME RepsAssumption == Reps \in Nat \ {0} /\ Launches \in Nat \ {0}

Runs == {1, 2}            \* the commands a generator starts at most
Entry == {"none", "ok", "failed"}
Entries == [1 .. Reps -> Entry]
Unread == <<>>           \* nothing is cached yet

VARIABLES
  plugin,                \* the shape of the generator
  launched, rep,         \* processes so far, the repetition of this one
  stop,                  \* the STOP file
  pc, back,              \* the main thread; where generator.stop() returns to
  held,                  \* proc in _stop_workload: the command it was read from
  verdict,               \* what execute() has come to
  collecting, sampling,  \* collectors with _is_running, and with a live thread
  faulty,                \* a collector has recorded an error
  handler,               \* the LBEventLogHandler is attached
  worker, run,           \* the worker thread, the command it is at
  running, process,      \* _is_running and _process of the generator
  flawed,                \* a compiler of STREAM has failed
  result,                \* _result: nothing, success or failure
  child,                 \* the child process of each command
  merged,                \* _merged_results of the ResultPersister
  results,               \* <workload>_results.json: what it holds of each repetition
  emitted, final,        \* last event of LocalRunner, of async_localrunner
  settled,               \* history: the worker had ended when its result was read
  unstopped              \* history: stop() raised in the cleanup

mainSide == <<pc, back, held, verdict>>
metrics == <<collecting, sampling, faulty, handler>>
generator == <<worker, run, running, process, flawed, result, child>>
disk == <<merged, results>>
reports == <<emitted, final>>
launchSide == <<plugin, launched, rep>>
history == <<settled, unstopped>>
vars == <<launchSide, stop, mainSide, metrics, generator, disk, reports, history>>

Points == {"begin", "ready", "prepare", "collectors", "start", "wait", "clean", "halt", "reap",
           "join", "quiet", "close", "result", "repfile", "merge", "replace", "report",
           "flush", "rewrite", "status", "exit", "dead"}
Over == {"exit", "dead"}
\* The points after metric_session.close().
Closed == {"result", "repfile", "merge", "replace", "report", "flush", "rewrite", "status", "exit"}
WorkerPoints == {"idle", "fetch", "spawn", "wait", "expired", "parse", "next", "leave", "ended"}
Verdicts == {"none", "stopped", "error", "raised", "ok", "failed"}

TypeOK ==
  /\ plugin \in Generators /\ launched \in 1 .. Launches /\ rep \in 1 .. Reps
  /\ stop \in BOOLEAN /\ pc \in Points /\ back \in {"clean", "quiet"}
  /\ held \in {0} \cup Runs /\ verdict \in Verdicts
  /\ collecting \subseteq Collectors /\ collecting \subseteq sampling
  /\ sampling \subseteq Collectors /\ faulty \in BOOLEAN /\ handler \in BOOLEAN
  /\ worker \in WorkerPoints /\ run \in Runs /\ running \in BOOLEAN
  /\ process \in {0} \cup Runs /\ flawed \in BOOLEAN /\ result \in Entry
  /\ child \in [Runs -> {"none", "up", "ok", "failed"}]
  /\ process # 0 => child[process] # "none"
  /\ merged \in {Unread} \cup Entries /\ results \in Entries
  /\ emitted \in {"none", "running", "stopped", "done", "failed"}
  /\ final \in {"none", "done", "failed"}
  /\ settled \in BOOLEAN /\ unstopped \in BOOLEAN

Init ==
  /\ plugin \in Generators /\ launched = 1 /\ rep = 1 /\ stop = FALSE
  /\ pc = "begin" /\ back = "quiet" /\ held = 0 /\ verdict = "none"
  /\ collecting = {} /\ sampling = {} /\ faulty = FALSE /\ handler = FALSE
  /\ worker = "idle" /\ run = 1 /\ running = FALSE /\ process = 0
  /\ flawed = FALSE /\ result = "none" /\ child = [k \in Runs |-> "none"]
  /\ merged = Unread /\ results = [r \in 1 .. Reps |-> "none"]
  /\ emitted = "none" /\ final = "none"
  /\ settled = FALSE /\ unstopped = FALSE

WorkerAlive == worker \notin {"idle", "ended"}

-----------------------------------------------------------------------------
(* The worker thread *)

\* Generators that download before they run anything, with a subprocess.run
\* that no stop reaches.
Fetching == {"geekbench", "yabs"}
\* _stop_workload of these also drops the reference the worker reads next.
Dropping == {"hpl", "stream", "geekbench"}
\* _stop_workload of these catches what its signals raise.
Catching == {"geekbench", "phoronix"}
\* No child process: an event to wait for, or a sweep that stop() does not end.
Childless == {"baseline", "faas"}

outsideWorker == <<launchSide, stop, mainSide, metrics, disk, reports, history>>

Fetch ==
  /\ worker = "fetch"
  /\ \/ worker' = "spawn" /\ UNCHANGED result
     \/ worker' = "leave" /\ result' = "failed"
  /\ UNCHANGED <<run, running, process, flawed, child>> /\ UNCHANGED outsideWorker

\* Popen, which may raise; STREAM may fail to compile before it.
Spawn ==
  /\ worker = "spawn" /\ plugin \notin Childless
  /\ \/ /\ child' = [child EXCEPT ![run] = "up"] /\ process' = run
        /\ worker' = "wait" /\ UNCHANGED <<result, flawed>>
     \/ /\ child' = [child EXCEPT ![run] = "failed"] /\ result' = "failed"
        /\ flawed' = (flawed \/ plugin = "stream")
        /\ worker' = (IF plugin \in {"stream", "geekbench"} THEN "next" ELSE "leave")
        /\ UNCHANGED process
  /\ UNCHANGED <<run, running>> /\ UNCHANGED outsideWorker

ChildExits(k) ==
  /\ child[k] = "up"
  /\ \E s \in {"ok", "failed"} : child' = [child EXCEPT ![k] = s]
  /\ UNCHANGED <<worker, run, running, process, flawed, result>> /\ UNCHANGED outsideWorker

\* Bug: a process that is not there any more has not failed.
CommunicateOrGone ==
  /\ worker = "wait" /\ child[run] # "up" /\ plugin \notin {"stream", "phoronix"}
  /\ result' = (IF process = 0 THEN "ok" ELSE child[run])
  /\ worker' = "parse" /\ process' = 0
  /\ UNCHANGED <<run, running, flawed, child>> /\ UNCHANGED outsideWorker

\* communicate() returns, then self._process.returncode is read: it raises when
\* a stop has dropped the process meanwhile.
Communicate ==
  /\ worker = "wait" /\ child[run] # "up" /\ plugin \notin {"stream", "phoronix"}
  /\ result' = (IF process = 0 THEN "failed" ELSE child[run])
  /\ worker' = (IF process = 0 /\ plugin # "geekbench" THEN "leave" ELSE "parse")
  /\ process' = 0
  /\ UNCHANGED <<run, running, flawed, child>> /\ UNCHANGED outsideWorker

\* STREAM keeps what each compiler's binary came to until the last is done.
CompilerDone ==
  /\ worker = "wait" /\ child[run] # "up" /\ plugin = "stream"
  /\ flawed' = (flawed \/ process = 0 \/ child[run] = "failed")
  /\ worker' = "next" /\ process' = 0
  /\ UNCHANGED <<run, running, result, child>> /\ UNCHANGED outsideWorker

\* Phoronix reads its process through a local name, and its output may say it
\* failed when its exit code does not.
PtsDone ==
  /\ worker = "wait" /\ child[run] # "up" /\ plugin = "phoronix"
  /\ result' \in {child[run], "failed"} /\ worker' = "leave" /\ process' = 0
  /\ UNCHANGED <<run, running, flawed, child>> /\ UNCHANGED outsideWorker

\* communicate() times out (Phoronix: its deadline, at the next line).
Expire ==
  /\ worker = "wait" /\ child[run] = "up" /\ worker' = "expired"
  /\ result' = (IF plugin = "stream" THEN result ELSE "failed")
  /\ UNCHANGED <<run, running, process, flawed, child>> /\ UNCHANGED outsideWorker

\* ... and the worker ends the command itself, if it can; STREAM says so and does
\* not.
EndExpired ==
  /\ worker = "expired"
  /\ \/ UNCHANGED child
     \/ /\ plugin # "stream" /\ process = run /\ child[run] = "up"
        /\ \E s \in {"ok", "failed"} : child' = [child EXCEPT ![run] = s]
  /\ process' = 0 /\ flawed' = (flawed \/ plugin = "stream")
  /\ worker' = (IF plugin \in {"stream", "geekbench"} THEN "next" ELSE "leave")
  /\ UNCHANGED <<run, running, result>> /\ UNCHANGED outsideWorker

\* _after_run and the result parser find something wrong, or do not.
ParseResult ==
  /\ worker = "parse" /\ worker' = "next"
  /\ result' \in {result, "failed"}
  /\ UNCHANGED <<run, running, process, flawed, child>> /\ UNCHANGED outsideWorker

\* The next compiler, if this one did not fail or may be missing.
NextCompiler == plugin = "stream" /\ run = 1
\* A run that failed, or left no export, is repeated without the export flag:
\* nothing asks whether it was stopped.
GeekbenchRetries == plugin = "geekbench" /\ run = 1
\* A run that exited with a usage error is repeated without -c.
YabsRetries == plugin = "yabs" /\ run = 1 /\ child[run] = "failed"

GoOn ==
  /\ worker = "next" /\ (NextCompiler \/ GeekbenchRetries \/ YabsRetries)
  /\ run' = 2 /\ worker' = "spawn"
  /\ UNCHANGED <<running, process, flawed, result, child>> /\ UNCHANGED outsideWorker

RunsOver ==
  /\ worker = "next" /\ worker' = "leave"
  /\ result' = (IF plugin # "stream" THEN result ELSE IF flawed THEN "failed" ELSE "ok")
  /\ UNCHANGED <<run, running, process, flawed, child>> /\ UNCHANGED outsideWorker

\* The sleep of baseline, which its stop cuts short.
BaselineRun ==
  /\ worker = "spawn" /\ plugin = "baseline" /\ worker' = "leave" /\ result' = "ok"
  /\ UNCHANGED <<run, running, process, flawed, child>> /\ UNCHANGED outsideWorker

\* A sweep of dfaas or peva_faas: its stop does nothing, or ends one k6 run.
SweepRun ==
  /\ worker = "spawn" /\ plugin = "faas" /\ worker' = "leave" /\ result' \in {"ok", "failed"}
  /\ UNCHANGED <<run, running, process, flawed, child>> /\ UNCHANGED outsideWorker

\* _run_worker: whatever happened, the flag is cleared.
WorkerLeaves ==
  /\ worker = "leave" /\ worker' = "ended" /\ running' = FALSE
  /\ UNCHANGED <<run, process, flawed, result, child>> /\ UNCHANGED outsideWorker

Worker == Fetch \/ Spawn \/ Communicate \/ CompilerDone \/ PtsDone \/ Expire \/ EndExpired
            \/ ParseResult \/ GoOn \/ RunsOver \/ BaselineRun \/ SweepRun \/ WorkerLeaves

-----------------------------------------------------------------------------
(* The main thread: LocalRunner and RepetitionExecutor *)

GoTo(point) == pc' = point
besideMain == <<launchSide, stop, history>>

RequestStop ==
  /\ ~stop /\ pc \notin Over /\ stop' = TRUE
  /\ UNCHANGED <<launchSide, mainSide, metrics, generator, disk, reports, history>>

\* _run_single_repetition: a stop is reported at once, a generator that cannot
\* be made raises or is recorded as a failure.
Begin ==
  /\ pc = "begin"
  /\ \/ /\ stop /\ GoTo("flush") /\ verdict' = "stopped" /\ emitted' = "stopped"
     \/ /\ ~stop /\ GoTo("ready") /\ emitted' = "running" /\ UNCHANGED verdict
     \/ /\ ~stop
        /\ \/ pc' \in {"flush", "status"} /\ verdict' = "raised"
           \/ GoTo("repfile") /\ verdict' = "error"
        /\ UNCHANGED emitted
  /\ UNCHANGED <<back, held, final, metrics, generator, disk>> /\ UNCHANGED besideMain

\* begin_repetition, pre_test_cleanup and the first look at the token.
Ready ==
  /\ pc = "ready" /\ handler' = TRUE
  /\ IF stop THEN GoTo("clean") /\ verdict' = "stopped"
             ELSE GoTo("prepare") /\ UNCHANGED verdict
  /\ UNCHANGED <<back, held, collecting, sampling, faulty, generator, disk, reports>>
  /\ UNCHANGED besideMain

\* prepare() runs to its end; the warmup after it looks at the token.
Prepare ==
  /\ pc = "prepare"
  /\ \/ GoTo("collectors") /\ UNCHANGED verdict
     \/ stop /\ GoTo("clean") /\ verdict' = "stopped"
     \/ GoTo("clean") /\ verdict' = "error"
  /\ UNCHANGED <<back, held, metrics, generator, disk, reports>> /\ UNCHANGED besideMain

\* Every collector is started; if one cannot, the attempt fails.
StartCollectors ==
  /\ pc = "collectors"
  /\ \E up \in SUBSET Collectors :
       /\ collecting' = up /\ sampling' = up
       /\ IF up = Collectors THEN GoTo("start") /\ UNCHANGED verdict
                             ELSE GoTo("clean") /\ verdict' = "error"
  /\ UNCHANGED <<back, held, faulty, handler, generator, disk, reports>> /\ UNCHANGED besideMain

StartGenerator ==
  /\ pc = "start"
  /\ \/ /\ GoTo("wait") /\ running' = TRUE /\ UNCHANGED verdict
        /\ worker' = (IF plugin \in Fetching THEN "fetch" ELSE "spawn")
     \/ /\ GoTo("clean") /\ verdict' = "error" /\ UNCHANGED <<running, worker>>
  /\ UNCHANGED <<back, held, run, process, flawed, result, child, metrics, disk, reports>>
  /\ UNCHANGED besideMain

\* Bug: only the flag ends the wait.
WaitForFlag ==
  /\ pc = "wait"
  /\ \/ stop /\ GoTo("clean") /\ verdict' = "stopped" /\ UNCHANGED back
     \/ ~stop /\ ~running /\ GoTo("clean") /\ UNCHANGED <<verdict, back>>
  /\ UNCHANGED <<held, metrics, generator, disk, reports>> /\ UNCHANGED besideMain

\* wait_for_generator: the token, the flag, and the time that is up.
Wait ==
  /\ pc = "wait"
  /\ \/ stop /\ GoTo("clean") /\ verdict' = "stopped" /\ UNCHANGED back
     \/ ~stop /\ ~running /\ GoTo("clean") /\ UNCHANGED <<verdict, back>>
     \/ running /\ GoTo("halt") /\ back' = "clean" /\ UNCHANGED verdict
  /\ UNCHANGED <<held, metrics, generator, disk, reports>> /\ UNCHANGED besideMain

\* Bug: an attempt that is stopped has nothing to clean up.
CleanUnlessStopped ==
  /\ pc = "clean" /\ GoTo(IF verdict = "stopped" THEN "close" ELSE "halt") /\ back' = "quiet"
  /\ UNCHANGED <<held, verdict, metrics, generator, disk, reports>> /\ UNCHANGED besideMain

\* _cleanup_after_run, on the way out of execute() and of any exception.
Clean ==
  /\ pc = "clean" /\ GoTo("halt") /\ back' = "quiet"
  /\ UNCHANGED <<held, verdict, metrics, generator, disk, reports>> /\ UNCHANGED besideMain

\* stop(): _stop_workload reads the process, if the generator seems to run.
Halt ==
  /\ pc = "halt"
  /\ IF running THEN GoTo("reap") /\ held' = process ELSE GoTo("join") /\ UNCHANGED held
  /\ UNCHANGED <<back, verdict, metrics, generator, disk, reports>> /\ UNCHANGED besideMain

\* The command that is told to end, if it has not.
HeldIsUp == held # 0 /\ child[held] = "up"

\* ... terminates it, then kills it, and clears the flag.  The command may take
\* the signal for a reason to exit well, and is still there when the signal
\* could not be sent and nobody was told.
Reap ==
  /\ pc = "reap" /\ GoTo("join") /\ held' = 0 /\ running' = FALSE
  /\ \/ ~HeldIsUp /\ UNCHANGED child
     \/ HeldIsUp /\ \E s \in {"ok", "failed"} : child' = [child EXCEPT ![held] = s]
     \/ HeldIsUp /\ plugin \in Catching /\ UNCHANGED child
  /\ process' = (IF plugin \in Dropping THEN 0 ELSE process)
  /\ UNCHANGED <<back, verdict, worker, run, flawed, result, metrics, disk, reports>>
  /\ UNCHANGED besideMain

\* ... or the signal, or the wait after it, raises: the wait for the generator
\* is an error then, the cleanup logs it and goes on to the collectors.
ReapRaises ==
  /\ pc = "reap" /\ plugin \notin Catching /\ (HeldIsUp \/ plugin = "faas")
  /\ held' = 0
  /\ \/ back = "clean" /\ GoTo("clean") /\ verdict' = "error" /\ UNCHANGED unstopped
     \/ back = "quiet" /\ GoTo("quiet") /\ unstopped' = TRUE /\ UNCHANGED verdict
  /\ UNCHANGED <<launchSide, stop, back, metrics, generator, disk, reports, settled>>

\* ... and waits five seconds for the worker, which may not be enough.
Join ==
  /\ pc = "join" /\ GoTo(back)
  /\ UNCHANGED <<back, held, verdict, metrics, generator, disk, reports>> /\ UNCHANGED besideMain

\* Bug: the threads are waited for, their flags are left set.
StopCollectorsUnflagged ==
  /\ pc = "quiet" /\ GoTo("close") /\ sampling' = {}
  /\ UNCHANGED <<back, held, verdict, collecting, faulty, handler, generator, disk, reports>>
  /\ UNCHANGED besideMain

\* The collectors are told to stop and waited for two intervals.
StopCollectors ==
  /\ pc = "quiet" /\ GoTo("close") /\ collecting' = {}
  /\ sampling' \in SUBSET collecting
  /\ UNCHANGED <<back, held, verdict, faulty, handler, generator, disk, reports>>
  /\ UNCHANGED besideMain

\* The event logger is detached; what comes next depends on how execute() ends.
Close ==
  /\ pc = "close" /\ handler' = FALSE
  /\ GoTo(CASE verdict = "stopped" -> "report" [] verdict = "error" -> "repfile" [] OTHER -> "result")
  /\ UNCHANGED <<back, held, verdict, collecting, sampling, faulty, generator, disk, reports>>
  /\ UNCHANGED besideMain

\* is_generator_success: no result at all is a success too.
Succeeded == result # "failed"

\* build_rep_result reads what there is of a result, collect_metrics what the
\* collectors recorded: an error of theirs fails the repetition.
BuildResult ==
  /\ pc = "result" /\ GoTo("repfile")
  /\ verdict' = (IF Succeeded /\ ~faulty THEN "ok" ELSE "failed")
  /\ settled' = ~WorkerAlive
  /\ UNCHANGED <<launchSide, stop, back, held, metrics, generator, disk, reports, unstopped>>

\* persist_rep_result: result.json, which nothing here reads again.  A write
\* that fails is a failure of the repetition, or is given up on when that is
\* what it records.
PersistRep ==
  /\ pc = "repfile"
  /\ \/ GoTo("merge") /\ UNCHANGED verdict
     \/ verdict # "error" /\ verdict' = "error" /\ UNCHANGED pc
     \/ verdict = "error" /\ GoTo("report") /\ UNCHANGED verdict
  /\ UNCHANGED <<back, held, disk, metrics, generator, reports>> /\ UNCHANGED besideMain

\* process_results: the entry replaces that of the repetition in what was read
\* from the file, and the whole is written beside it.
Cached == IF merged = Unread THEN results ELSE merged

\* Bug: what the file says of the repetition wins over what is new.
MergeKeepsOld ==
  /\ pc = "merge" /\ GoTo("replace")
  /\ merged' = [Cached EXCEPT ![rep] = IF @ # "none" THEN @ ELSE IF verdict = "ok" THEN "ok" ELSE "failed"]
  /\ UNCHANGED <<back, held, verdict, results, metrics, generator, reports>>
  /\ UNCHANGED besideMain

\* Bug: the file is written in place; it is empty before it is whole.
MergeInPlace ==
  /\ pc = "merge"
  /\ merged' = [Cached EXCEPT ![rep] = IF verdict = "ok" THEN "ok" ELSE "failed"]
  /\ results' = [r \in 1 .. Reps |-> "none"]
  /\ GoTo("replace")
  /\ UNCHANGED <<back, held, verdict, metrics, generator, reports>>
  /\ UNCHANGED besideMain

Merge ==
  /\ pc = "merge"
  /\ merged' = [Cached EXCEPT ![rep] = IF verdict = "ok" THEN "ok" ELSE "failed"]
  /\ \/ GoTo("replace") /\ UNCHANGED verdict
     \/ /\ IF verdict = "error" THEN GoTo("report") /\ UNCHANGED verdict
                                ELSE GoTo("flush") /\ verdict' = "raised"
  /\ UNCHANGED <<back, held, results, metrics, generator, reports>>
  /\ UNCHANGED besideMain

Replace ==
  /\ pc = "replace" /\ GoTo("report") /\ results' = merged
  /\ UNCHANGED <<back, held, verdict, merged, metrics, generator, reports>>
  /\ UNCHANGED besideMain

\* The outcome of run_attempt becomes the event of the repetition.
Report ==
  /\ pc = "report" /\ GoTo("flush")
  /\ emitted' = (CASE verdict = "ok" -> "done" [] verdict = "stopped" -> "stopped"
                   [] OTHER -> "failed")
  /\ UNCHANGED <<back, held, verdict, final, metrics, generator, disk>> /\ UNCHANGED besideMain

\* _finalize_workload_results: what is merged so far is written once more and
\* exported, also when the repetition raised.
Flush ==
  /\ pc = "flush"
  /\ \/ /\ \A r \in 1 .. Reps : Cached[r] = "none"
        /\ GoTo("status") /\ UNCHANGED <<verdict, merged>>
     \/ /\ \E r \in 1 .. Reps : Cached[r] # "none"
        /\ merged' = Cached
        /\ \/ GoTo("rewrite") /\ UNCHANGED verdict
           \/ GoTo("status") /\ verdict' = "raised"
  /\ UNCHANGED <<back, held, results, metrics, generator, reports>>
  /\ UNCHANGED besideMain

Rewrite ==
  /\ pc = "rewrite" /\ GoTo("status") /\ results' = merged /\ merged' = Unread
  /\ UNCHANGED <<back, held, verdict, metrics, generator, reports>>
  /\ UNCHANGED besideMain

\* async_localrunner: its own event, the status file, and the end of main.
Status ==
  /\ pc = "status" /\ GoTo("exit")
  /\ final' = (IF verdict = "ok" THEN "done" ELSE "failed")
  /\ UNCHANGED <<back, held, verdict, emitted, metrics, generator, disk>> /\ UNCHANGED besideMain

Main == Begin \/ Ready \/ Prepare \/ StartCollectors \/ StartGenerator \/ Wait \/ Clean \/ Halt
          \/ Reap \/ ReapRaises \/ Join \/ StopCollectors \/ Close \/ BuildResult \/ PersistRep \/ Merge
          \/ Replace \/ Report \/ Flush \/ Rewrite \/ Status

-----------------------------------------------------------------------------
(* The rest of the host *)

\* A sample fails; a collector told to stop may still be at its last one.
SampleFails ==
  /\ sampling # {} /\ ~faulty /\ faulty' = TRUE
  /\ UNCHANGED <<launchSide, stop, mainSide, collecting, sampling, handler, generator, disk,
                 reports, history>>

LastSample(c) ==
  /\ c \in sampling \ collecting /\ sampling' = sampling \ {c}
  /\ UNCHANGED <<launchSide, stop, mainSide, collecting, faulty, handler, generator, disk,
                 reports, history>>

\* What a new process knows, and a dead one.
Forgotten ==
  /\ back' = "quiet" /\ held' = 0 /\ verdict' = "none"
  /\ collecting' = {} /\ sampling' = {} /\ faulty' = FALSE /\ handler' = FALSE
  /\ worker' = "idle" /\ run' = 1 /\ running' = FALSE /\ process' = 0
  /\ flawed' = FALSE /\ result' = "none" /\ merged' = Unread
  /\ settled' = FALSE /\ unstopped' = FALSE

\* The process is killed: its memory and its threads are gone, its commands are
\* not.
Die ==
  /\ pc \notin Over /\ pc' = "dead"
  /\ Forgotten
  /\ UNCHANGED <<launchSide, stop, child, results, reports>>

\* The role launches the runner of the next repetition, or of one to be done
\* again, once this one has written its status or is gone.
Launch ==
  /\ pc \in Over /\ launched < Launches
  /\ launched' = launched + 1 /\ UNCHANGED plugin
  /\ \E r \in 1 .. Reps :
       rep' = r /\ stop' = FALSE /\ pc' = "begin"
  /\ Forgotten /\ child' = [k \in Runs |-> "none"]
  /\ emitted' = "none" /\ final' = "none"
  /\ UNCHANGED results

Rest == Launch \/ Die \/ RequestStop \/ SampleFails
          \/ \E c \in Collectors : LastSample(c)
          \/ \E k \in Runs : ChildExits(k)

Finished == pc \in Over /\ launched = Launches /\ UNCHANGED vars

Next == Main \/ Worker \/ Rest \/ Finished

Spec == Init /\ [][Next]_vars

\* The main thread is scheduled and none of its waits is without a limit:
\* nothing is asked of the worker, of its commands or of the collectors.
FairSpec == Spec /\ WF_vars(Main)

-----------------------------------------------------------------------------
(* Properties *)

\* Once execute() has left its try statement, whichever way, nothing measures:
\* no collector is meant to go on, the log handler is detached, and the
\* generator has been told to stop, unless its stop() raised (executor.py,
\* _cleanup_after_run).
QuietAfterAttempt == pc \in Closed => collecting = {} /\ ~handler /\ (running => unstopped)

\* A repetition is only called done when the commands it stands for exited
\* well, unless the worker was still at work when its result was read: neither
\* a command that a signal ended, nor a timeout, a process reference dropped
\* between two lines of the worker or a failed sample can leave a "done".  (A
\* command that takes the signal and exits with 0 has exited well.)
MeantRuns == IF plugin = "stream" THEN {k \in Runs : child[k] # "none"} ELSE {run}
DoneMeansSuccess ==
  emitted = "done" /\ settled /\ plugin \notin Childless
    => ~flawed /\ \A k \in MeantRuns : child[k] = "ok"

\* What async_localrunner calls done is in the results file as a success,
\* however many writes failed on the way.
DoneIsPersisted == final = "done" => results[rep] = "ok"

\* No crash, stop or failed write of one repetition takes the result of
\* another out of the file.
OthersKept == [][\A r \in 1 .. Reps : r # rep => results'[r] = results[r]]_vars

\* Every runner comes to an end by itself, even when its workload hangs and no
\* stop comes (the waits of wait_for_generator and of both joins are bounded).
RunnerEnds == pc \notin Over ~> pc \in Over
=============================================================================
