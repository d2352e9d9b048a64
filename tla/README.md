# Verification of the Linux Benchmark Library

TLA+ models of the parts of `linux-benchmark-lib` in which a benchmark run can go
wrong: the client that provisions nodes and handles Ctrl-C, the controller that
drives Ansible playbooks and may be stopped at any moment, the role and the
detached runner it polls on a host, the attempt of a repetition inside that runner,
the sweeps of the serverless plugins, the journal that two threads write and a
resumed run trusts, the shipping of logs, and the window that starts and stops runs.
TLC checks the models on small instances; TLAPS proves, for every value of the
constants, the type correctness of every component, every invariant and action
property that the runs check, and that the controller implements what it promises
its client. Liveness is model-checked.

Paths below are those of the repository; `file.py:12` is a line of it.

- [The system](#the-system)
- [Modules](#modules)
- [ControllerRun](#controllerrun), [RepetitionPolling](#repetitionpolling), [EventJournal](#eventjournal), [GeneratorAttempt](#generatorattempt), [RunSession](#runsession), [FaasSweep](#faassweep), [LokiQueue](#lokiqueue), [GuiWindow](#guiwindow)
- [Runs](#runs), [Where code and documents disagree](#where-code-and-documents-disagree), [Seeded faults](#seeded-faults)
- [Fairness](#fairness)
- [Proofs](#proofs)
- [Plan](#plan)
- [Running the checks](#running-the-checks)

## The system

A client (`lb_app/client.py`) provisions nodes, runs benchmarks on them and
destroys or keeps them. A run is driven by one controller process on the user's
machine:

| part | state it keeps | operations | talks to |
|---|---|---|---|
| state machine `lb_controller/models/state.py`, `engine/session.py` | the controller's state, under a lock | `transition`, `arm_stop` | moved by the controller thread and the UI thread |
| orchestration `services/run_orchestrator.py`, `services/workload_runner.py`, `adapters/playbooks.py` | phases, `RunFlags`, the workload it is at | setup, per workload setup/run/collect/teardown, global teardown, summary | executor, journal, stop token, coordinator |
| worker thread `adapters/remote_runner.py` | result or exception, an event | `start`, `wait`, `arm_stop` | runs the orchestration, is waited for by the UI thread |
| stop token `lb_runner/engine/stop_token.py` | flag, stop file | `request_stop`, `should_stop` | read by every loop, announces from whichever thread reads it |
| stop protocol `engine/stop_logic.py`, `engine/stops.py` | the coordinator's state, hosts that confirmed, a clock | STOP playbook, wait loop, `process_event`, `check_timeout` | executor, event pipeline |
| executor `adapters/ansible_runner.py`, `ansible_helpers.py` | the active process, the interrupt flag | run a playbook, stream its output, kill it | `ansible-playbook` |
| role `ansible/roles/workload_runner` | facts of the play, poll offset and start time on the host | per repetition: clean, launch, poll, judge, collect | files shared with the runner |
| runner on the host `lb_runner/services/async_localrunner.py`, `lb_runner/engine` | pid, stream, status files, its own stop token | daemonise, run the attempt, print events | role, by files only |
| event pipeline `lb_app/services/run_pipeline.py`, `run_events.py`, callback plugin `lb_events.py` | dedupe window, file position | parse output lines, tail `lb_events.jsonl`, ingest | journal, coordinator, dashboard |
| journal `lb_controller/services/journal.py`, `journal_sync.py`, resume `lb_app/services/run_journal.py` | a status per host, workload, repetition, in memory and in `run_journal.json` | update, save, backfill, load, `should_run` | written by three threads |
| Ctrl-C `engine/interrupts.py`, `lb_app/services/execution_loop.py` | armed / stopping, a timer, a queue | first and second press, timer, drain | `arm_stop` of the worker thread |
| generators and collectors `lb_plugins/base_generator.py`, `lb_runner/engine/execution.py`, `metric_collectors` | a worker thread and process, result, running flag | start, stop, wait, collect | inside the runner on the host |
| log shipping `lb_common/logs/handlers` | a bounded queue, pending batch | emit, push with retries, drain at close | Loki |
| client and provisioners `lb_app/client.py`, `lb_provisioner` | nodes with their keys, whether they may go | provision, roll back, destroy or keep, resume by name | docker, multipass, the run |
| sweep of dfaas and peva_faas `lb_plugins/plugins/dfaas`, `peva_faas` | plan, index, overloaded configurations; `index.csv` and a database on the host | skip, cool down, run k6, index, export | k6, Prometheus; earlier processes, by files |
| window `lb_gui/windows/main_window.py`, `workers/run_worker.py`, `services/run_orchestrator.py`, `views`, `viewmodels` | the worker, held by window and orchestrator; busy, message boxes; the configuration and the selection, each in several places | start, stop, close, hear the end; load, refresh, select | the client in a QThread, by signals and the stop file |
| connectivity, catalog, configuration, other plugins, analytics, CLI/TUI | configuration, files | | external tools, the user |

What makes each part hard, and what makes it correct:

- *Controller.* A stop may come from Ctrl-C (UI thread) or a stop file (any
  thread), between any two steps. Each phase looks for it at its own place.
  Correct: no repetition starts after the stop protocol has begun, a verdict that
  was given is kept, a run that was asked to stop is not called finished, after a
  stop protocol nodes are only destroyed when every host has confirmed, and the
  thread that waits is always woken. A confirmation is a line of a log, not the end
  of a runner (`v_stop`), and a stop that is first seen outside the loop over
  workloads asks nobody: nodes may then be destroyed over abandoned runners.
- *Hosts.* Killing a playbook leaves the runners it launched alive. Their
  confirmations travel through a log that the killed playbook was feeding.
- *Role and runner.* They share files, not a protocol: the stream may end in half a
  line, the status comes after the event, a pid may be of a process that never
  came to work, an abandoned runner of an earlier play writes the same files.
  Correct: nothing complete is skipped, a dead runner is noticed, a failed
  repetition ends the play, done means done.
- *Journal.* Each event arrives twice, by two threads, in two orders; memory and
  file are changed without a lock; the process may die in the middle. Correct: no
  event is lost between the two readers, and what is called completed, which a
  resumed run will skip, has been done.
- *Attempt.* The worker thread of a generator, its commands and the collectors are
  stopped by a main thread that waits for each only so long; a stop drops the
  process the worker is about to read. Correct: nothing measures after an
  attempt, done stands for commands that exited well, and is in the results file.
- *Session.* A Ctrl-C may come in any line of the client, a timer thread takes its
  warning back, nodes fail half way. Correct: nodes are not destroyed under a run, a
  failed provisioning is rolled back, a confirmed stop ends the process.
- *Sweep.* What to measure depends on files of earlier processes, which die or fail
  between any two iterations. Correct: skipped means measured.
- *Logs.* Bounded queue, batches, retries and close race. Correct: order, no loss
  between them, an end.
- *Window.* Message boxes run the event loop again, so a run may end while the user
  is asked about it, and signals of a list change what the list is filled from.
  Correct: one run at a time, an answer is for the run it was asked about, what is
  shown is what would run.

`PROJECT.json` lists every component with what is modelled of it, and 40 hazards
at the lines where they bite with the property that covers each.

## Modules

| module | what it is |
|---|---|
| `ControllerStates` | states of the machine and its transition table |
| `ControllerRun` | a whole run: controller thread, UI thread, executor, stop protocol, hosts, tailer; EXTENDS `ControllerStates`, INSTANCEs `RunOutcome` |
| `RunOutcome` | abstract specification: what a run promises its client |
| `RepetitionPolling` | one host: the role's tasks and the detached runners |
| `EventJournal` | one host's events on their way into the journal, and resume |
| `GeneratorAttempt` | the LocalRunner processes of a host: executor, generator's worker thread and commands, collectors, results |
| `RunSession` | the client's process and its resumptions: provisioning, Ctrl-C, loop, cleanup; EXTENDS `ControllerStates` |
| `FaasSweep` | the repetitions of a dfaas or peva_faas workload and the files between them |
| `LokiQueue` | the Loki handler |
| `GuiWindow` | the window of `lb gui`: runs, message boxes, sections |
| `MC…` | bounds and constants for TLC |
| `…Proofs`, one per component | its theorems: `ControllerRunProofs`, `RepetitionPollingProofs`, `EventJournalProofs`, `GeneratorAttemptProofs`, `RunSessionProofs`, `FaasSweepProofs`, `LokiQueueProofs`, `GuiWindowProofs` |

The modules cut the system at its boundaries: files, processes and the calls of one
thread to another. `RunSession` sees of the controller's thread the moves of its
machine and how it ends, which `ControllerRun` has in full.
`ControllerRun` sees of a host that repetitions are launched, exit, are relayed
and leave confirming lines in the log; `RepetitionPolling` is what happens
inside that, for one host; `EventJournal` is what the lines become in the
application; `GeneratorAttempt` is what the runner does between its start and its
status; `FaasSweep` is one shape of generator seen over all its processes.
`GuiWindow` sees of a client that it begins, may find its stop file, and ends.

## ControllerRun

`pc` is the controller thread between two calls another thread can interleave
with, named after what comes next: the checks (`setup_check`, `arm_check`,
`run_check`, `exec_check`, ...) are the places of the code that call
`_stop_requested`, the `..._pb` points are playbooks in progress. `ret` is where
`handle_stop_during_workloads` returns to, since it is called from two depths of the
loop. The UI thread's `arm_stop` is three actions, `ArmStop`, `RequestStop`,
`AnnounceStop`, in the order of the code: machine, token, announcement. The
coordinator's `process_event` and `check_timeout` are two actions each, a test and
an assignment, because the tailer and the controller run them side by side; so
are the two reads of `build_summary`.

`RunOutcome` promises that the run is closed only when no host is busy. Busy are the hosts
whose runner is attended: an orphan is out of the client's sight, and of the promise.

Abstractions, each where the code is deterministic or the detail is data:

- The application always passes an output callback, so playbooks are streamed and
  can be killed; the captured mode of the executor is left out.
- SIGTERM and the death of a playbook are one step. A killed run playbook turns its
  running runners into orphans, which nobody relays.
- A stop seen by the controller thread latches, announces and arms in one step.
- `teardown_playbook` is assumed configured when `run_teardown` is set, and the coordinator always exists.
- `lifecycle.py` is only written, never read, and is left out.
- `success_override` is `all_ok = FALSE`, which gives the same summary.
- `unread` counts only lines that can confirm a stop, per host.
- The journal's updates belong to `EventJournal`; `pending` is its answer when the
  run starts.

## RepetitionPolling

`pc` is the next task of the role, `proc[j]` and `todo[j]` are the runner of
repetition `j` and the writes it has queued: events (text, then newline: `print`
makes two writes) and the two steps of `write_text`, truncate and write. `PlayOf`
groups repetitions into plays, `TaskOf` says which do the same work, so that a second
play finds the host as an abandoned runner of the first left it.

- A poll is four steps, in the order of the script: does the status exist, is the
  process alive, is it over, read the stream. The runner moves between any two.
- `TimePasses` lets a poll grow older than its timeout while polling.
- Host loss, a killed playbook, a crash of the runner and a STOP file touched by
  hand (as `molecule/controller-stop` does) may come at any task.
- The pid file appears with the fork. `uv run` may be slower than the 10 s the role
  waits, which leads to `Rescue`.
- A script on the host does not survive the play that started it; only the
  daemonised runner does.
- Collecting (tar, fetch, extract) is one step.

`crowded` marks repetitions launched while another runner was alive in the
directory; `FinalRelayed` and `DoneIsTrue` exclude them.

## EventJournal

`lines[p]` is what a reader has not read: output lines for the controller
thread, lines of `lb_events.jsonl` for the tailer. A reader takes one (`Check`: is
the key known?), remembers it (`Record`), changes the task and opens the file
(`Apply`), writes the file (`Saved`); another thread may move between any two, there
is no lock in the code. `save()` empties the file before it writes: `disk` is
`Torn` in between. `crossed` are the savers over whose open file another one
has written: what they write may end up followed by a rest of the other document, so
the result is either document or `Torn`. The main thread of control goes
through play, backfill, final state, and the UI thread's completion; `Down` is
the death of the process at any point and `Resume` the next run.

- The output parser drops an event's type (`Parsed`), the callback plugin
  finds the first event of a batch in the output of the poll and every event again
  in the loop that prints them (`Poll`).
- Output nobody has read when the playbook exits is lost for the controller
  thread (`LeavePlay`), not for the tailer.
- Serialising and opening are one step; moves of the state machine before
  the first event save a journal of pending tasks and are left out.
- Lines arrive whole: events are far shorter than the buffer they are written with.
- One host and one workload: the journal's tasks are independent of each other.
- The end of a play that outlives the process is not followed: nobody reads it.
- What the collect playbook could add later is covered by collecting at `Judge`:
  results are first read by the backfill.

## GeneratorAttempt

`pc` is the main thread of a LocalRunner: the steps of `RepetitionExecutor.execute`,
its `except` and `finally`, the four writes of results, the report and the status.
`verdict` is how `execute` ends: with a result, `StopRequested`, an `LBError`
(`error`, which is recorded) or another exception (`raised`, which is not).
`worker` is the generator's thread, `child[k]` its commands, and `running`,
`process`, `result` are the fields both threads use without a lock.

A generator is one of eight `Shapes`: what its plugin does with commands. `command`
stands for all that use `CommandGenerator` as it is (fio, dd, stress-ng, sysbench,
unixbench); `hpl` and `geekbench` clear the process in their stop; `stream` runs a
command per compiler; `geekbench` and `yabs` download first and may run a second
time; `phoronix` reads line by line to a deadline; `baseline` sleeps; `faas` is a
sweep, which a stop does not end.

- `stop()` is `Halt`, `Reap`, `Join`: the worker may end, or start another command,
  between any two. `_stop_workload` reads the process once (`held`). A command that is
  terminated may exit well.
- Signalling the command, or waiting for it, may raise (`ReapRaises`): out of the wait for the
  generator that is an error of the attempt (`execution.py:130`), in the cleanup it is logged
  (`executor.py:272`) and the history `unstopped` keeps it. The stops of geekbench and phoronix
  catch it themselves (`Catching`), and their command may then still be there.
- The two waits, five seconds for the worker and two intervals for each collector, may
  end with the thread alive: `Join` and `StopCollectors` promise nothing.
- A LocalRunner that has written its status may be followed by the next while its
  worker still runs; what it leaves on the host is out of the model then (`Launch`).
- One repetition per process, as the role launches it.

## RunSession

`pc` is the main thread of `ApplicationClient.start_run`; a node is at `idx` while it is
made. `vm`, `keys` and `injected` say of which process the container or VM, the
key files and the key inside are. `Press` is a SIGINT: in the loop the double-press
machine takes it, and everywhere else it is a KeyboardInterrupt whose way out is
`Interrupted`. `TimerFires` and `TimerResets` are the test and the assignment of
`reset_arm` in the timer's thread. The controller's worker is the moves of its machine
that the table allows (`WorkerMoves`) and its three ends.

- docker, multipass, ssh and ssh-keygen are external: each call works or fails. A launch
  that fails may have made its node (`Launch`), which is then in the way of the second launch
  under the same name that multipass gets (`Fallback`). `half` is the node that such a launch
  left; `resource_started` is not set for it.
- A node destroyed is gone; the code ignores a failure of it.
- The journal's answer whether work is left is a Boolean any run may change.
- Setting the token and arming are one step here, two in `ControllerRun`.

## FaasSweep

A state is a process at one point of its sweep, what it has in memory, and the three
files that outlive it: the entries of the repetitions, `index.csv`, and the database
of peva_faas. The plan is computed as the code does: combinations of functions, rates up to
a function's maximum, in the order of `itertools`, since an overloaded configuration spares
those that dominate it only later on. `Planned` lists a set of configurations in the order `Before`,
the plan of dfaas all of them and that of peva_faas those not seen. `measured` and `spared` are histories over all
processes.

- Both cooldowns are modelled step by step: that of dfaas waits the rest of its time,
  that of peva_faas gives up when a whole step would exceed it.
- Whether a configuration is overloaded, and what k6 or Prometheus answer, is any choice.
- Rows carry their configuration only.

## LokiQueue

`worker` is the loop of `LokiWorker.run`, whose condition is read in two steps;
`due` is "`next_flush` has passed". A push is one attempt of `_try_push`: stored, rejected, or
failed, in which case Loki may have stored the batch all the same. `closer` is
`close()` and then the exit of the process, which ends the worker wherever it is. Records that
find the queue full are dropped by `emit`, as the code says; they are counted.

## GuiWindow

`main` is where the main thread is: in the event loop, or inside `on_start_run`
between the start of the thread, the connection to its end and `_set_ui_busy`.
`dialogs` is the stack of open message boxes, each with the run it was opened for:
while one is open, signals go on being handled and clicks in the window do not.
`posted` are the signals on their way to the main thread: the end of a run goes to
the orchestrator and, if the window was connected by then (`heard`), to the
window. `place` says whether a run has a stop file of its own or one that the user
named, and `files` which stop files exist; nothing removes one.

The configuration is in the service (`current`), in two view models (`shown`,
`setup`) and in the catalog that Results and Analytics share, each of which takes
the service's when it is not configured (`ready`). `available` and `marked` are the
list of workloads and its selection on screen, `selected` the selection in the view
model. `Relist` is what happens when the list is filled: `clear()` and
`setSelected()` signal a change, and the slot writes back the selection.

- External, from how `src/lb_gui` uses Qt: signals of another thread are queued in
  order to what is connected when they are emitted, message boxes are modal,
  `QListWidget` signals a change of its selection.
- Which plugins are enabled and installed may be another answer at each refresh;
  refreshing may fail.
- A plan or a stop file that fails is a message box.
- The rest of validation (repetitions, remote hosts, the node count) only makes Start
  less often possible and is left out.
- The dashboard's tables, the doctor, plugin and analytics workers, and the report
  are presentation of what others compute, and are left out.

## Runs

State counts are of a full exploration; two workers.

| run | question | instance | states |
|---|---|---|---|
| `controller` | Do the safety properties hold in every interleaving, is `RunOutcome` implemented, and does a run end, in a lasting verdict that its summary agrees with? | 2 hosts, 2 workloads, 1 repetition; the full pipeline, one without what follows a playbook, the workloads alone; a journal of which one host owes a repetition of the second workload too, and one whose first workload is done; `FileOnShortRun`: the stop file is a setting of the second journal's runs | 266,713 |
| `v_stop` | Has a host that is taken for confirmed ceased its work? | 1 host, 2 workloads, 1 repetition, a fresh journal, the workloads alone | violated |
| `v_mirror` | Is a log event applied once? | 1 repetition, 1 log event, dedupe window 9, 1 run; `NoOverlap`: the readers stay apart | violated |
| `v_index` | Does a resumption keep what was indexed? | as `sweep`, with 1 iteration, 1 repetition, 2 processes | violated |
| `polling_play` | Is a play of two repetitions relayed and judged correctly, and does it end? | 1 play, 2 repetitions, every failure | 244,934 |
| `polling_orphan` | Does the runner of an abandoned play disturb the next? | 2 plays of the same repetition; `Abandoned`: the first is left by losing the host, no stop and no poll timeout, at most 6 tokens in the stream | 1,853,102 |
| `journal_safety` | Are events lost, or completions invented, by two readers, a stop, a death and a resumption? | 1 repetition, 1 log event, dedupe window 2; `Bounded`: readers lag at most 2 lines, the resumed run is not stopped | 1,681,562 |
| `attempt` | Does an attempt leave nothing measuring, and is a done earned and persisted? | 8 shapes of generator, 1 collector, 2 repetitions, 2 processes; `ShortOfCommands`: `stream` and `geekbench` are followed for one process | 636,203 |
| `session` | Are nodes kept and destroyed when they should be, and does a confirmed stop end the process? | remote, docker and multipass, 2 nodes, 3 processes, 4 presses each | 139,113 |
| `logs` | Are records in order and accounted for, and does the worker end? | 4 records, queue 2, batch 2, 1 retry | 336,898 |
| `sweep` | Is what is skipped measured, and is a success complete? | 2 plugins, 3 configurations of 2 functions, 2 iterations, 2 repetitions, 3 processes | 2,369,638 |
| `gui` | Does the window keep runs, answers and sections apart and together, and hear of the end? | 3 runs, 2 configurations, 2 workloads; `StartsAlike`: the sections are used before the first run, which starts with everything selected | 347,684 |

Why the bounds are enough. Hosts are treated alike and meet only in
"every host confirmed" and "any host failed", which two tell apart; two workloads
give a loop that goes on, one that is left and a resumed one that skips. The three settings have every
phase on and off; the phases do not read each other's settings. The stop file is seen by the same checks
as Ctrl-C, at every point of a run of one workload (`FileOnShortRun`). The order of
stops is free, so nothing hangs on repetition counts. Two repetitions on a host are the
one that fails and the one that must not follow, or the abandoned one and its
successor. A dedupe window of two with up to five different events per repetition
evicts often, which the 200 of the code does only in long runs; tasks of the journal do not
interact, so one suffices to see reorder, loss and staleness. Two processes are one that fails or dies and
one that resumes; two nodes are one that was ready and one that fails; four presses are
a warning that was withdrawn, the warning, the stop and one more. Two launches of a runner with two repetitions let
one repetition's writes meet another's entry; no generator starts more than two
commands, and what two commands do to a result does not hang on earlier processes (`ShortOfCommands`). Two functions, one with both rates and one with its maximum between them, give a configuration that
dominates another, and ones that do not. Four records with a queue and batches of two fill both.
Three runs of the window are one that ended with a box still open, one that shares or does not
share its stop file, and the one started next; a run reads nothing of the sections once it has
started, so their histories need not be multiplied with those of the runs (`StartsAlike`). Two
workloads tell an emptied selection from a reduced one.

The properties:

- `TypeOK`: checked for `RepetitionPolling`, `GeneratorAttempt` and `FaasSweep`, proved for
  every component.
- `CleanupOnlyWhenConfirmed`: a summary that lets the client destroy nodes after a
  stop protocol has every host's confirmation. `KeepsPromise`: the run refines
  `RunOutcome`, with phase, attended hosts, confirmations and verdict read off the
  controller's state. Neither says anything of a stop first seen outside the loop over workloads,
  nor of orphans.
- `NoWorkAfterStop`: after the stop protocol no repetition starts.
- `FinishedIsQuiet`: the machine becomes finished only while nobody has asked for a stop,
  by `arm_stop` or by the file, also where only the setup would have seen it and emptied the
  workloads (`playbooks.py:107`); and what is finished was not stopped, lost no host and left no runner.
- `DoneIsTerminal`, `VerdictsKept`, `StopEndsRun`, `RunEnds`: the thread ends in a
  terminal state with something to return, of which the two reads agree, verdicts are revised only by late confirmations of all hosts, a
  stop and a hanging host end the run.
- `NothingSkipped`, `FinalRelayed`, `DoneIsTrue`, `FailureEndsPlay`, `DeadIsNoticed`,
  `PlaysEnd`: what the role sees of a runner is what it did.
- `NothingDropped`: whatever the overlap, each event has been applied once the
  tailer has read everything: the unlocked check-then-add can apply an event
  twice but never loses it. `CompletedHasEvidence`: completed, in memory or in the
  file, means said done or a clean result, also across a death and a resume.
- `QuietAfterAttempt`, `DoneMeansSuccess`, `DoneIsPersisted`, `OthersKept`, `RunnerEnds`:
  what an attempt leaves. `QuietAfterAttempt` excuses the generator whose `stop()` raised in the
  cleanup, which the code logs. `DoneMeansSuccess` excludes a worker that was still alive when its
  result was read (`settled`): for it `None` counts as success (`results.py:61-67`).
- `FailedProvisionRollsBack`, `NotUnderRun`, `ConfirmedStopEnds`: nodes and Ctrl-C. A failed
  provisioning leaves no keys of its own, and no node but one whose launch made it and raised.
- `IndexedIsMeasured`, `SuccessIsComplete`: what the index and a success say.
- `NothingLost`, `InOrder`, `RecordsSettle`, `WorkerEnds`: records on their way.
- `RunsApart`, `StopIsOwn`, `QuitAsks`, `EndIsShown`: the window, the orchestrator and the
  thread each have their own idea of a run; still no two runs are on, the answer to a box
  stops no other run, the window does not vanish over a run unasked, and an end it is
  connected to frees it. `SelectedIsShown`, `ViewsFollowConfig`: what is on screen
  is what would run, and a configuration loaded in Config reaches every section.

## Where code and documents disagree

| run | the claim | what the code does |
|---|---|---|
| `v_stop` | "confirmation that the runner has ceased execution for the current workload" (`engine/stops.py:61`), after "1. Requesting remote runners to stop" and "2. Waiting for confirmation events" (`stops.py:5`); "Runners must confirm via events keyed by `run_id`" (`docs/ctrl_c_design.md:34`), "send stop file; wait for runner confirmations" (`docs/ctrl_c_stop_flow.md:28`, also line 47) | the run playbook, which alone relays what runners say, is killed before the STOP playbook asks them, so no answer arrives; what confirms is a line the log held before, a `done` of an earlier repetition or the `failed` of a poll that gave up, whose runner goes on |
| `v_mirror` | "mirror them to the run journal" (`services/journal.py:176`), "avoid duplicate fan-out" (`run_types.py:119`) | a log event is applied twice, once with each type; the second copy puts a repetition that is done back to running |
| `v_index` | "Unique configurations for resume support" (`dfaas/README.md:413`) | a resumed repetition skips what its failed attempt indexed, and its entry replaces the one that holds the rows: they vanish from `index.csv` and `results.csv` |

`v_mirror` is bounded by `NoOverlap`: the readers never overlap in it, so the cause is
the key alone. Without that bound the unlocked readers reorder events to the same effect.
The cause of `v_stop` is proved: `OnlyOldConfirmations` says that while the protocol waits no step adds
a line that can confirm, for which see [Proofs](#proofs). It also explains why stops so often end in `stop_failed`.

Other places where the code does not do what a text beside it says, met while
modelling and not stated as properties:

- "terminal states are immutable" (`docs/ctrl_c_design.md:23`): `failed`, `aborted` and
  `stop_failed` are accepted from every state. `VerdictsKept` is what remains true.
- "Plugin teardown runs (non-cancellable)" (`docs/interrupts.md:41`): the stop checks
  return before `run_teardown_playbook`.
- "Accumulate destroy callbacks as soon as a node becomes externally visible."
  (`docs/plans/2026-03-07-bug-remediation-plan.md:354`): a launch that fails after it made its
  node leaves it, because `resource_started` is only set behind the launch (`docker.py:64`, `multipass.py:67`,
  `multipass.py:139-152`).
  `FailedProvisionRollsBack` is what remains true.
- "we skip COMPLETED tasks" (`services/journal.py:116`): a host with nothing pending gets
  an empty list, which the role reads as all repetitions.
- "Signal the controller to stop gracefully" (`adapters/remote_runner.py:75`): the machine is armed
  before the token is set, and a run that ends in between raises `ValueError`.
- "Ensure LocalRunner finished" (`run_single_rep.yml:133`): the assertion cannot fail.
- An attempt that was stopped or ran out of time may leave its worker thread with a
  command (geekbench and yabs start a second one after the stop; a timeout of STREAM
  leaves the process), until the runner's process is killed.
- peva_faas remembers a configuration after its first iteration: one that fails
  later is not proposed again.
- "Execute benchmarks using remote hosts provisioned upstream." (`run_service.py:164`): a
  resumed run takes its hosts from the journal (`run_journal.py:109`), after new nodes were
  provisioned.
- "Only set busy after successful start to avoid orphaned wait-cursor state"
  (`main_window.py:289`): a run that ends before the window connects (`main_window.py:286`)
  signals only the orchestrator, and the window stays busy. `EndIsShown` is stated of the
  ends it is connected to.
- "Restore selection if previously selected" (`run_setup_view.py:270`): at most the first
  item is, and a list with a selection on screen loses it (`Relist`).
- A stop file the user named is not removed and stops the next run that names it; a yes
  after the end of a run writes one all the same. `StopIsOwn` is about the others.
- A configuration loaded in Run Setup does not reach Results and Analytics.
- The Loki worker polls without pause once `next_flush` has passed with nothing pending
  (`loki_helpers.py:60-70`).

## Seeded faults

Operators under a comment `Bug:` are not part of the model. Each has the name and
parameters of a definition next to it and a fault a maintainer could make: a check
that consumes the stop, a status written before its event, a dropped clause
of a key. Put in place of that definition, TLC finds the property named in
`PROJECT.json` violated, which shows that each property can fail and that the instance is
large enough to see it.

## Fairness

- `ControllerRun!FairSpec`: the controller thread is scheduled, and playbooks other
  than the run playbook end (Ansible's own timeouts); the UI thread, once in `arm_stop`,
  finishes it. Nothing is assumed of the run playbook, the runners, or the tailer.
  That is enough for `StopEndsRun`: a stop kills the run playbook.
- `RunEnds` needs more and says so: `AttendsHosts`, the role goes on at each
  host, whose poll gives up by its own timeout (`stream_events_step.yml:60`).
- `RepetitionPolling!FairSpec`: Ansible goes on with its tasks. Nothing is assumed
  of the runner: it may hang. `PlaysEnd` adds that a poll's time passes.
- `GeneratorAttempt!FairSpec`: the main thread of the runner goes on, since each of its waits
  is bounded. Nothing is assumed of the worker, its commands or the collectors.
- `RunSession!FairSpec`: the client's main thread goes on, and a controller thread that has
  a stop to see comes to an end, which is `StopEndsRun` of `ControllerRun`. A controller without a
  stop may hang.
- `LokiQueue!FairSpec`: the worker goes on, time passes, and a push returns after its
  timeout. The threads that log or close need not do anything.
- `GuiWindow!FairSpec`: the event loop goes on, `on_start_run` and the handling of what is
  posted. Nothing is assumed of the user, who may leave a box open, or of a run.
- `EventJournal` and `FaasSweep` state safety only.

`CHECK_DEADLOCK` is on in every run; where a system really stops, an explicit
stuttering action says so (`Finished`, `Over`, `Halted`).

## Proofs

Proved by TLAPS of `ControllerRun` for all hosts, workloads, repetitions, settings and
journals, from the assumptions at the head of the module (there is a host, `NoHost` is
none, counts are naturals, settings and journals have their shape):

| theorem | statement | argument |
|---|---|---|
| `Typing` | `Spec => []TypeOK` | `TypeOK` alone is not inductive: `wl` indexes the journal, and relaying takes one from `left[h]`. `ThreadInv` adds that inside a workload `wl <= Workloads`, and that a runner that is not idle is attended and has repetitions left. |
| `CleanupSafe` | `Spec => []CleanupOnlyWhenConfirmed` | `StopInv`: a handled stop is latched, so every later check sees it and the thread stays in `AfterStop`; `TEARDOWN_READY` means all confirmed; a verdict that allows cleanup was earned; the cleanup flag is read last. |
| `StopIsFinal` | `Spec => NoWorkAfterStop` | after the stop `pc` is in `AfterStop`, which holds no point that attends hosts |
| `VerdictsFinal` | `Spec => VerdictsKept` | the table has no way out of a terminal state (`NoWayOut`), and the override targets are only asked for at points where `StopInv` knows the verdict |
| `EndsTerminal` | `Spec => []DoneIsTerminal` | `SummaryInv` ties a summary to the points after it is begun; its two reads of the machine agree on the cleanup because only an arming can come between them, and no arming leaves a terminal state or makes `finished` reachable again (`Moves`). `EndInv`: what `build_summary` could not finish, nothing later finishes. |
| `FinishedIsOver` | `Spec => FinishedIsQuiet` | `AskInv`: once `arm_stop` has moved the machine it is in none of the states from which `finished` can be reached (`Unasked`), and no step takes that back (`StepsGoOnward`); `build_summary` itself looks for the token and the file. `OrphanInv`: a runner is only left alone by a playbook that is killed or loses its host, and neither is a success; `LoopInv`: a successful end has been through all workloads; `FinishInv` |
| `OnlyOldConfirmations` | `Spec => ConfirmationsPredateStop` | `ProtocolInv`: the coordinator waits only after a stop, where no host is attended, and only an attended runner adds a line |
| `PromiseKept` | `Spec => KeepsPromise` | Every step is of one of five kinds, as the client sees it (`StepKinds`): `Calm`, `Stops`, `Closes`, `Works`, `Confirms`. Each kind maps to one action of `RunOutcome` or a stutter, given the invariants of the thread, the stop and the outcome; `Closes` is where `CleanupSafe` is needed again. |

`ThreadInv` and `StopInv` are the invariants the others rest on; the refinement needs both,
since the abstract `Close` is only enabled when no host is busy and, after a stop, when every
host has confirmed or the nodes are kept.

Proved of `RepetitionPolling` for any number of repetitions in any plays, of any tasks, any
settings and bounds:

| theorem | statement | argument |
|---|---|---|
| `Typing` | `Spec => []TypeOK` | `Shaped`: what a runner has left to write is a sequence of tokens and status writes, whichever way its script was put together |
| `NothingIsSkipped` | `Spec => []NothingSkipped` | A poll relays from its offset up to the last newline, so no line starts in what it leaves; what it relays is recorded with the offset. |
| `FailureIsLast` | `Spec => FailureEndsPlay` | `PlayInv`: repetitions later than the one at hand have neither a runner nor a report; a failed one is only left for the next play (`StepKinds`). |
| `FinalIsRelayed` | `Spec => []FinalRelayed` | see below |
| `ReportedIsTrue` | `Spec => []DoneIsTrue` | see below |

The last two are about the order of two writers. `ScriptInv` describes what a live runner still has to
write as a suffix of its epilogue: final event, newline, an empty status, the status. `AloneInv`:
in a directory shared with no abandoned runner nobody else is alive, so what is in the stream is this runner's.
`LineInv` then has the stream made of whole lines, except for the one being written, and the last event
with its newline there whenever a status is (`Finaled`). The poll that ends on the status
looks at it before it reads (`LookInv`), so the event is before the offset when it ends, and
by `NothingSkipped` it is relayed. That a `done` is true follows because a status of 0 is only in the script
of a runner whose last event says done.

Proved of `EventJournal` for any number of repetitions, log lines, remembered events and
resumed runs, from `BoundsAssumption`, and without the constraints of the runs: readers
may lag and savers overlap as far as they like.

| theorem | statement | argument |
|---|---|---|
| `CompletedIsDone` | `Spec => []CompletedHasEvidence` | The evidence must exist before the journal says so: `JournalInv` makes every event that says done, unread or in a reader's hand, one of a repetition in `proven`, and backs the documents not yet written as well as memory and file. A clean result is evidence only while its repetition is not due again (`Counts`), since the collected results of a new attempt replace it; `Resume` makes due exactly what is not completed. |
| `Typing` | `Spec => []TypeOK` | Beside `JournalInv`: `SavesInv`, a saver that is to write has a document; `DedupeInv`, the set of remembered events lags behind its queue, never ahead; `FlagsInv`. |
| `EveryEventApplied` | `Spec => []NothingDropped` | `DeliveryInv`: what the dedupe knows has been applied or is in the hand of the reader that recorded it, so a reader that drops it loses nothing; what was said is applied, in a hand, or unread. What the window forgets is only applied again. |

Proved of `GeneratorAttempt` for any collectors, any number of repetitions and of processes, and
every shape of generator:

| theorem | statement | argument |
|---|---|---|
| `Typing` | `Spec => []TypeOK` | `Typed`: what replaces the file or is rewritten has been merged before |
| `NothingRunsOn` | `Spec => []QuietAfterAttempt` | `QuietInv`: nothing collects and the generator is not running before they are started and after the cleanup, unless its `stop()` raised there, and every way out of the try statement leads through it |
| `DoneIsSuccess` | `Spec => []DoneMeansSuccess` | `CommandInv`, `SingleInv`, `StreamInv`: what the worker's place says of its commands, apart for STREAM, which has two and counts their failures; `VerdictInv`: a verdict of success comes from the result of a worker that was started, and one that had ended by then changes it no more |
| `DoneStaysInFile` | `Spec => []DoneIsPersisted` | `PersistInv`: from the merge of a success to the end of `main`, the success is where the next write takes it from, and a write that fails turns the verdict |
| `OthersAreKept` | `Spec => OthersKept` | `MergedInv`: what is written differs from the file only in the repetition at hand |

Proved of `RunSession` for any number of nodes, processes and presses, in any modes:

| theorem | statement | argument |
|---|---|---|
| `FailureRollsBack` | `Spec => []FailedProvisionRollsBack` | `NodeInv`: while nodes are made or undone, those of this process are the ones up to `idx`, at each point of the provisioner, and the one of a launch that raised, which is at or behind `idx`; `NodeTypes` adds that no node is of a later process, so that a resumption owns none when it begins. |
| `Typing` | `Spec => []TypeOK` | Nodes are made only outside the mode `remote`, and the queue of the loop holds no more than the presses. |
| `NoNodeUnderRun` | `Spec => NotUnderRun` | `WorkerInv`: no thread before the loop, and a result is only read of a thread that is done; an interrupted main thread forgets the result. |

Proved of `FaasSweep` for any functions, rates, maxima, iterations, repetitions and processes:

| theorem | statement | argument |
|---|---|---|
| `SparedComeLater` | a configuration that dominates another is later in the plan | `PlannedLists`: the plan of a set lists all of it, once, in order. `Planned` is a CHOOSE, so that there is such a list must be shown: the configurations are finitely many (`FiniteConfigurations`, by their graphs), `Before` is a strict total order of them (`BeforeTotal`, `BeforeTransitive`), and the number of configurations before one is its place (`Listable`). |
| `Typing` | `Spec => []TypeOK` | `TypesInv`: a configuration at hand is the head of what is left, and no more iterations are overloaded than were made |
| `IndexSound` | `Spec => []IndexedIsMeasured` | `IndexInv`: every copy of the index, in memory, in the result, in the entries and in the file, lists measured configurations, and the iterations before the one at hand are measured. |
| `SuccessSound` | `Spec => []SuccessIsComplete` | `SuccessInv`: while no failure is recorded each configuration is measured, spared or to come; at the beginning all are to come, by `PlannedLists`. |

Proved of `LokiQueue` for any number of records, any sizes and any number of retries:

| theorem | statement | argument |
|---|---|---|
| `Typing` | `Spec => []TypeOK` | `BatchInv`: a full batch is pushed before the next entry is taken, so it never outgrows its size. |
| `RecordsKept` | `Spec => []NothingLost` | `OrderInv`: two numbers split the accepted records (`Split`): up to the first they are settled, up to the second in the batch, the others in the queue, whatever wakes lie between. Only while it is pushed may a batch be stored already. |
| `StoredInOrder` | `Spec => []InOrder` | the queue is sorted, and the batch is what comes next |

Proved of `GuiWindow` for any number of runs, configurations and workloads, without `StartsAlike`:

| theorem | statement | argument |
|---|---|---|
| `NoTwoRuns` | `Spec => []RunsApart` | `RunInv`: a run that is on is the last, and the orchestrator has it, for what clears the orchestrator's worker is posted at its end; and no end is on its way when the next run starts, since the window is busy until it has heard. |
| `NoSilentQuit` | `Spec => QuitAsks` | `RunInv`: outside `on_start_run` the window has the run that is on |
| `StopsItsOwn` | `Spec => []StopIsOwn` | `FileInv`: a box keeps the run it was opened for, and where the file of a run is, is settled when the run starts |
| `ShownIsSelected` | `Spec => []SelectedIsShown` | inductive, given what `Relist` leaves (`RelistAgrees`) |
| `SectionsAgree` | `Spec => []ViewsFollowConfig` | `ConfigInv`: what a section that failed would configure with next is the service's, which is shown too |
| `Typing` | `Spec => []TypeOK` | from the invariants above |

Every invariant was checked by TLC on the component's run before it was proved.

Only model-checked, because it is out of the prover's reach: everything under fairness,
`StopEndsRun`, `RunEnds`, `DeadIsNoticed`, `PlaysEnd`, `RunnerEnds`, `ConfirmedStopEnds`,
`RecordsSettle`, `WorkerEnds`, `EndIsShown`. Every other property of a passing run is a theorem.
The theorems are about the specifications without the constraints of the runs (`FileOnShortRun`,
`ShortOfCommands`, `Abandoned`, `Bounded`, `StartsAlike`). No module declares a RECURSIVE operator; where a proof needs a smallest number
(`Smallest`) or a rank, it takes it from the well-foundedness of the naturals and from
cardinalities, since the induction theorems cannot be instantiated.

## Plan

Done, in this order:

1. `ControllerStates`, `ControllerRun`, with `RunOutcome` as its abstraction, and
   theorems about its types, cleanup, stop and verdicts.
2. `RepetitionPolling`.
3. `EventJournal` and the theorems about its journal and its dedupe.
4. `GeneratorAttempt`, `RunSession`, `LokiQueue`, `FaasSweep`, `GuiWindow`, and theorems about
   the last four.
5. The refinement of `RunOutcome`, and theorems for the remaining safety properties, those of
   `RepetitionPolling` and `GeneratorAttempt` among them.

Left, in order of importance:

6. Theorems that carry the liveness arguments as far as safety goes: what each fair step brings
   nearer, as action properties.
7. Tailer positions and half lines, joined to `EventJournal`.
8. Several hosts and workloads in the journal, and its reconstruction from results.

Not modelled, and why:

- Connectivity probes, the run catalog and the reading of configurations: sequential
  functions without state between calls.
- Analytics, reports, dashboards, the text interface, and of the graphical one what `GuiWindow`
  leaves out: presentation and numeric data over what the modelled parts produce.
- The output parsers, command lines and exports of single benchmarks, the
  cost model of peva_faas, Grafana and Prometheus requests: data and I/O with no protocol.
- Quantitative time: any delay is possible, so a poll that sleeps as long as the stop timeout
  (`stream_events_step.yml:126`) is seen only as a confirmation that comes too late.

## Running the checks

    tlc -workers 2 -config controller.cfg MCControllerRun
    tlapm ControllerRunProofs.tla

Each run of `PROJECT.json` names its module and configuration.
