--------------------------- MODULE ControllerRun ---------------------------
(***************************************************************************)
(* One benchmark run as lb_controller drives it: the controller thread     *)
(* walks setup, workloads and teardown through ansible playbooks; the UI   *)
(* thread or a stop file may ask it to stop at any moment; the remote      *)
(* runners confirm through the event log, which a tailer thread reads.     *)
(*                                                                         *)
(* Each value of pc is a point of the controller thread between two calls  *)
(* another thread can interleave with; its name says what comes next.      *)
(***************************************************************************)
EXTENDS ControllerStates, Naturals

CONSTANTS
  Hosts,      \* config.remote_hosts
  NoHost,     \* no event in the tailer's hands
  Workloads,  \* how many workloads test_types names
  Reps,       \* config.repetitions
  Configs,    \* the remote_execution settings a run may start with
  Pendings    \* the repetitions each host still owes, per workload (the journal)

ConfigFields == [run_setup: BOOLEAN, run_collect: BOOLEAN, run_teardown: BOOLEAN,
                 plugin_setup: BOOLEAN, plugin_teardown: BOOLEAN,
                 stop_file: BOOLEAN]

ASSUME HostsAssumption == Hosts # {} /\ NoHost \notin Hosts
ASSUME WorkloadsAssumption == Workloads \in Nat
ASSUME RepsAssumption == Reps \in Nat \ {0}
ASSUME ConfigsAssumption == Configs \subseteq ConfigFields
ASSUME PendingsAssumption == Pendings \subseteq [1 .. Workloads -> [Hosts -> 0 .. Reps]]

NoSummary == [state |-> "none", cleanup |-> FALSE, success |-> FALSE]

VARIABLES
  cfg, pending,           \* fixed when the run starts
  pc, ret, wl,            \* controller thread: point, return point, workload
  exec,                   \* the executor's current playbook
  state,                  \* ControllerStateMachine._state
  all_ok, stop_ok, attempted,  \* RunFlags
  summary, raised,        \* ControllerRunner._result, _exception
  plugin_up,              \* workloads set up and not torn down (history)
  token, stop_file, ui,   \* StopToken, its file, progress of arm_stop
  coord, confirmed,       \* StopCoordinator
  ingest, unread,         \* tailer thread; log lines it has not read, per host
  runner, orphan, left, lost  \* LocalRunners, and the role that attends them

fixed == <<cfg, pending>>
flags == <<all_ok, stop_ok, attempted>>
outcome == <<summary, raised>>
request == <<token, stop_file, ui>>
stopping == <<coord, confirmed>>
tailer == <<ingest, unread>>
remote == <<runner, orphan, left, lost>>
vars == <<fixed, pc, ret, wl, exec, state, flags, outcome, plugin_up, request,
          stopping, tailer, remote>>

Cancellable == {"setup_pb", "plugin_setup_pb", "run_pb", "collect_pb"}
NonCancellable == {"plugin_undo_pb", "plugin_teardown_pb", "stop_pb",
                   "teardown_pb"}
Results == {"ok", "failed", "stopped", "raised"}
Returns == {"teardown", "run_check", "exec_check", "fail"}
Points == Cancellable \cup NonCancellable \cup Returns \cup
          {"enter", "setup_check", "arm_check", "loop", "workload",
           "plugin_check", "stop_wait", "stop_expire", "teardown_check",
           "teardown_interrupt", "summary", "summary_state",
           "summary_cleanup", "finalize", "done"}

TypeOK ==
  /\ cfg \in ConfigFields
  /\ pending \in [1 .. Workloads -> [Hosts -> 0 .. Reps]]
  /\ pc \in Points /\ ret \in Returns
  /\ wl \in 1 .. Workloads + 1
  /\ exec \in Results \cup {"idle", "running"}
  /\ state \in States
  /\ all_ok \in BOOLEAN /\ stop_ok \in BOOLEAN /\ attempted \in BOOLEAN
  /\ summary \in [state: States \cup {"none"}, cleanup: BOOLEAN, success: BOOLEAN]
  /\ raised \in BOOLEAN
  /\ plugin_up \subseteq 1 .. Workloads
  /\ token \in BOOLEAN /\ stop_file \in BOOLEAN
  /\ ui \in {"idle", "armed", "flagged", "announced"}
  /\ coord \in {"IDLE", "STOPPING_WORKLOADS", "TEARDOWN_READY", "STOP_FAILED"}
  /\ confirmed \subseteq Hosts
  /\ ingest \in Hosts \cup {NoHost}
  /\ unread \in [Hosts -> Nat]
  /\ runner \in [Hosts -> {"idle", "running", "exited"}]
  /\ orphan \subseteq Hosts
  /\ left \in [Hosts -> 0 .. Reps]
  /\ lost \subseteq Hosts

Init ==
  /\ cfg \in Configs /\ pending \in Pendings
  /\ pc = "enter" /\ ret = "teardown" /\ wl = 1 /\ exec = "idle"
  /\ state = "init"
  /\ all_ok = TRUE /\ stop_ok = TRUE /\ attempted = FALSE
  /\ summary = NoSummary /\ raised = FALSE /\ plugin_up = {}
  /\ token = FALSE /\ stop_file = FALSE /\ ui = "idle"
  /\ coord = "IDLE" /\ confirmed = {} /\ ingest = NoHost
  /\ unread = [h \in Hosts |-> 0]
  /\ runner = [h \in Hosts |-> "idle"] /\ orphan = {}
  /\ left = [h \in Hosts |-> 0] /\ lost = {}

-----------------------------------------------------------------------------
(* The stop token.  should_stop() latches the stop file and announces the
   stop; _stop_requested() then arms the state machine as well. *)

ShouldStop == token \/ stop_file

LatchedState == IF token THEN state ELSE Armed(state)

\* Bug: the check that sees a stop consumes it.
StopConsumed == ShouldStop /\ token' = FALSE /\ stop_file' = FALSE /\ UNCHANGED ui

StopSeen == ShouldStop /\ token' = TRUE /\ UNCHANGED <<stop_file, ui>>

NoStop == ~ShouldStop /\ UNCHANGED request

-----------------------------------------------------------------------------
(* The executor: every playbook of the controller thread goes through
   run_playbook, which a stop prevents or kills only when it is cancellable. *)

StopsHere == pc \in Cancellable /\ StopSeen
GoesOn == (pc \in Cancellable => ~ShouldStop) /\ UNCHANGED request

Attended == pc = "run_pb" /\ exec = "running"

Launch ==
  /\ pc \in Cancellable \cup NonCancellable /\ exec = "idle"
  /\ \/ StopsHere /\ exec' = "stopped" /\ state' = LatchedState
     \/ GoesOn /\ exec' \in {"running", "raised"} /\ UNCHANGED state
  /\ UNCHANGED <<fixed, pc, ret, wl, flags, outcome, plugin_up, stopping, tailer,
                 remote>>

\* The runners the killed playbook attended go on, with nobody to relay them.
Terminate ==
  /\ exec = "running" /\ StopsHere
  /\ exec' = "stopped" /\ state' = LatchedState
  /\ orphan' = orphan \cup {h \in Hosts : runner[h] = "running"}
  /\ runner' = [h \in Hosts |-> "idle"]
  /\ UNCHANGED <<fixed, pc, ret, wl, flags, outcome, plugin_up, stopping, tailer,
                 left, lost>>

RoleFinished == \A h \in Hosts : left[h] = 0 /\ runner[h] = "idle"

Complete ==
  /\ exec = "running" /\ GoesOn
  /\ pc = "run_pb" => RoleFinished
  /\ exec' \in IF pc # "run_pb" THEN {"ok", "failed"}
               ELSE IF lost = {} THEN {"ok"} ELSE {"failed"}
  /\ UNCHANGED <<fixed, pc, ret, wl, state, flags, outcome, plugin_up, stopping,
                 tailer, remote>>

\* The controller thread takes the result of its playbook.
Returned(results) == exec \in results /\ exec' = "idle"

-----------------------------------------------------------------------------
(* Stop protocol *)

\* handle_stop_during_workloads up to the STOP playbook; from is the state the
\* caller's check left, back the point the protocol returns to.
HandleStop(from, back) ==
  /\ pc' = "stop_pb" /\ ret' = back
  /\ state' = Moved(from, "stopping_wait_runners")
  /\ attempted' = TRUE
  /\ coord' = IF coord = "IDLE" THEN "STOPPING_WORKLOADS" ELSE coord
  /\ UNCHANGED <<all_ok, stop_ok, confirmed>>

NoHandleStop == UNCHANGED <<flags, stopping>>

StopPlaybookReturned ==
  /\ pc = "stop_pb" /\ Returned(Results)
  /\ pc' = IF exec = "raised" THEN "fail" ELSE "stop_wait"
  /\ UNCHANGED <<fixed, ret, wl, state, flags, outcome, plugin_up, request, stopping,
                 tailer, remote>>

\* Bug: the clock only starts with the first confirmation.
SeeTimeoutLate ==
  /\ pc = "stop_wait" /\ coord = "STOPPING_WORKLOADS" /\ confirmed # {}
  /\ pc' = "stop_expire"
  /\ UNCHANGED <<fixed, ret, wl, exec, state, flags, outcome, plugin_up, request,
                 stopping, tailer, remote>>

\* check_timeout tests the state and the clock, and only then gives up: the
\* tailer may complete the confirmations in between.
SeeTimeout ==
  /\ pc = "stop_wait" /\ coord = "STOPPING_WORKLOADS"
  /\ pc' = "stop_expire"
  /\ UNCHANGED <<fixed, ret, wl, exec, state, flags, outcome, plugin_up, request,
                 stopping, tailer, remote>>

Expire ==
  /\ pc = "stop_expire" /\ pc' = "stop_wait"
  /\ coord' = "STOP_FAILED"
  /\ UNCHANGED <<fixed, ret, wl, exec, state, flags, outcome, plugin_up, request,
                 confirmed, tailer, remote>>

\* Bug: the failure of the protocol is not recorded in the flags.
StopProtocolForgets ==
  /\ pc = "stop_wait" /\ coord \in {"TEARDOWN_READY", "STOP_FAILED"}
  /\ pc' = ret /\ all_ok' = FALSE
  /\ state' = Moved(state, IF coord = "TEARDOWN_READY" THEN "stopping_teardown"
                           ELSE "stop_failed")
  /\ UNCHANGED <<fixed, ret, wl, exec, stop_ok, attempted, outcome, plugin_up, request,
                 stopping, tailer, remote>>

StopProtocolReturns ==
  /\ pc = "stop_wait" /\ coord \in {"TEARDOWN_READY", "STOP_FAILED"}
  /\ pc' = ret
  /\ stop_ok' = (coord = "TEARDOWN_READY") /\ all_ok' = FALSE
  /\ state' = Moved(state, IF coord = "TEARDOWN_READY" THEN "stopping_teardown"
                           ELSE "stop_failed")
  /\ UNCHANGED <<fixed, ret, wl, exec, attempted, outcome, plugin_up, request,
                 stopping, tailer, remote>>

-----------------------------------------------------------------------------
(* Global setup *)

EnterInitialState ==
  /\ pc = "enter"
  /\ \/ /\ cfg.run_setup
        /\ state' = Moved(state, "running_global_setup") /\ pc' = "setup_check"
     \/ /\ ~cfg.run_setup
        /\ state' = Moved(state, "running_workloads") /\ pc' = "arm_check"
  /\ UNCHANGED <<fixed, ret, wl, exec, flags, outcome, plugin_up, request, stopping,
                 tailer, remote>>

\* test_types = []
SkipWorkloads == wl' = Workloads + 1

CheckBeforeSetup ==
  /\ pc = "setup_check"
  /\ \/ /\ StopSeen /\ SkipWorkloads
        /\ state' = Moved(Armed(state), "stopping_interrupt_setup")
        /\ pc' = "arm_check"
     \/ NoStop /\ pc' = "setup_pb" /\ UNCHANGED <<state, wl>>
  /\ UNCHANGED <<fixed, ret, exec, flags, outcome, plugin_up, stopping, tailer,
                 remote>>

\* A failed setup returns an early summary whose success is overridden to False.
SetupReturned ==
  /\ pc = "setup_pb"
  /\ \/ /\ Returned({"raised"}) /\ pc' = "fail"
        /\ UNCHANGED <<state, wl, all_ok, request>>
     \/ /\ Returned({"ok", "failed", "stopped"}) /\ StopSeen /\ SkipWorkloads
        /\ state' = Moved(Armed(state), "stopping_interrupt_setup")
        /\ all_ok' = FALSE /\ pc' = "arm_check"
     \/ /\ Returned({"ok"}) /\ NoStop /\ pc' = "arm_check"
        /\ UNCHANGED <<state, wl, all_ok>>
     \/ /\ Returned({"failed"}) /\ NoStop
        /\ state' = Moved(state, "failed") /\ all_ok' = FALSE /\ pc' = "summary"
        /\ UNCHANGED wl
  /\ UNCHANGED <<fixed, ret, stop_ok, attempted, outcome, plugin_up, stopping,
                 tailer, remote>>

\* _maybe_arm_stop, _ensure_running_workloads
ArmCheck ==
  /\ pc = "arm_check" /\ pc' = "loop"
  /\ \/ StopSeen /\ state' = Armed(state)
     \/ NoStop /\ state' = Moved(state, "running_workloads")
  /\ UNCHANGED <<fixed, ret, wl, exec, flags, outcome, plugin_up, stopping, tailer,
                 remote>>

-----------------------------------------------------------------------------
(* The workload loop *)

NextWorkload == pc' = "loop" /\ wl' = wl + 1

LoopTop ==
  /\ pc = "loop"
  /\ \/ /\ wl > Workloads /\ pc' = "teardown"
        /\ NoHandleStop /\ UNCHANGED <<ret, state, request>>
     \/ wl \in 1 .. Workloads /\ StopSeen /\ HandleStop(Armed(state), "teardown")
     \/ /\ wl \in 1 .. Workloads /\ NoStop /\ pc' = "workload"
        /\ NoHandleStop /\ UNCHANGED <<ret, state>>
  /\ UNCHANGED <<fixed, wl, exec, outcome, plugin_up, tailer, remote>>

PendingHosts == {h \in Hosts : pending[wl][h] > 0}

\* _process_single_workload up to the plugin's setup playbook
StartWorkload ==
  /\ pc = "workload"
  /\ \/ /\ PendingHosts = {} /\ NextWorkload
        /\ NoHandleStop /\ UNCHANGED <<ret, state, request>>
     \/ /\ PendingHosts # {} /\ StopSeen /\ HandleStop(LatchedState, "teardown")
        /\ UNCHANGED wl
     \/ /\ PendingHosts # {} /\ NoStop
        /\ pc' = IF cfg.plugin_setup THEN "plugin_setup_pb" ELSE "plugin_check"
        /\ NoHandleStop /\ UNCHANGED <<ret, state, wl>>
  /\ UNCHANGED <<fixed, exec, outcome, plugin_up, tailer, remote>>

\* A setup that did not succeed is undone and its pending repetitions cleared:
\* the loop goes on with the next workload.
PluginSetupReturned ==
  /\ pc = "plugin_setup_pb"
  /\ \/ /\ Returned({"ok"}) /\ pc' = "plugin_check"
        /\ plugin_up' = plugin_up \cup {wl} /\ UNCHANGED <<all_ok, wl>>
     \/ /\ Returned({"failed", "stopped"}) /\ all_ok' = FALSE
        /\ IF cfg.plugin_teardown THEN pc' = "plugin_undo_pb" /\ UNCHANGED wl
           ELSE NextWorkload
        /\ UNCHANGED plugin_up
     \/ /\ Returned({"raised"}) /\ pc' = "fail"
        /\ UNCHANGED <<all_ok, wl, plugin_up>>
  /\ UNCHANGED <<fixed, ret, state, stop_ok, attempted, outcome, request, stopping,
                 tailer, remote>>

PluginUndoReturned ==
  /\ pc = "plugin_undo_pb"
  /\ \/ Returned({"ok", "failed"}) /\ NextWorkload
     \/ Returned({"raised"}) /\ pc' = "fail" /\ UNCHANGED wl
  /\ UNCHANGED <<fixed, ret, state, flags, outcome, plugin_up, request, stopping,
                 tailer, remote>>

\* The last check before the run playbook.  It starts the role on every host of
\* the inventory, and the role of a host with no pending repetitions runs all.
CheckBeforeRun ==
  /\ pc = "plugin_check"
  /\ \/ /\ StopSeen /\ HandleStop(Armed(state), "teardown")
        /\ UNCHANGED <<left, lost>>
     \/ /\ NoStop /\ pc' = "run_pb"
        /\ left' = [h \in Hosts |-> IF h \in PendingHosts THEN pending[wl][h] ELSE Reps]
        /\ lost' = {}
        /\ NoHandleStop /\ UNCHANGED <<ret, state>>
  /\ UNCHANGED <<fixed, wl, exec, outcome, plugin_up, tailer, runner, orphan>>

\* The finally clause collects, also when run_playbook raised; without
\* run_collect the phase is skipped.
RunReturned ==
  /\ pc = "run_pb" /\ Returned(Results)
  /\ all_ok' = IF exec = "raised" THEN all_ok ELSE all_ok /\ exec = "ok"
  /\ LET after == IF exec = "raised" THEN "fail" ELSE "exec_check"
     IN  IF cfg.run_collect THEN pc' = "collect_pb" /\ ret' = after
         ELSE pc' = after /\ UNCHANGED ret
  /\ UNCHANGED <<fixed, wl, state, stop_ok, attempted, outcome, plugin_up, request,
                 stopping, tailer, remote>>

\* Its result and its exceptions are both ignored.
CollectReturned ==
  /\ pc = "collect_pb" /\ Returned(Results) /\ pc' = ret
  /\ UNCHANGED <<fixed, ret, wl, state, flags, outcome, plugin_up, request, stopping,
                 tailer, remote>>

CheckAfterExecution ==
  /\ pc = "exec_check"
  /\ \/ StopSeen /\ HandleStop(LatchedState, "run_check")
     \/ /\ NoStop
        /\ pc' = IF cfg.plugin_teardown THEN "plugin_teardown_pb" ELSE "run_check"
        /\ NoHandleStop /\ UNCHANGED <<ret, state>>
  /\ UNCHANGED <<fixed, wl, exec, outcome, plugin_up, tailer, remote>>

PluginTeardownReturned ==
  /\ pc = "plugin_teardown_pb" /\ Returned(Results)
  /\ pc' = IF exec = "raised" THEN "fail" ELSE "run_check"
  /\ plugin_up' = IF exec = "raised" THEN plugin_up ELSE plugin_up \ {wl}
  /\ UNCHANGED <<fixed, ret, wl, state, flags, outcome, request, stopping, tailer,
                 remote>>

\* After run_workload_execution, whether or not it handled a stop itself.
CheckAfterRun ==
  /\ pc = "run_check"
  /\ \/ StopSeen /\ HandleStop(Armed(state), "teardown") /\ UNCHANGED wl
     \/ NoStop /\ NextWorkload /\ NoHandleStop /\ UNCHANGED <<ret, state>>
  /\ UNCHANGED <<fixed, exec, outcome, plugin_up, tailer, remote>>

-----------------------------------------------------------------------------
(* Global teardown *)

EnterTeardown ==
  /\ pc = "teardown"
  /\ state' = IF state = "running_workloads"
              THEN Moved(state, "running_global_teardown") ELSE state
  /\ pc' = IF cfg.run_teardown THEN "teardown_check" ELSE "summary"
  /\ UNCHANGED <<fixed, ret, wl, exec, flags, outcome, plugin_up, request, stopping,
                 tailer, remote>>

\* _transition_teardown_state
TeardownState(s, target) ==
  IF s \in {"stopping_teardown", "stopping_interrupt_teardown"} THEN s
  ELSE Moved(s, target)

TeardownCheck ==
  /\ pc = "teardown_check" /\ pc' = "teardown_interrupt"
  /\ \/ StopSeen /\ state' = TeardownState(Armed(state), "stopping_teardown")
     \/ NoStop /\ state' = TeardownState(state, "running_global_teardown")
  /\ UNCHANGED <<fixed, ret, wl, exec, flags, outcome, plugin_up, stopping, tailer,
                 remote>>

\* The interrupt finds no process, and run_playbook clears its flag.
MaybeInterruptTeardown ==
  /\ pc = "teardown_interrupt" /\ pc' = "teardown_pb"
  /\ \/ StopSeen /\ state' = Moved(Armed(state), "stopping_interrupt_teardown")
     \/ NoStop /\ UNCHANGED state
  /\ UNCHANGED <<fixed, ret, wl, exec, flags, outcome, plugin_up, stopping, tailer,
                 remote>>

TeardownReturned ==
  /\ pc = "teardown_pb" /\ Returned(Results)
  /\ pc' = IF exec = "raised" THEN "fail" ELSE "summary"
  /\ UNCHANGED <<fixed, ret, wl, state, flags, outcome, plugin_up, request, stopping,
                 tailer, remote>>

-----------------------------------------------------------------------------
(* The verdict: build_summary moves the machine, then reads it twice. *)

\* Bug: a stopped run is aborted whether or not the protocol succeeded.
BuildAborted ==
  /\ pc = "summary" /\ pc' = "summary_state"
  /\ \/ StopSeen /\ state' = Moved(Armed(state), "aborted")
     \/ /\ NoStop
        /\ state' = Moved(state, IF all_ok THEN "finished" ELSE "failed")
  /\ UNCHANGED <<fixed, ret, wl, exec, flags, outcome, plugin_up, stopping, tailer,
                 remote>>

\* Bug: the verdict is read off the flags alone.
BuildUnasked ==
  /\ pc = "summary" /\ pc' = "summary_state"
  /\ state' = Moved(state, IF all_ok THEN "finished" ELSE "failed")
  /\ UNCHANGED <<fixed, ret, wl, exec, flags, outcome, plugin_up, request, stopping, tailer,
                 remote>>

BuildSummary ==
  /\ pc = "summary" /\ pc' = "summary_state"
  /\ \/ /\ StopSeen
        /\ state' = Moved(Armed(state),
                          IF stop_ok THEN "aborted" ELSE "stop_failed")
     \/ /\ NoStop
        /\ state' = Moved(state, IF all_ok THEN "finished" ELSE "failed")
  /\ UNCHANGED <<fixed, ret, wl, exec, flags, outcome, plugin_up, stopping, tailer,
                 remote>>

ReadState ==
  /\ pc = "summary_state" /\ pc' = "summary_cleanup"
  /\ summary' = [summary EXCEPT !.state = state, !.success = all_ok /\ stop_ok]
  /\ UNCHANGED <<fixed, ret, wl, exec, state, flags, raised, plugin_up, request,
                 stopping, tailer, remote>>

ReadCleanup ==
  /\ pc = "summary_cleanup" /\ pc' = "finalize"
  /\ summary' = [summary EXCEPT !.cleanup = state \in AllowsCleanup]
  /\ UNCHANGED <<fixed, ret, wl, exec, state, flags, raised, plugin_up, request,
                 stopping, tailer, remote>>

\* Bug: the terminal states are not tested first.
FinalizeAgain ==
  /\ pc = "finalize"
  /\ \/ StopSeen /\ state' = "aborted" /\ pc' = "done"
     \/ /\ NoStop
        /\ IF CanMove(state, "finished") THEN state' = "finished" /\ pc' = "done"
           ELSE pc' = "fail" /\ UNCHANGED state
  /\ UNCHANGED <<fixed, ret, wl, exec, flags, outcome, plugin_up, stopping, tailer,
                 remote>>

\* ControllerRunner._finalize_success: an invalid move raises here.
FinalizeSuccess ==
  /\ pc = "finalize"
  /\ \/ /\ state \in Terminal /\ pc' = "done" /\ UNCHANGED <<state, request>>
     \/ /\ state \notin Terminal /\ StopSeen
        /\ state' = "aborted" /\ pc' = "done"
     \/ /\ state \notin Terminal /\ NoStop
        /\ IF CanMove(state, "finished") THEN state' = "finished" /\ pc' = "done"
           ELSE pc' = "fail" /\ UNCHANGED state
  /\ UNCHANGED <<fixed, ret, wl, exec, flags, outcome, plugin_up, stopping, tailer,
                 remote>>

\* Bug: the exception is recorded and the machine left where it was.
FailSilently ==
  /\ pc = "fail" /\ pc' = "done" /\ raised' = TRUE
  /\ UNCHANGED <<fixed, ret, wl, exec, state, flags, summary, plugin_up, request,
                 stopping, tailer, remote>>

\* ControllerRunner._handle_failure
HandleFailure ==
  /\ pc = "fail" /\ pc' = "done" /\ raised' = TRUE
  /\ \/ StopSeen /\ state' = IF state \in Terminal THEN state ELSE "aborted"
     \/ NoStop /\ state' = IF state \in Terminal THEN state ELSE "failed"
  /\ UNCHANGED <<fixed, ret, wl, exec, flags, summary, plugin_up, stopping, tailer,
                 remote>>

Controller ==
  \/ Launch \/ Terminate \/ Complete
  \/ EnterInitialState \/ CheckBeforeSetup \/ SetupReturned \/ ArmCheck
  \/ LoopTop \/ StartWorkload \/ PluginSetupReturned \/ PluginUndoReturned
  \/ CheckBeforeRun \/ RunReturned \/ CollectReturned \/ CheckAfterExecution
  \/ PluginTeardownReturned \/ CheckAfterRun
  \/ StopPlaybookReturned \/ SeeTimeout \/ Expire \/ StopProtocolReturns
  \/ EnterTeardown \/ TeardownCheck \/ MaybeInterruptTeardown \/ TeardownReturned
  \/ BuildSummary \/ ReadState \/ ReadCleanup \/ FinalizeSuccess \/ HandleFailure

controllerSide == <<fixed, pc, ret, wl, exec, flags, outcome, plugin_up>>

-----------------------------------------------------------------------------
(* The UI thread: ControllerRunner.arm_stop arms the machine, then sets the
   token, whose callback announces the stop. *)

ArmStop ==
  /\ ui = "idle" /\ ui' = "armed"
  /\ state' = Armed(state)
  /\ UNCHANGED <<controllerSide, token, stop_file, stopping, tailer, remote>>

RequestStop ==
  /\ ui = "armed" /\ token' = TRUE
  /\ ui' = IF token THEN "announced" ELSE "flagged"
  /\ UNCHANGED <<controllerSide, state, stop_file, stopping, tailer, remote>>

AnnounceStop ==
  /\ ui = "flagged" /\ ui' = "announced"
  /\ state' = Armed(state)
  /\ UNCHANGED <<controllerSide, token, stop_file, stopping, tailer, remote>>

\* Anyone may create the configured stop file.
TouchStopFile ==
  /\ cfg.stop_file /\ ~stop_file /\ stop_file' = TRUE
  /\ UNCHANGED <<controllerSide, state, token, ui, stopping, tailer, remote>>

-----------------------------------------------------------------------------
(* The hosts.  While the run playbook is up, the role of every host launches
   one detached LocalRunner per repetition, polls it, and copies its final
   event to the controller's event log. *)

StartRep(h) ==
  /\ Attended /\ h \notin lost /\ left[h] > 0 /\ runner[h] = "idle"
  /\ runner' = [runner EXCEPT ![h] = "running"]
  /\ UNCHANGED <<controllerSide, state, request, stopping, tailer, orphan, left, lost>>

RepExits(h) ==
  /\ \/ /\ runner[h] = "running"
        /\ runner' = [runner EXCEPT ![h] = "exited"] /\ UNCHANGED orphan
     \/ h \in orphan /\ orphan' = orphan \ {h} /\ UNCHANGED runner
  /\ UNCHANGED <<controllerSide, state, request, stopping, tailer, left, lost>>

\* The poll sees the final event: "done" counts the repetition, "failed" ends
\* the host's part of the play.
RelayRep(h) ==
  /\ Attended /\ runner[h] = "exited"
  /\ runner' = [runner EXCEPT ![h] = "idle"]
  /\ unread' = [unread EXCEPT ![h] = @ + 1]
  /\ \/ left' = [left EXCEPT ![h] = @ - 1] /\ UNCHANGED lost
     \/ left' = [left EXCEPT ![h] = 0] /\ lost' = lost \cup {h}
  /\ UNCHANGED <<controllerSide, state, request, stopping, ingest, orphan>>

\* Bug: the role goes on waiting for the repetitions of a host it lost.
LoseHostOnly(h) ==
  /\ Attended /\ h \notin lost
  /\ lost' = lost \cup {h} /\ UNCHANGED <<left, unread>>
  /\ runner' = [runner EXCEPT ![h] = "idle"]
  /\ orphan' = IF runner[h] = "running" THEN orphan \cup {h} ELSE orphan
  /\ UNCHANGED <<controllerSide, state, request, stopping, ingest>>

\* The role leaves a host: unreachable (no event), or the poll timed out
\* ("failed").  What runs there keeps running.
LoseHost(h) ==
  /\ Attended /\ h \notin lost
  /\ lost' = lost \cup {h} /\ left' = [left EXCEPT ![h] = 0]
  /\ runner' = [runner EXCEPT ![h] = "idle"]
  /\ orphan' = IF runner[h] = "running" THEN orphan \cup {h} ELSE orphan
  /\ \/ UNCHANGED unread
     \/ runner[h] = "running" /\ unread' = [unread EXCEPT ![h] = @ + 1]
  /\ UNCHANGED <<controllerSide, state, request, stopping, ingest>>

-----------------------------------------------------------------------------
(* The tailer thread reads a confirming line and hands it to process_event,
   which tests the state first and records the confirmation after. *)

TailRead(h) ==
  /\ ingest = NoHost /\ unread[h] > 0
  /\ unread' = [unread EXCEPT ![h] = @ - 1]
  /\ ingest' = IF coord = "STOPPING_WORKLOADS" THEN h ELSE NoHost
  /\ UNCHANGED <<controllerSide, state, request, stopping, remote>>

TailConfirm ==
  /\ ingest # NoHost /\ ingest' = NoHost
  /\ confirmed' = confirmed \cup {ingest}
  /\ coord' = IF Hosts \subseteq confirmed' /\ ingest \notin confirmed
              THEN "TEARDOWN_READY" ELSE coord
  /\ UNCHANGED <<controllerSide, state, request, unread, remote>>

-----------------------------------------------------------------------------
UserInterface == ArmStop \/ RequestStop \/ AnnounceStop

Remote == \E h \in Hosts : StartRep(h) \/ RepExits(h) \/ RelayRep(h) \/ LoseHost(h)

Tailer == TailConfirm \/ \E h \in Hosts : TailRead(h)

\* Nothing but the hosts and the tailer moves once the controller is done.
Finished == pc = "done" /\ UNCHANGED vars

Next == Controller \/ UserInterface \/ TouchStopFile \/ Remote \/ Tailer \/ Finished

Spec == Init /\ [][Next]_vars

\* The controller thread is scheduled, and every playbook but the run playbook
\* ends; the UI thread finishes the arm_stop it began.
FairSpec == Spec /\ WF_vars(Controller) /\ WF_vars(RequestStop) /\ WF_vars(AnnounceStop)

-----------------------------------------------------------------------------
(* Properties *)

\* The run seen by the client: it is closed when its summary is complete or its
\* exception is set, and destroys the nodes when cleanup is allowed.
Closed == pc \in {"finalize", "done"} \/ (summary # NoSummary /\ pc = "fail")

Promise == INSTANCE RunOutcome WITH
  phase <- IF Closed THEN "closed" ELSE IF attempted THEN "stopping" ELSE "working",
  busy <- {h \in Hosts : runner[h] = "running"},
  acks <- confirmed,
  verdict <- IF ~Closed THEN "none" ELSE IF summary.cleanup THEN "destroy" ELSE "keep"

\* The controller keeps the promise of RunOutcome to the client that destroys or
\* keeps the nodes (client.py _cleanup_provisioning).
KeepsPromise == Promise!Spec

\* Cleanup of the nodes after a stop protocol is only ever authorised when every
\* host confirmed (build_summary, allows_cleanup; the consumer destroys nodes).
CleanupOnlyWhenConfirmed ==
  summary.cleanup /\ attempted => confirmed = Hosts

\* When the controller thread ends, the machine is in a terminal state, the waiting
\* thread has a summary or an exception to return, and a summary, whose state and
\* cleanup flag are two reads of the machine, answers for the cleanup as its state
\* does (build_summary, _handle_failure).
DoneIsTerminal ==
  pc = "done" =>
    /\ state \in Terminal /\ (raised \/ summary # NoSummary)
    /\ summary # NoSummary => (summary.cleanup <=> summary.state \in AllowsCleanup)

\* Nothing was stopped, every workload had its turn, no host was lost, and no
\* LocalRunner is running, attended or abandoned.
Undisturbed ==
  /\ ~attempted /\ all_ok /\ wl = Workloads + 1
  /\ orphan = {} /\ \A h \in Hosts : runner[h] = "idle"

\* A run is only reported finished when nobody has asked it to stop, by arm_stop
\* or by the file, whichever check would have seen it, the one of a setup that
\* empties the workloads included; and it is undisturbed then and from then on
\* (_run_global_setup, build_summary).
FinishedIsQuiet ==
  [][ /\ state # "finished" /\ state' = "finished" =>
            ui = "idle" /\ ~token /\ ~stop_file
      /\ state' = "finished" => Undisturbed' ]_vars

\* finished and aborted are never left, whoever asks; a failed stop becomes
\* aborted only when the late confirmations of all hosts have come in.
VerdictsKept ==
  [][ /\ (state \in AllowsCleanup => state' = state)
      /\ (state = "stop_failed" =>
             \/ state' = state
             \/ state' = "aborted" /\ confirmed = Hosts) ]_vars

\* Once the stop protocol has begun, no host launches another repetition:
\* not in the nested call that handled the stop, nor in the loop around it.
NoWorkAfterStop ==
  [][attempted => \A h \in Hosts : runner'[h] = "running" => runner[h] = "running"]_vars

\* Only what the log held when the protocol began can confirm a stop: the run
\* playbook, which relays the runners' events, is gone by then (stop_logic.py).
ConfirmationsPredateStop ==
  [][coord = "STOPPING_WORKLOADS" => \A h \in Hosts : unread'[h] <= unread[h]]_vars

\* What process_event says of the hosts it takes for confirmed, and what a stop
\* that first asks and then waits would give: their runners have ceased execution
\* for the current workload.
ConfirmedHaveCeased ==
  \A h \in confirmed : h \notin orphan /\ runner[h] # "running"

\* A stop that is armed ends the run even if every remote runner hangs: no wait of
\* the stop path depends on one.
StopEndsRun == (ui = "armed") ~> (pc = "done")

\* The role attends each host until its runner exits or the poll times out.
AttendsHosts ==
  \A h \in Hosts : WF_vars(StartRep(h)) /\ WF_vars(RelayRep(h)) /\ WF_vars(LoseHost(h))

\* Without any stop the run ends too, hung runners included, because the poll
\* of a repetition times out.
RunEnds == AttendsHosts => <>(pc = "done")
=============================================================================
