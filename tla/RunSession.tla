----------------------------- MODULE RunSession -----------------------------
(***************************************************************************)
(* One `lb run' and the `lb resume's after it, as processes on the         *)
(* operator's machine: ApplicationClient.start_run provisions the nodes,   *)
(* prepares the session, drives the controller's worker thread under the   *)
(* double Ctrl-C handler, and destroys or keeps the nodes.  A signal is    *)
(* handled in the main thread between two of its steps; the timer that     *)
(* withdraws the first warning is a thread of its own.                     *)
(*                                                                         *)
(* Of the worker thread only what this side sees is kept: the moves of its *)
(* state machine, and how it ends.  ControllerRun has the rest.            *)
(***************************************************************************)
EXTENDS ControllerStates, Naturals, Sequences

CONSTANTS
  Modes,       \* the execution modes tried, a subset of ExecutionModes
  Nodes,       \* nodes of the run, MAX_NODES at most
  Processes,   \* bound: the run and its resumptions
  Presses      \* bound: Ctrl-C in one process

ExecutionModes == {"remote", "docker", "multipass"}

ASSUME ModesAssumption == Modes \subseteq ExecutionModes
ASSUME NodesAssumption == Nodes \in Nat \ {0}
ASSUME BoundsAssumption == Processes \in Nat \ {0} /\ Presses \in Nat

Node == 1 .. Nodes
Process == 1 .. Processes
Maybe == {0} \cup Process     \* the process something is of; 0 for none

VARIABLES
  mode, proc,          \* execution mode; the process that is running
  vm, keys, injected,  \* of each node: the process that made the container or
                       \* VM, the key files, the key the node lets in
  dump, pending,       \* the journal: whose hosts its config_dump has; work left
  pc, idx,             \* the main thread, and the node it is at
  hosts,               \* context.config.remote_hosts: the process they are of
  result,              \* run_result.summary, as _cleanup_provisioning reads it
  unprovisioned,       \* history: the provisioner raised
  half,                \* history: the node that a launch made and then raised
  sm, queue, presses,  \* DoubleCtrlCStateMachine, the events of its handler
  timer, clearing,     \* the warning timer is set; it is inside reset_arm
  state, token,        \* ControllerStateMachine, StopToken
  worker, summary      \* the thread of ControllerRunner and its _result

world == <<vm, keys, injected, dump, pending>>
process == <<mode, proc>>
failure == <<unprovisioned, half>>
main == <<pc, idx, hosts, result, failure>>
ctrlc == <<sm, queue, presses, timer, clearing>>
controller == <<state, token, worker, summary>>
vars == <<process, world, main, ctrlc, controller>>

Provisioning == {"begin", "keygen", "launch", "fallback", "reach", "undo", "rollback"}
Handled == {"drain", "wait", "leave"}
Points == Provisioning \cup Handled
            \cup {"prepare", "check", "enter", "complete", "close", "cleanup", "over"}
Verdict == {"none", "keep", "destroy"}

WorldTypes ==
  /\ vm \in [Node -> Maybe] /\ keys \in [Node -> Maybe] /\ injected \in [Node -> Maybe]
  /\ dump \in Maybe /\ pending \in BOOLEAN
  /\ mode = "remote" => \A n \in Node : vm[n] = 0 /\ keys[n] = 0
MainTypes ==
  /\ mode \in Modes /\ proc \in Process
  /\ pc \in Points /\ idx \in 0 .. Nodes /\ hosts \in Maybe
  /\ result \in Verdict /\ unprovisioned \in BOOLEAN /\ half \in 0 .. Nodes
CtrlCTypes ==
  /\ sm \in {"running", "stop_armed", "stopping", "finished"}
  /\ queue \in Seq({"warn", "stop"}) /\ Len(queue) <= Presses
  /\ presses \in 0 .. Presses /\ timer \in BOOLEAN /\ clearing \in BOOLEAN
ControllerTypes ==
  /\ state \in States /\ token \in BOOLEAN
  /\ worker \in {"idle", "running", "returned", "done", "raised"} /\ summary \in Verdict

TypeOK == WorldTypes /\ MainTypes /\ CtrlCTypes /\ ControllerTypes

Nowhere == [n \in Node |-> 0]

Init ==
  /\ mode \in Modes /\ proc = 1
  /\ vm = Nowhere /\ keys = Nowhere /\ injected = Nowhere
  /\ dump = 0 /\ pending = TRUE
  /\ pc = "begin" /\ idx = 0 /\ hosts = 0 /\ result = "none"
  /\ unprovisioned = FALSE /\ half = 0
  /\ sm = "running" /\ queue = <<>> /\ presses = 0 /\ timer = FALSE /\ clearing = FALSE
  /\ state = "init" /\ token = FALSE /\ worker = "idle" /\ summary = "none"

GoTo(point) == pc' = point

-----------------------------------------------------------------------------
(* Provisioning: one node after the other *)

\* The hosts are not reachable, there are none or too many, the engine is not
\* installed, the names of the run to resume are not found.
Begin ==
  /\ pc = "begin"
  /\ \/ GoTo("over") /\ UNCHANGED idx
     \/ mode = "remote" /\ GoTo("prepare") /\ UNCHANGED idx
     \/ mode # "remote" /\ GoTo("keygen") /\ idx' = 1
  /\ UNCHANGED <<process, world, hosts, result, failure, ctrlc, controller>>

\* ssh-keygen asks before it overwrites a key; what it reads is the terminal of
\* lb, whose user is not shown the question.
Keygen ==
  /\ pc = "keygen"
  /\ \/ keys' = [keys EXCEPT ![idx] = proc] /\ GoTo("launch")
     \/ GoTo("undo") /\ UNCHANGED keys
  /\ UNCHANGED <<process, vm, injected, dump, pending, idx, hosts, result, failure,
                 ctrlc, controller>>

\* One launch of a node.  It cannot have a name that is taken; it may make the
\* node and raise all the same, or raise having made none.
Launch(onFailure) ==
  /\ \/ /\ vm[idx] = 0 /\ vm' = [vm EXCEPT ![idx] = proc]
        /\ injected' = [injected EXCEPT ![idx] = 0]
        /\ \/ GoTo("reach") /\ UNCHANGED half
           \/ GoTo(onFailure) /\ half' = idx
     \/ GoTo(onFailure) /\ UNCHANGED <<vm, injected, half>>
  /\ UNCHANGED <<process, keys, dump, pending, idx, hosts, result, unprovisioned, ctrlc,
                 controller>>

\* docker run, or multipass launch.  A resumed run takes the names it had: a
\* node that was kept is in the way.
LaunchNode ==
  pc = "launch" /\ Launch(IF mode = "multipass" THEN "fallback" ELSE "undo")

\* The second launch, of the image "lts" under the same name: a VM that the
\* first one left is in its way.
Fallback == pc = "fallback" /\ Launch("undo")

\* Its address, the key, the wait for SSH.
Reach ==
  /\ pc = "reach"
  /\ \/ /\ injected' = [injected EXCEPT ![idx] = keys[idx]]
        /\ IF idx < Nodes THEN GoTo("keygen") /\ idx' = idx + 1
                          ELSE GoTo("prepare") /\ UNCHANGED idx
        /\ UNCHANGED vm
     \/ GoTo("undo") /\ UNCHANGED <<vm, injected, idx>>
     \/ GoTo("undo") /\ vm' = [vm EXCEPT ![idx] = 0] /\ UNCHANGED <<injected, idx>>
  /\ UNCHANGED <<process, keys, dump, pending, hosts, result, failure, ctrlc,
                 controller>>

Removed(f, n) == [f EXCEPT ![n] = 0]

\* The node at hand: destroyed when resource_started, which a launch that raised
\* has not set, its key files removed in any case.  (rm and delete are taken to
\* succeed, their failure is ignored.)
Undo ==
  /\ pc = "undo" /\ GoTo("rollback") /\ idx' = idx - 1
  /\ keys' = Removed(keys, idx)
  /\ vm' = IF vm[idx] = proc /\ half # idx THEN Removed(vm, idx) ELSE vm
  /\ UNCHANGED <<process, injected, dump, pending, hosts, result, failure, ctrlc,
                 controller>>

\* Bug: the nodes that were ready are left as they are.
RollbackNothing ==
  /\ pc = "rollback" /\ GoTo("over") /\ unprovisioned' = TRUE
  /\ UNCHANGED <<process, world, idx, hosts, result, half, ctrlc, controller>>

\* _rollback_nodes, in reversed order; start_run warns and returns None.
Rollback ==
  /\ pc = "rollback"
  /\ \/ /\ idx > 0 /\ idx' = idx - 1
        /\ vm' = Removed(vm, idx) /\ keys' = Removed(keys, idx)
        /\ UNCHANGED <<pc, unprovisioned>>
     \/ /\ idx = 0 /\ GoTo("over") /\ unprovisioned' = TRUE
        /\ UNCHANGED <<idx, vm, keys>>
  /\ UNCHANGED <<process, injected, dump, pending, hosts, result, half, ctrlc, controller>>

-----------------------------------------------------------------------------
(* The session and its loop *)

\* A new journal records the configuration with the nodes just made; the one of
\* a resumed run brings back the configuration it was written with, or is bad.
Prepare ==
  /\ pc = "prepare"
  /\ \/ /\ dump = 0 /\ dump' = proc /\ hosts' = proc /\ GoTo("check")
     \/ /\ dump # 0 /\ hosts' = dump /\ GoTo("check") /\ UNCHANGED dump
     \/ GoTo("cleanup") /\ UNCHANGED <<dump, hosts>>
  /\ UNCHANGED <<process, vm, keys, injected, pending, idx, result, failure, ctrlc,
                 controller>>

\* Nothing left to do: a result without a summary.
Check ==
  /\ pc = "check" /\ GoTo(IF pending THEN "enter" ELSE "close")
  /\ UNCHANGED <<process, world, idx, hosts, result, failure, ctrlc, controller>>

\* The handler is installed, then the worker thread started.
Enter ==
  /\ pc = "enter" /\ GoTo("drain") /\ worker' = "running"
  /\ UNCHANGED <<process, world, idx, hosts, result, failure, ctrlc, state, token, summary>>

\* Bug: a warning on its way to the screen takes the rest of the queue with it.
DrainWarningOnly ==
  /\ pc = "drain"
  /\ \/ queue = <<>> /\ GoTo("wait") /\ UNCHANGED <<queue, timer, state, token>>
     \/ /\ queue # <<>> /\ queue' = <<>> /\ UNCHANGED pc
        /\ \/ Head(queue) = "warn" /\ timer' = TRUE /\ UNCHANGED <<state, token>>
           \/ /\ Head(queue) = "stop" /\ state' = Armed(state) /\ token' = TRUE
              /\ UNCHANGED timer
  /\ UNCHANGED <<process, world, idx, hosts, result, failure, sm, presses, clearing,
                 worker, summary>>

\* _drain_ctrlc_events: a warning sets its timer anew, a stop arms the
\* controller and sets the token (in two steps; ControllerRun has them).
Drain ==
  /\ pc = "drain"
  /\ \/ queue = <<>> /\ GoTo("wait") /\ UNCHANGED <<queue, timer, state, token>>
     \/ /\ queue # <<>> /\ queue' = Tail(queue) /\ UNCHANGED pc
        /\ \/ Head(queue) = "warn" /\ timer' = TRUE /\ UNCHANGED <<state, token>>
           \/ /\ Head(queue) = "stop" /\ state' = Armed(state) /\ token' = TRUE
              /\ UNCHANGED timer
  /\ UNCHANGED <<process, world, idx, hosts, result, failure, sm, presses, clearing,
                 worker, summary>>

\* runner.wait(timeout=0.2), which raises what the worker raised.
Wait ==
  /\ pc = "wait"
  /\ \/ worker = "done" /\ GoTo("leave") /\ result' = summary
     \/ worker = "raised" /\ GoTo("leave") /\ UNCHANGED result
     \/ worker \notin {"done", "raised"} /\ GoTo("drain") /\ UNCHANGED result
  /\ UNCHANGED <<process, world, idx, hosts, failure, ctrlc, controller>>

\* SigintDoublePressHandler.__exit__, on the way out or up.
Leave ==
  /\ pc = "leave" /\ sm' = "finished"
  /\ GoTo(IF result # "none" THEN "complete" ELSE "close")
  /\ UNCHANGED <<process, world, idx, hosts, result, failure, queue, presses, timer,
                 clearing, controller>>

\* _handle_run_completion: the tasks a stop left running are failed and saved.
Complete ==
  /\ pc = "complete" /\ GoTo("close")
  /\ pending' \in (IF token THEN {TRUE} ELSE {pending})
  /\ UNCHANGED <<process, vm, keys, injected, dump, idx, hosts, result, failure, ctrlc,
                 controller>>

\* The finally blocks: the timer is cancelled, the tailer and the files closed.
Close ==
  /\ pc = "close" /\ GoTo("cleanup") /\ timer' = FALSE
  /\ UNCHANGED <<process, world, idx, hosts, result, failure, sm, queue, presses,
                 clearing, controller>>

\* Bug: no result is taken for a run that needs its nodes no more.
CleanupUnlessKept ==
  /\ pc = "cleanup"
  /\ \/ \E n \in Node : /\ result # "keep" /\ vm[n] = proc
                        /\ vm' = Removed(vm, n) /\ keys' = Removed(keys, n) /\ UNCHANGED pc
     \/ /\ result # "keep" => \A n \in Node : vm[n] # proc
        /\ GoTo("over") /\ UNCHANGED <<vm, keys>>
  /\ UNCHANGED <<process, injected, dump, pending, idx, hosts, result, failure, ctrlc,
                 controller>>

\* _cleanup_provisioning: destroy_all, or leave the nodes for inspection.
Cleanup ==
  /\ pc = "cleanup"
  /\ \/ \E n \in Node : /\ result = "destroy" /\ vm[n] = proc
                        /\ vm' = Removed(vm, n) /\ keys' = Removed(keys, n) /\ UNCHANGED pc
     \/ /\ result = "destroy" => \A n \in Node : vm[n] # proc
        /\ GoTo("over") /\ UNCHANGED <<vm, keys>>
  /\ UNCHANGED <<process, injected, dump, pending, idx, hosts, result, failure, ctrlc,
                 controller>>

Main ==
  \/ Begin \/ Keygen \/ LaunchNode \/ Fallback \/ Reach \/ Undo \/ Rollback
  \/ Prepare \/ Check \/ Enter \/ Drain \/ Wait \/ Leave \/ Complete \/ Close \/ Cleanup

-----------------------------------------------------------------------------
(* Ctrl-C *)

\* on_sigint: what the state machine makes of the signal while the run is
\* active.  The queue is all that the handler touches of the loop.
OnSigint ==
  \/ /\ sm = "running" /\ sm' = "stop_armed" /\ queue' = Append(queue, "warn")
  \/ /\ sm = "stop_armed" /\ sm' = "stopping" /\ queue' = Append(queue, "stop")
  \/ /\ sm = "stopping" /\ UNCHANGED <<sm, queue>>

\* Where a KeyboardInterrupt takes the main thread: no provisioner catches it,
\* the finally clauses from the session on do.
Interrupted ==
  IF pc \in Provisioning \cup {"cleanup"} THEN "over"
  ELSE IF pc \in {"prepare", "close"} THEN "cleanup"
  ELSE IF pc \in Handled THEN "leave" ELSE "close"

Press ==
  /\ pc # "over" /\ presses < Presses /\ presses' = presses + 1
  /\ \/ /\ pc \in Handled /\ state \notin Terminal /\ sm # "finished"
        /\ OnSigint /\ UNCHANGED <<pc, result>>
     \/ /\ ~(pc \in Handled /\ state \notin Terminal /\ sm # "finished")
        /\ GoTo(Interrupted) /\ result' = "none" /\ UNCHANGED <<sm, queue>>
  /\ UNCHANGED <<process, world, idx, hosts, failure, timer, clearing, controller>>

\* Ten seconds after the warning: reset_arm tests the state, and sets it, in a
\* thread that no cancel() reaches any more.
TimerFires ==
  /\ timer /\ pc # "over" /\ timer' = FALSE
  /\ clearing' = (clearing \/ sm = "stop_armed")
  /\ UNCHANGED <<process, world, main, sm, queue, presses, controller>>

TimerResets ==
  /\ clearing /\ pc # "over" /\ clearing' = FALSE /\ sm' = "running"
  /\ UNCHANGED <<process, world, main, queue, presses, timer, controller>>

-----------------------------------------------------------------------------
(* The worker thread, as far as it is seen from here *)

\* A run without setup goes through these; the others add nothing here.
Seen == {"running_workloads", "running_global_teardown", "stopping_wait_runners",
         "stopping_teardown", "aborted", "stop_failed", "failed", "finished"}

WorkerMoves ==
  /\ worker = "running" /\ \E t \in Seen \ {state} : CanMove(state, t) /\ state' = t
  /\ UNCHANGED <<process, world, main, ctrlc, token, worker, summary>>

\* build_summary reads whether cleanup is allowed.
WorkerReturns ==
  /\ worker = "running" /\ worker' = "returned"
  /\ summary' = (IF state \in AllowsCleanup THEN "destroy" ELSE "keep")
  /\ pending' \in BOOLEAN
  /\ UNCHANGED <<process, vm, keys, injected, dump, main, ctrlc, state, token>>

Verdicted == IF token THEN "aborted" ELSE "finished"

\* _finalize_success; a move that the table forbids is an exception.
WorkerFinalizes ==
  /\ worker = "returned"
  /\ \/ state \in Terminal /\ worker' = "done" /\ UNCHANGED state
     \/ /\ state \notin Terminal /\ CanMove(state, Verdicted)
        /\ worker' = "done" /\ state' = Verdicted
     \/ /\ state \notin Terminal /\ ~CanMove(state, Verdicted)
        /\ worker' = "raised" /\ state' = "failed"
  /\ UNCHANGED <<process, world, main, ctrlc, token, summary>>

\* _handle_failure
WorkerFails ==
  /\ worker = "running" /\ worker' = "raised"
  /\ state' = (IF state \in Terminal THEN state ELSE IF token THEN "aborted" ELSE "failed")
  /\ UNCHANGED <<process, world, main, ctrlc, token, summary>>

Worker == WorkerReturns \/ WorkerFinalizes \/ WorkerFails

-----------------------------------------------------------------------------
(* The process and its successors *)

\* A kept container that stops is removed, a kept VM may be deleted.
LoseNode ==
  /\ pc = "over" /\ \E n \in Node : vm[n] # 0 /\ vm' = Removed(vm, n)
  /\ UNCHANGED <<process, keys, injected, dump, pending, main, ctrlc, controller>>

\* lb resume, once there is a journal; the worker was a daemon of its process.
Resume ==
  /\ pc = "over" /\ proc < Processes /\ dump # 0
  /\ proc' = proc + 1 /\ UNCHANGED <<mode, world>>
  /\ pc' = "begin" /\ idx' = 0 /\ hosts' = 0 /\ result' = "none"
  /\ unprovisioned' = FALSE /\ half' = 0
  /\ sm' = "running" /\ queue' = <<>> /\ presses' = 0 /\ timer' = FALSE /\ clearing' = FALSE
  /\ state' = "init" /\ token' = FALSE /\ worker' = "idle" /\ summary' = "none"

Finished == pc = "over" /\ UNCHANGED vars

Next ==
  \/ Main \/ Press \/ TimerFires \/ TimerResets \/ WorkerMoves \/ Worker
  \/ LoseNode \/ Resume \/ Finished

Spec == Init /\ [][Next]_vars

\* The main thread is scheduled, its waits being bounded, and a worker that has
\* a stop to see comes to an end (ControllerRun.StopEndsRun).  Without one it may
\* hang for ever with its hosts.
FairSpec == Spec /\ WF_vars(Main) /\ WF_vars(WorkerFinalizes) /\ WF_vars(token /\ Worker)

-----------------------------------------------------------------------------
(* Properties *)

\* A node of this process is only destroyed while no run is using it: either
\* its run is over, and no Ctrl-C took the main thread out of the loop before,
\* or it was never started (client.py, _cleanup_provisioning).
NotUnderRun ==
  [][\A n \in Node : vm[n] = proc /\ vm'[n] = 0 /\ pc # "over"
       => worker \in {"idle", "done"}]_vars

\* A provisioner that raises leaves no key files of its own and no node, however
\* many were ready and wherever it failed; but for the one node of a launch that
\* made it and raised, which nothing removes (docker.py and multipass.py,
\* resource_started, _rollback_nodes).
FailedProvisionRollsBack ==
  pc = "over" /\ unprovisioned =>
    \A n \in Node : keys[n] # proc /\ (vm[n] = proc => n = half)

\* A stop that a second Ctrl-C confirmed ends the process, even when the run
\* hangs: no warning, timer or third Ctrl-C gets between the handler, the loop
\* and the token (execution_loop.py, _drain_ctrlc_events).
ConfirmedStopEnds == (\E i \in 1 .. Len(queue) : queue[i] = "stop") ~> pc = "over"
=============================================================================
