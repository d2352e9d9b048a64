-------------------------- MODULE ControllerStates --------------------------
(***************************************************************************)
(* The controller's state machine (lb_controller/models/state.py): the     *)
(* states of a run, the transition table, and what a request to move does. *)
(***************************************************************************)

\* ControllerState
States == {"init", "running_global_setup", "running_workloads",
           "running_global_teardown", "stop_armed", "stopping_interrupt_setup",
           "stopping_wait_runners", "stopping_teardown",
           "stopping_interrupt_teardown",
           "finished", "aborted", "stop_failed", "failed"}

\* _TERMINAL_STATES
Terminal == {"finished", "aborted", "stop_failed", "failed"}

\* ControllerStateMachine.allows_cleanup
AllowsCleanup == {"finished", "aborted"}

\* _ALLOWED_TRANSITIONS
Allowed ==
  [s \in States |->
     CASE s = "init" ->
            {"running_global_setup", "running_workloads",
             "running_global_teardown", "stop_armed", "finished", "aborted",
             "failed"}
       [] s = "running_global_setup" ->
            {"running_workloads", "running_global_teardown", "stop_armed",
             "stopping_interrupt_setup", "failed"}
       [] s = "running_workloads" ->
            {"running_global_teardown", "stop_armed", "stopping_wait_runners",
             "failed"}
       [] s = "running_global_teardown" ->
            {"finished", "stop_armed", "stopping_interrupt_teardown", "failed"}
       [] s = "stop_armed" ->
            {"stopping_interrupt_setup", "stopping_wait_runners",
             "stopping_interrupt_teardown", "stopping_teardown", "aborted",
             "failed"}
       [] s = "stopping_interrupt_setup" ->
            {"stopping_teardown", "aborted", "stop_failed", "failed"}
       [] s = "stopping_wait_runners" ->
            {"stopping_teardown", "stop_failed", "failed"}
       [] s \in {"stopping_teardown", "stopping_interrupt_teardown"} ->
            {"aborted", "stop_failed", "failed"}
       [] OTHER -> {}]

\* The targets transition() accepts from every state, terminal ones included.
Overrides == {"failed", "aborted", "stop_failed"}

CanMove(s, t) == t \in Allowed[s] \cup Overrides

\* RunSession.transition: an invalid move is logged and dropped.
Moved(s, t) == IF CanMove(s, t) THEN t ELSE s

\* RunSession.arm_stop, and the STOP_ARMED attempts of the UI thread.
Armed(s) == Moved(s, "stop_armed")
=============================================================================
