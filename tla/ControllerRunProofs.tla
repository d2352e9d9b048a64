------------------------- MODULE ControllerRunProofs -------------------------
(***************************************************************************)
(* Theorems about ControllerRun, for every set of hosts, number of         *)
(* workloads and repetitions, every configuration and every journal: its   *)
(* types and the shape of the thread, the stop protocol, the outcome a run *)
(* ends with, and the promise of RunOutcome, which it keeps.               *)
(***************************************************************************)
EXTENDS ControllerRun, TLAPS

\* The points of the controller thread inside _process_single_workload, the stop
\* protocol run_workload_execution may enter included.
InWorkload ==
  \/ pc \in {"workload", "plugin_setup_pb", "plugin_undo_pb", "plugin_check", "run_pb",
             "collect_pb", "exec_check", "plugin_teardown_pb", "run_check"}
  \/ pc \in {"stop_pb", "stop_wait", "stop_expire"} /\ ret \in {"run_check", "exec_check"}

WorkloadInRange == InWorkload => wl <= Workloads

\* Only the run playbook attends runners, and only for repetitions it owes.
Attending == \A h \in Hosts : runner[h] # "idle" => Attended /\ left[h] > 0

\* TypeOK alone is not inductive: the workload index and the count of
\* repetitions stay in range because of where the thread is.
ThreadInv == TypeOK /\ WorkloadInRange /\ Attending

\* A step that leaves the controller, the user and the token alone keeps the
\* types, once it has given the hosts and the tailer values of theirs.
LEMMA RemoteTypes ==
  ASSUME TypeOK,
         UNCHANGED <<cfg, pending, pc, ret, wl, exec, state, all_ok, stop_ok, attempted, summary,
                     raised, plugin_up, token, stop_file, ui>>,
         coord' \in {"IDLE", "STOPPING_WORKLOADS", "TEARDOWN_READY", "STOP_FAILED"},
         confirmed' \subseteq Hosts, ingest' \in Hosts \cup {NoHost}, unread' \in [Hosts -> Nat],
         runner' \in [Hosts -> {"idle", "running", "exited"}], orphan' \subseteq Hosts,
         left' \in [Hosts -> 0 .. Reps], lost' \subseteq Hosts
  PROVE  TypeOK'
BY SMTT(60) DEF TypeOK

\* Type correctness of every variable of the run.
LEMMA ThreadInvariant == Spec => []ThreadInv
<1>1. Init => ThreadInv
  <2> SUFFICES ASSUME Init PROVE ThreadInv
    OBVIOUS
  <2>1. cfg \in ConfigFields /\ pending \in [1 .. Workloads -> [Hosts -> 0 .. Reps]]
    BY ConfigsAssumption, PendingsAssumption DEF Init
  <2>2. /\ wl \in 1 .. Workloads + 1
        /\ unread \in [Hosts -> Nat] /\ left \in [Hosts -> 0 .. Reps]
        /\ runner \in [Hosts -> {"idle", "running", "exited"}]
    BY WorkloadsAssumption, RepsAssumption DEF Init
  <2>3. state \in States /\ summary \in [state: States \cup {"none"},
                                         cleanup: BOOLEAN, success: BOOLEAN]
    BY DEF Init, States, NoSummary
  <2> QED BY <2>1, <2>2, <2>3
          DEF Init, ThreadInv, TypeOK, WorkloadInRange, InWorkload, Attending, Points, Returns,
             Cancellable, NonCancellable, Results
<1>2. ThreadInv /\ [Next]_vars => TypeOK'
  <2> SUFFICES ASSUME TypeOK, WorkloadInRange, Attending, [Next]_vars PROVE TypeOK'
    BY DEF ThreadInv
  <2> USE WorkloadsAssumption, RepsAssumption
      DEF fixed, flags, outcome, request, stopping, tailer, remote, controllerSide
  <2>1. CASE Launch
    <3>1. state' \in States
      BY <2>1 DEF TypeOK, Launch, StopsHere, StopSeen, GoesOn, LatchedState,
         States, Moved, Armed
    <3>2. /\ exec' \in Results \cup {"idle", "running"}
          /\ token' \in BOOLEAN
      BY <2>1 DEF TypeOK, Launch, StopsHere, StopSeen, GoesOn, LatchedState,
         Results
    <3>3. UNCHANGED <<cfg, pending, pc, ret, wl, all_ok, stop_ok, attempted,
       summary, raised, plugin_up, stop_file, ui, coord, confirmed, ingest,
       unread, runner, orphan, left, lost>>
      BY <2>1 DEF Launch, StopsHere, StopSeen, GoesOn, LatchedState
    <3> QED BY SMTT(60), <3>1, <3>2, <3>3 DEF TypeOK
  <2>2. CASE Terminate
    <3>1. state' \in States
      BY <2>2 DEF TypeOK, Terminate, StopsHere, StopSeen, LatchedState,
         States, Moved, Armed
    <3>2. orphan' \subseteq Hosts
      BY <2>2 DEF TypeOK, Terminate, StopsHere, StopSeen, LatchedState
    <3>3. runner' \in [Hosts -> {"idle", "running", "exited"}]
      BY <2>2 DEF TypeOK, Terminate, StopsHere, StopSeen, LatchedState
    <3>4. /\ exec' \in Results \cup {"idle", "running"}
          /\ token' \in BOOLEAN
      BY <2>2 DEF TypeOK, Terminate, StopsHere, StopSeen, LatchedState,
         Results
    <3>5. UNCHANGED <<cfg, pending, pc, ret, wl, all_ok, stop_ok, attempted,
       summary, raised, plugin_up, stop_file, ui, coord, confirmed, ingest,
       unread, left, lost>>
      BY <2>2 DEF Terminate, StopsHere, StopSeen, LatchedState
    <3> QED BY SMTT(60), <3>1, <3>2, <3>3, <3>4, <3>5 DEF TypeOK
  <2>3. CASE Complete
    <3>1. /\ exec' \in Results \cup {"idle", "running"}
          /\ token' \in BOOLEAN
      BY <2>3 DEF TypeOK, Complete, GoesOn, Results
    <3>2. UNCHANGED <<cfg, pending, pc, ret, wl, state, all_ok, stop_ok,
       attempted, summary, raised, plugin_up, stop_file, ui, coord, confirmed,
       ingest, unread, runner, orphan, left, lost>>
      BY <2>3 DEF Complete, GoesOn
    <3> QED BY SMTT(60), <3>1, <3>2 DEF TypeOK
  <2>4. CASE EnterInitialState
    <3>1. pc' \in Points
      BY <2>4 DEF TypeOK, EnterInitialState, Points, Returns, Cancellable,
         NonCancellable
    <3>2. state' \in States
      BY <2>4 DEF TypeOK, EnterInitialState, States, Moved, Armed
    <3>3. UNCHANGED <<cfg, pending, ret, wl, exec, all_ok, stop_ok, attempted,
       summary, raised, plugin_up, token, stop_file, ui, coord, confirmed,
       ingest, unread, runner, orphan, left, lost>>
      BY <2>4 DEF EnterInitialState
    <3> QED BY SMTT(60), <3>1, <3>2, <3>3 DEF TypeOK
  <2>5. CASE CheckBeforeSetup
    <3>1. pc' \in Points
      BY <2>5 DEF TypeOK, CheckBeforeSetup, StopSeen, NoStop, SkipWorkloads,
         Points, Returns, Cancellable, NonCancellable
    <3>2. state' \in States
      BY <2>5 DEF TypeOK, CheckBeforeSetup, StopSeen, NoStop, SkipWorkloads,
         States, Moved, Armed
    <3>3. wl' \in 1 .. Workloads + 1
      BY <2>5 DEF TypeOK, CheckBeforeSetup, StopSeen, NoStop, SkipWorkloads,
         WorkloadInRange, InWorkload, PendingHosts
    <3>4. token' \in BOOLEAN
      BY <2>5 DEF TypeOK, CheckBeforeSetup, StopSeen, NoStop, SkipWorkloads
    <3>5. UNCHANGED <<cfg, pending, ret, exec, all_ok, stop_ok, attempted,
       summary, raised, plugin_up, stop_file, ui, coord, confirmed, ingest,
       unread, runner, orphan, left, lost>>
      BY <2>5 DEF CheckBeforeSetup, StopSeen, NoStop, SkipWorkloads
    <3> QED BY SMTT(60), <3>1, <3>2, <3>3, <3>4, <3>5 DEF TypeOK
  <2>6. CASE SetupReturned
    <3>1. pc' \in Points
      BY <2>6 DEF TypeOK, SetupReturned, Returned, StopSeen, NoStop,
         SkipWorkloads, Points, Returns, Cancellable, NonCancellable
    <3>2. state' \in States
      BY <2>6 DEF TypeOK, SetupReturned, Returned, StopSeen, NoStop,
         SkipWorkloads, States, Moved, Armed
    <3>3. wl' \in 1 .. Workloads + 1
      BY <2>6 DEF TypeOK, SetupReturned, Returned, StopSeen, NoStop,
         SkipWorkloads, WorkloadInRange, InWorkload, PendingHosts
    <3>4. /\ exec' \in Results \cup {"idle", "running"}
          /\ all_ok' \in BOOLEAN
          /\ token' \in BOOLEAN
      BY <2>6 DEF TypeOK, SetupReturned, Returned, StopSeen, NoStop,
         SkipWorkloads, Results
    <3>5. UNCHANGED <<cfg, pending, ret, stop_ok, attempted, summary, raised,
       plugin_up, stop_file, ui, coord, confirmed, ingest, unread, runner,
       orphan, left, lost>>
      BY <2>6 DEF SetupReturned, Returned, StopSeen, NoStop, SkipWorkloads
    <3> QED BY SMTT(60), <3>1, <3>2, <3>3, <3>4, <3>5 DEF TypeOK
  <2>7. CASE ArmCheck
    <3>1. pc' \in Points
      BY <2>7 DEF TypeOK, ArmCheck, StopSeen, NoStop, Points, Returns,
         Cancellable, NonCancellable
    <3>2. state' \in States
      BY <2>7 DEF TypeOK, ArmCheck, StopSeen, NoStop, States, Moved, Armed
    <3>3. token' \in BOOLEAN
      BY <2>7 DEF TypeOK, ArmCheck, StopSeen, NoStop
    <3>4. UNCHANGED <<cfg, pending, ret, wl, exec, all_ok, stop_ok, attempted,
       summary, raised, plugin_up, stop_file, ui, coord, confirmed, ingest,
       unread, runner, orphan, left, lost>>
      BY <2>7 DEF ArmCheck, StopSeen, NoStop
    <3> QED BY SMTT(60), <3>1, <3>2, <3>3, <3>4 DEF TypeOK
  <2>8. CASE LoopTop
    <3>1. pc' \in Points
      BY <2>8 DEF TypeOK, LoopTop, StopSeen, NoStop, HandleStop, NoHandleStop,
         Points, Returns, Cancellable, NonCancellable
    <3>2. ret' \in Returns
      BY <2>8 DEF TypeOK, LoopTop, StopSeen, NoStop, HandleStop, NoHandleStop,
         Returns
    <3>3. state' \in States
      BY <2>8 DEF TypeOK, LoopTop, StopSeen, NoStop, HandleStop, NoHandleStop,
         States, Moved, Armed
    <3>4. /\ token' \in BOOLEAN
          /\ attempted' \in BOOLEAN
          /\ coord' \in {"IDLE", "STOPPING_WORKLOADS", "TEARDOWN_READY", "STOP_FAILED"}
      BY <2>8 DEF TypeOK, LoopTop, StopSeen, NoStop, HandleStop, NoHandleStop
    <3>5. UNCHANGED <<cfg, pending, wl, exec, all_ok, stop_ok, summary,
       raised, plugin_up, stop_file, ui, confirmed, ingest, unread, runner,
       orphan, left, lost>>
      BY <2>8 DEF LoopTop, StopSeen, NoStop, HandleStop, NoHandleStop
    <3> QED BY SMTT(60), <3>1, <3>2, <3>3, <3>4, <3>5 DEF TypeOK
  <2>9. CASE StartWorkload
    <3>1. pc' \in Points
      BY <2>9 DEF TypeOK, StartWorkload, StopSeen, NoStop, HandleStop,
         NoHandleStop, LatchedState, NextWorkload, Points, Returns,
         Cancellable, NonCancellable
    <3>2. ret' \in Returns
      BY <2>9 DEF TypeOK, StartWorkload, StopSeen, NoStop, HandleStop,
         NoHandleStop, LatchedState, NextWorkload, Returns
    <3>3. state' \in States
      BY <2>9 DEF TypeOK, StartWorkload, StopSeen, NoStop, HandleStop,
         NoHandleStop, LatchedState, NextWorkload, States, Moved, Armed
    <3>4. wl' \in 1 .. Workloads + 1
      BY <2>9 DEF TypeOK, StartWorkload, StopSeen, NoStop, HandleStop,
         NoHandleStop, LatchedState, NextWorkload, WorkloadInRange,
         InWorkload, PendingHosts
    <3>5. /\ token' \in BOOLEAN
          /\ attempted' \in BOOLEAN
          /\ coord' \in {"IDLE", "STOPPING_WORKLOADS", "TEARDOWN_READY", "STOP_FAILED"}
      BY <2>9 DEF TypeOK, StartWorkload, StopSeen, NoStop, HandleStop,
         NoHandleStop, LatchedState, NextWorkload
    <3>6. UNCHANGED <<cfg, pending, exec, all_ok, stop_ok, summary, raised,
       plugin_up, stop_file, ui, confirmed, ingest, unread, runner, orphan,
       left, lost>>
      BY <2>9 DEF StartWorkload, StopSeen, NoStop, HandleStop, NoHandleStop,
         LatchedState, NextWorkload
    <3> QED BY SMTT(60), <3>1, <3>2, <3>3, <3>4, <3>5, <3>6 DEF TypeOK
  <2>10. CASE PluginSetupReturned
    <3>1. pc' \in Points
      BY <2>10 DEF TypeOK, PluginSetupReturned, Returned, NextWorkload,
         Points, Returns, Cancellable, NonCancellable
    <3>2. wl' \in 1 .. Workloads + 1
      BY <2>10 DEF TypeOK, PluginSetupReturned, Returned, NextWorkload,
         WorkloadInRange, InWorkload, PendingHosts
    <3>3. plugin_up' \subseteq 1 .. Workloads
      <4>1. wl \in 1 .. Workloads
        BY <2>10 DEF TypeOK, PluginSetupReturned, WorkloadInRange, InWorkload
      <4>2. plugin_up' \subseteq plugin_up \cup {wl}
        BY <2>10 DEF PluginSetupReturned
      <4> QED BY SMTT(60), <4>1, <4>2 DEF TypeOK
    <3>4. /\ exec' \in Results \cup {"idle", "running"}
          /\ all_ok' \in BOOLEAN
      BY <2>10 DEF TypeOK, PluginSetupReturned, Returned, NextWorkload,
         Results
    <3>5. UNCHANGED <<cfg, pending, ret, state, stop_ok, attempted, summary,
       raised, token, stop_file, ui, coord, confirmed, ingest, unread, runner,
       orphan, left, lost>>
      BY <2>10 DEF PluginSetupReturned, Returned, NextWorkload
    <3> QED BY SMTT(60), <3>1, <3>2, <3>3, <3>4, <3>5 DEF TypeOK
  <2>11. CASE PluginUndoReturned
    <3>1. pc' \in Points
      BY <2>11 DEF TypeOK, PluginUndoReturned, Returned, NextWorkload, Points,
         Returns, Cancellable, NonCancellable
    <3>2. wl' \in 1 .. Workloads + 1
      BY <2>11 DEF TypeOK, PluginUndoReturned, Returned, NextWorkload,
         WorkloadInRange, InWorkload, PendingHosts
    <3>3. exec' \in Results \cup {"idle", "running"}
      BY <2>11 DEF TypeOK, PluginUndoReturned, Returned, NextWorkload, Results
    <3>4. UNCHANGED <<cfg, pending, ret, state, all_ok, stop_ok, attempted,
       summary, raised, plugin_up, token, stop_file, ui, coord, confirmed,
       ingest, unread, runner, orphan, left, lost>>
      BY <2>11 DEF PluginUndoReturned, Returned, NextWorkload
    <3> QED BY SMTT(60), <3>1, <3>2, <3>3, <3>4 DEF TypeOK
  <2>12. CASE CheckBeforeRun
    <3>1. pc' \in Points
      BY <2>12 DEF TypeOK, CheckBeforeRun, StopSeen, NoStop, HandleStop,
         NoHandleStop, PendingHosts, Points, Returns, Cancellable,
         NonCancellable
    <3>2. ret' \in Returns
      BY <2>12 DEF TypeOK, CheckBeforeRun, StopSeen, NoStop, HandleStop,
         NoHandleStop, PendingHosts, Returns
    <3>3. state' \in States
      BY <2>12 DEF TypeOK, CheckBeforeRun, StopSeen, NoStop, HandleStop,
         NoHandleStop, PendingHosts, States, Moved, Armed
    <3>4. left' \in [Hosts -> 0 .. Reps]
      <4>1. wl \in 1 .. Workloads
        BY <2>12 DEF TypeOK, CheckBeforeRun, WorkloadInRange, InWorkload
      <4>2. pending[wl] \in [Hosts -> 0 .. Reps] /\ Reps \in 0 .. Reps
        BY <4>1 DEF TypeOK
      <4>3. \A h \in Hosts :
              (IF h \in PendingHosts THEN pending[wl][h] ELSE Reps) \in 0 .. Reps
        BY <4>2
      <4>4. \/ UNCHANGED left
            \/ left' = [h \in Hosts |-> IF h \in PendingHosts THEN pending[wl][h]
                                        ELSE Reps]
        BY <2>12 DEF CheckBeforeRun
      <4>5. left \in [Hosts -> 0 .. Reps]
        BY DEF TypeOK
      <4> QED BY <4>3, <4>4, <4>5
    <3>5. lost' \subseteq Hosts
      BY <2>12 DEF TypeOK, CheckBeforeRun, StopSeen, NoStop, HandleStop,
         NoHandleStop, PendingHosts
    <3>6. /\ token' \in BOOLEAN
          /\ attempted' \in BOOLEAN
          /\ coord' \in {"IDLE", "STOPPING_WORKLOADS", "TEARDOWN_READY", "STOP_FAILED"}
      BY <2>12 DEF TypeOK, CheckBeforeRun, StopSeen, NoStop, HandleStop,
         NoHandleStop, PendingHosts
    <3>7. UNCHANGED <<cfg, pending, wl, exec, all_ok, stop_ok, summary,
       raised, plugin_up, stop_file, ui, confirmed, ingest, unread, runner,
       orphan>>
      BY <2>12 DEF CheckBeforeRun, StopSeen, NoStop, HandleStop, NoHandleStop,
         PendingHosts
    <3> QED BY SMTT(60), <3>1, <3>2, <3>3, <3>4, <3>5, <3>6, <3>7 DEF TypeOK
  <2>13. CASE RunReturned
    <3>1. pc' \in Points
      BY <2>13 DEF TypeOK, RunReturned, Returned, Points, Returns,
         Cancellable, NonCancellable
    <3>2. ret' \in Returns
      BY <2>13 DEF TypeOK, RunReturned, Returned, Returns
    <3>3. /\ exec' \in Results \cup {"idle", "running"}
          /\ all_ok' \in BOOLEAN
      BY <2>13 DEF TypeOK, RunReturned, Returned, Results
    <3>4. UNCHANGED <<cfg, pending, wl, state, stop_ok, attempted, summary,
       raised, plugin_up, token, stop_file, ui, coord, confirmed, ingest,
       unread, runner, orphan, left, lost>>
      BY <2>13 DEF RunReturned, Returned
    <3> QED BY SMTT(60), <3>1, <3>2, <3>3, <3>4 DEF TypeOK
  <2>14. CASE CollectReturned
    <3>1. pc' \in Points
      BY <2>14 DEF TypeOK, CollectReturned, Returned, Points, Returns,
         Cancellable, NonCancellable
    <3>2. exec' \in Results \cup {"idle", "running"}
      BY <2>14 DEF TypeOK, CollectReturned, Returned, Results
    <3>3. UNCHANGED <<cfg, pending, ret, wl, state, all_ok, stop_ok,
       attempted, summary, raised, plugin_up, token, stop_file, ui, coord,
       confirmed, ingest, unread, runner, orphan, left, lost>>
      BY <2>14 DEF CollectReturned, Returned
    <3> QED BY SMTT(60), <3>1, <3>2, <3>3 DEF TypeOK
  <2>15. CASE CheckAfterExecution
    <3>1. pc' \in Points
      BY <2>15 DEF TypeOK, CheckAfterExecution, StopSeen, NoStop, HandleStop,
         NoHandleStop, LatchedState, Points, Returns, Cancellable,
         NonCancellable
    <3>2. ret' \in Returns
      BY <2>15 DEF TypeOK, CheckAfterExecution, StopSeen, NoStop, HandleStop,
         NoHandleStop, LatchedState, Returns
    <3>3. state' \in States
      BY <2>15 DEF TypeOK, CheckAfterExecution, StopSeen, NoStop, HandleStop,
         NoHandleStop, LatchedState, States, Moved, Armed
    <3>4. /\ token' \in BOOLEAN
          /\ attempted' \in BOOLEAN
          /\ coord' \in {"IDLE", "STOPPING_WORKLOADS", "TEARDOWN_READY", "STOP_FAILED"}
      BY <2>15 DEF TypeOK, CheckAfterExecution, StopSeen, NoStop, HandleStop,
         NoHandleStop, LatchedState
    <3>5. UNCHANGED <<cfg, pending, wl, exec, all_ok, stop_ok, summary,
       raised, plugin_up, stop_file, ui, confirmed, ingest, unread, runner,
       orphan, left, lost>>
      BY <2>15 DEF CheckAfterExecution, StopSeen, NoStop, HandleStop,
         NoHandleStop, LatchedState
    <3> QED BY SMTT(60), <3>1, <3>2, <3>3, <3>4, <3>5 DEF TypeOK
  <2>16. CASE PluginTeardownReturned
    <3>1. pc' \in Points
      BY <2>16 DEF TypeOK, PluginTeardownReturned, Returned, Points, Returns,
         Cancellable, NonCancellable
    <3>2. plugin_up' \subseteq 1 .. Workloads
      BY <2>16 DEF TypeOK, PluginTeardownReturned, Returned, WorkloadInRange,
         InWorkload, PendingHosts
    <3>3. exec' \in Results \cup {"idle", "running"}
      BY <2>16 DEF TypeOK, PluginTeardownReturned, Returned, Results
    <3>4. UNCHANGED <<cfg, pending, ret, wl, state, all_ok, stop_ok,
       attempted, summary, raised, token, stop_file, ui, coord, confirmed,
       ingest, unread, runner, orphan, left, lost>>
      BY <2>16 DEF PluginTeardownReturned, Returned
    <3> QED BY SMTT(60), <3>1, <3>2, <3>3, <3>4 DEF TypeOK
  <2>17. CASE CheckAfterRun
    <3>1. pc' \in Points
      BY <2>17 DEF TypeOK, CheckAfterRun, StopSeen, NoStop, HandleStop,
         NoHandleStop, NextWorkload, Points, Returns, Cancellable,
         NonCancellable
    <3>2. ret' \in Returns
      BY <2>17 DEF TypeOK, CheckAfterRun, StopSeen, NoStop, HandleStop,
         NoHandleStop, NextWorkload, Returns
    <3>3. state' \in States
      BY <2>17 DEF TypeOK, CheckAfterRun, StopSeen, NoStop, HandleStop,
         NoHandleStop, NextWorkload, States, Moved, Armed
    <3>4. wl' \in 1 .. Workloads + 1
      BY <2>17 DEF TypeOK, CheckAfterRun, StopSeen, NoStop, HandleStop,
         NoHandleStop, NextWorkload, WorkloadInRange, InWorkload, PendingHosts
    <3>5. /\ token' \in BOOLEAN
          /\ attempted' \in BOOLEAN
          /\ coord' \in {"IDLE", "STOPPING_WORKLOADS", "TEARDOWN_READY", "STOP_FAILED"}
      BY <2>17 DEF TypeOK, CheckAfterRun, StopSeen, NoStop, HandleStop,
         NoHandleStop, NextWorkload
    <3>6. UNCHANGED <<cfg, pending, exec, all_ok, stop_ok, summary, raised,
       plugin_up, stop_file, ui, confirmed, ingest, unread, runner, orphan,
       left, lost>>
      BY <2>17 DEF CheckAfterRun, StopSeen, NoStop, HandleStop, NoHandleStop,
         NextWorkload
    <3> QED BY SMTT(60), <3>1, <3>2, <3>3, <3>4, <3>5, <3>6 DEF TypeOK
  <2>18. CASE StopPlaybookReturned
    <3>1. pc' \in Points
      BY <2>18 DEF TypeOK, StopPlaybookReturned, Returned, Points, Returns,
         Cancellable, NonCancellable
    <3>2. exec' \in Results \cup {"idle", "running"}
      BY <2>18 DEF TypeOK, StopPlaybookReturned, Returned, Results
    <3>3. UNCHANGED <<cfg, pending, ret, wl, state, all_ok, stop_ok,
       attempted, summary, raised, plugin_up, token, stop_file, ui, coord,
       confirmed, ingest, unread, runner, orphan, left, lost>>
      BY <2>18 DEF StopPlaybookReturned, Returned
    <3> QED BY SMTT(60), <3>1, <3>2, <3>3 DEF TypeOK
  <2>19. CASE SeeTimeout
    <3>1. pc' \in Points
      BY <2>19 DEF TypeOK, SeeTimeout, Points, Returns, Cancellable,
         NonCancellable
    <3>2. UNCHANGED <<cfg, pending, ret, wl, exec, state, all_ok, stop_ok,
       attempted, summary, raised, plugin_up, token, stop_file, ui, coord,
       confirmed, ingest, unread, runner, orphan, left, lost>>
      BY <2>19 DEF SeeTimeout
    <3> QED BY SMTT(60), <3>1, <3>2 DEF TypeOK
  <2>20. CASE Expire
    <3>1. pc' \in Points
      BY <2>20 DEF TypeOK, Expire, Points, Returns, Cancellable,
         NonCancellable
    <3>2. coord' \in {"IDLE", "STOPPING_WORKLOADS", "TEARDOWN_READY", "STOP_FAILED"}
      BY <2>20 DEF TypeOK, Expire
    <3>3. UNCHANGED <<cfg, pending, ret, wl, exec, state, all_ok, stop_ok,
       attempted, summary, raised, plugin_up, token, stop_file, ui, confirmed,
       ingest, unread, runner, orphan, left, lost>>
      BY <2>20 DEF Expire
    <3> QED BY SMTT(60), <3>1, <3>2, <3>3 DEF TypeOK
  <2>21. CASE StopProtocolReturns
    <3>1. pc' \in Points
      BY <2>21 DEF TypeOK, StopProtocolReturns, Points, Returns, Cancellable,
         NonCancellable
    <3>2. state' \in States
      BY <2>21 DEF TypeOK, StopProtocolReturns, States, Moved, Armed
    <3>3. /\ stop_ok' \in BOOLEAN
          /\ all_ok' \in BOOLEAN
      BY <2>21 DEF TypeOK, StopProtocolReturns
    <3>4. UNCHANGED <<cfg, pending, ret, wl, exec, attempted, summary, raised,
       plugin_up, token, stop_file, ui, coord, confirmed, ingest, unread,
       runner, orphan, left, lost>>
      BY <2>21 DEF StopProtocolReturns
    <3> QED BY SMTT(60), <3>1, <3>2, <3>3, <3>4 DEF TypeOK
  <2>22. CASE EnterTeardown
    <3>1. pc' \in Points
      BY <2>22 DEF TypeOK, EnterTeardown, Points, Returns, Cancellable,
         NonCancellable
    <3>2. state' \in States
      BY <2>22 DEF TypeOK, EnterTeardown, States, Moved, Armed
    <3>3. UNCHANGED <<cfg, pending, ret, wl, exec, all_ok, stop_ok, attempted,
       summary, raised, plugin_up, token, stop_file, ui, coord, confirmed,
       ingest, unread, runner, orphan, left, lost>>
      BY <2>22 DEF EnterTeardown
    <3> QED BY SMTT(60), <3>1, <3>2, <3>3 DEF TypeOK
  <2>23. CASE TeardownCheck
    <3>1. pc' \in Points
      BY <2>23 DEF TypeOK, TeardownCheck, StopSeen, NoStop, TeardownState,
         Points, Returns, Cancellable, NonCancellable
    <3>2. state' \in States
      BY <2>23 DEF TypeOK, TeardownCheck, StopSeen, NoStop, TeardownState,
         States, Moved, Armed
    <3>3. token' \in BOOLEAN
      BY <2>23 DEF TypeOK, TeardownCheck, StopSeen, NoStop, TeardownState
    <3>4. UNCHANGED <<cfg, pending, ret, wl, exec, all_ok, stop_ok, attempted,
       summary, raised, plugin_up, stop_file, ui, coord, confirmed, ingest,
       unread, runner, orphan, left, lost>>
      BY <2>23 DEF TeardownCheck, StopSeen, NoStop, TeardownState
    <3> QED BY SMTT(60), <3>1, <3>2, <3>3, <3>4 DEF TypeOK
  <2>24. CASE MaybeInterruptTeardown
    <3>1. pc' \in Points
      BY <2>24 DEF TypeOK, MaybeInterruptTeardown, StopSeen, NoStop, Points,
         Returns, Cancellable, NonCancellable
    <3>2. state' \in States
      BY <2>24 DEF TypeOK, MaybeInterruptTeardown, StopSeen, NoStop, States,
         Moved, Armed
    <3>3. token' \in BOOLEAN
      BY <2>24 DEF TypeOK, MaybeInterruptTeardown, StopSeen, NoStop
    <3>4. UNCHANGED <<cfg, pending, ret, wl, exec, all_ok, stop_ok, attempted,
       summary, raised, plugin_up, stop_file, ui, coord, confirmed, ingest,
       unread, runner, orphan, left, lost>>
      BY <2>24 DEF MaybeInterruptTeardown, StopSeen, NoStop
    <3> QED BY SMTT(60), <3>1, <3>2, <3>3, <3>4 DEF TypeOK
  <2>25. CASE TeardownReturned
    <3>1. pc' \in Points
      BY <2>25 DEF TypeOK, TeardownReturned, Returned, Points, Returns,
         Cancellable, NonCancellable
    <3>2. exec' \in Results \cup {"idle", "running"}
      BY <2>25 DEF TypeOK, TeardownReturned, Returned, Results
    <3>3. UNCHANGED <<cfg, pending, ret, wl, state, all_ok, stop_ok,
       attempted, summary, raised, plugin_up, token, stop_file, ui, coord,
       confirmed, ingest, unread, runner, orphan, left, lost>>
      BY <2>25 DEF TeardownReturned, Returned
    <3> QED BY SMTT(60), <3>1, <3>2, <3>3 DEF TypeOK
  <2>26. CASE BuildSummary
    <3>1. pc' \in Points
      BY <2>26 DEF TypeOK, BuildSummary, StopSeen, NoStop, Points, Returns,
         Cancellable, NonCancellable
    <3>2. state' \in States
      BY <2>26 DEF TypeOK, BuildSummary, StopSeen, NoStop, States, Moved,
         Armed
    <3>3. token' \in BOOLEAN
      BY <2>26 DEF TypeOK, BuildSummary, StopSeen, NoStop
    <3>4. UNCHANGED <<cfg, pending, ret, wl, exec, all_ok, stop_ok, attempted,
       summary, raised, plugin_up, stop_file, ui, coord, confirmed, ingest,
       unread, runner, orphan, left, lost>>
      BY <2>26 DEF BuildSummary, StopSeen, NoStop
    <3> QED BY SMTT(60), <3>1, <3>2, <3>3, <3>4 DEF TypeOK
  <2>27. CASE ReadState
    <3>1. pc' \in Points
      BY <2>27 DEF TypeOK, ReadState, Points, Returns, Cancellable,
         NonCancellable
    <3>2. summary' \in [state: States \cup {"none"}, cleanup: BOOLEAN, success: BOOLEAN]
      BY <2>27 DEF TypeOK, ReadState
    <3>3. UNCHANGED <<cfg, pending, ret, wl, exec, state, all_ok, stop_ok,
       attempted, raised, plugin_up, token, stop_file, ui, coord, confirmed,
       ingest, unread, runner, orphan, left, lost>>
      BY <2>27 DEF ReadState
    <3> QED BY SMTT(60), <3>1, <3>2, <3>3 DEF TypeOK
  <2>28. CASE ReadCleanup
    <3>1. pc' \in Points
      BY <2>28 DEF TypeOK, ReadCleanup, Points, Returns, Cancellable,
         NonCancellable
    <3>2. summary' \in [state: States \cup {"none"}, cleanup: BOOLEAN, success: BOOLEAN]
      <4>1. (state \in AllowsCleanup) \in BOOLEAN
        OBVIOUS
      <4>2. summary' = [summary EXCEPT !.cleanup = state \in AllowsCleanup]
        BY <2>28 DEF ReadCleanup
      <4> HIDE DEF AllowsCleanup
      <4> QED BY <4>1, <4>2, Zenon DEF TypeOK
    <3>3. UNCHANGED <<cfg, pending, ret, wl, exec, state, all_ok, stop_ok,
       attempted, raised, plugin_up, token, stop_file, ui, coord, confirmed,
       ingest, unread, runner, orphan, left, lost>>
      BY <2>28 DEF ReadCleanup
    <3> QED BY SMTT(60), <3>1, <3>2, <3>3 DEF TypeOK
  <2>29. CASE FinalizeSuccess
    <3>1. pc' \in Points
      BY <2>29 DEF TypeOK, FinalizeSuccess, StopSeen, NoStop, Points, Returns,
         Cancellable, NonCancellable
    <3>2. state' \in States
      BY <2>29 DEF TypeOK, FinalizeSuccess, StopSeen, NoStop, States, Moved,
         Armed
    <3>3. token' \in BOOLEAN
      BY <2>29 DEF TypeOK, FinalizeSuccess, StopSeen, NoStop
    <3>4. UNCHANGED <<cfg, pending, ret, wl, exec, all_ok, stop_ok, attempted,
       summary, raised, plugin_up, stop_file, ui, coord, confirmed, ingest,
       unread, runner, orphan, left, lost>>
      BY <2>29 DEF FinalizeSuccess, StopSeen, NoStop
    <3> QED BY SMTT(60), <3>1, <3>2, <3>3, <3>4 DEF TypeOK
  <2>30. CASE HandleFailure
    <3>1. pc' \in Points
      BY <2>30 DEF TypeOK, HandleFailure, StopSeen, NoStop, Points, Returns,
         Cancellable, NonCancellable
    <3>2. state' \in States
      BY <2>30 DEF TypeOK, HandleFailure, StopSeen, NoStop, States, Moved,
         Armed
    <3>3. /\ token' \in BOOLEAN
          /\ raised' \in BOOLEAN
      BY <2>30 DEF TypeOK, HandleFailure, StopSeen, NoStop
    <3>4. UNCHANGED <<cfg, pending, ret, wl, exec, all_ok, stop_ok, attempted,
       summary, plugin_up, stop_file, ui, coord, confirmed, ingest, unread,
       runner, orphan, left, lost>>
      BY <2>30 DEF HandleFailure, StopSeen, NoStop
    <3> QED BY SMTT(60), <3>1, <3>2, <3>3, <3>4 DEF TypeOK
  <2>31. CASE ArmStop
    <3>1. state' \in States
      BY <2>31 DEF TypeOK, ArmStop, States, Moved, Armed
    <3>2. ui' \in {"idle", "armed", "flagged", "announced"}
      BY <2>31 DEF TypeOK, ArmStop
    <3>3. UNCHANGED <<cfg, pending, pc, ret, wl, exec, all_ok, stop_ok,
       attempted, summary, raised, plugin_up, token, stop_file, coord,
       confirmed, ingest, unread, runner, orphan, left, lost>>
      BY <2>31 DEF ArmStop
    <3> QED BY SMTT(60), <3>1, <3>2, <3>3 DEF TypeOK
  <2>32. CASE RequestStop
    <3>1. /\ token' \in BOOLEAN
          /\ ui' \in {"idle", "armed", "flagged", "announced"}
      BY <2>32 DEF TypeOK, RequestStop
    <3>2. UNCHANGED <<cfg, pending, pc, ret, wl, exec, state, all_ok, stop_ok,
       attempted, summary, raised, plugin_up, stop_file, coord, confirmed,
       ingest, unread, runner, orphan, left, lost>>
      BY <2>32 DEF RequestStop
    <3> QED BY SMTT(60), <3>1, <3>2 DEF TypeOK
  <2>33. CASE AnnounceStop
    <3>1. state' \in States
      BY <2>33 DEF TypeOK, AnnounceStop, States, Moved, Armed
    <3>2. ui' \in {"idle", "armed", "flagged", "announced"}
      BY <2>33 DEF TypeOK, AnnounceStop
    <3>3. UNCHANGED <<cfg, pending, pc, ret, wl, exec, all_ok, stop_ok,
       attempted, summary, raised, plugin_up, token, stop_file, coord,
       confirmed, ingest, unread, runner, orphan, left, lost>>
      BY <2>33 DEF AnnounceStop
    <3> QED BY SMTT(60), <3>1, <3>2, <3>3 DEF TypeOK
  <2>34. CASE TouchStopFile
    <3>1. stop_file' \in BOOLEAN
      BY <2>34 DEF TypeOK, TouchStopFile
    <3>2. UNCHANGED <<cfg, pending, pc, ret, wl, exec, state, all_ok, stop_ok,
       attempted, summary, raised, plugin_up, token, ui, coord, confirmed,
       ingest, unread, runner, orphan, left, lost>>
      BY <2>34 DEF TouchStopFile
    <3> QED BY SMTT(60), <3>1, <3>2 DEF TypeOK
  <2>35. CASE TailConfirm
    <3>1. ingest' \in Hosts \cup {NoHost}
      BY <2>35 DEF TypeOK, TailConfirm
    <3>2. confirmed' \subseteq Hosts
      BY <2>35 DEF TypeOK, TailConfirm
    <3>3. coord' \in {"IDLE", "STOPPING_WORKLOADS", "TEARDOWN_READY", "STOP_FAILED"}
      BY <2>35 DEF TypeOK, TailConfirm
    <3>4. UNCHANGED <<cfg, pending, pc, ret, wl, exec, state, all_ok, stop_ok,
       attempted, summary, raised, plugin_up, token, stop_file, ui, unread,
       runner, orphan, left, lost>>
      BY <2>35 DEF TailConfirm
    <3>5. /\ unread' \in [Hosts -> Nat]
          /\ runner' \in [Hosts -> {"idle", "running", "exited"}]
          /\ orphan' \subseteq Hosts
          /\ left' \in [Hosts -> 0 .. Reps]
          /\ lost' \subseteq Hosts
      BY <3>4 DEF TypeOK
    <3> QED BY <3>1, <3>2, <3>3, <3>4, <3>5, RemoteTypes
  <2>36. ASSUME NEW h \in Hosts, StartRep(h) PROVE TypeOK'
    <3>1. runner' \in [Hosts -> {"idle", "running", "exited"}]
      BY <2>36 DEF TypeOK, StartRep
    <3>2. UNCHANGED <<cfg, pending, pc, ret, wl, exec, state, all_ok, stop_ok,
       attempted, summary, raised, plugin_up, token, stop_file, ui, coord,
       confirmed, ingest, unread, orphan, left, lost>>
      BY <2>36 DEF StartRep
    <3>3. /\ coord' \in {"IDLE", "STOPPING_WORKLOADS", "TEARDOWN_READY", "STOP_FAILED"}
          /\ confirmed' \subseteq Hosts
          /\ ingest' \in Hosts \cup {NoHost}
          /\ unread' \in [Hosts -> Nat]
          /\ orphan' \subseteq Hosts
          /\ left' \in [Hosts -> 0 .. Reps]
          /\ lost' \subseteq Hosts
      BY <3>2 DEF TypeOK
    <3> QED BY <3>1, <3>2, <3>3, RemoteTypes
  <2>37. ASSUME NEW h \in Hosts, RepExits(h) PROVE TypeOK'
    <3>1. runner' \in [Hosts -> {"idle", "running", "exited"}]
      BY <2>37 DEF TypeOK, RepExits
    <3>2. orphan' \subseteq Hosts
      BY <2>37 DEF TypeOK, RepExits
    <3>3. UNCHANGED <<cfg, pending, pc, ret, wl, exec, state, all_ok, stop_ok,
       attempted, summary, raised, plugin_up, token, stop_file, ui, coord,
       confirmed, ingest, unread, left, lost>>
      BY <2>37 DEF RepExits
    <3>4. /\ coord' \in {"IDLE", "STOPPING_WORKLOADS", "TEARDOWN_READY", "STOP_FAILED"}
          /\ confirmed' \subseteq Hosts
          /\ ingest' \in Hosts \cup {NoHost}
          /\ unread' \in [Hosts -> Nat]
          /\ left' \in [Hosts -> 0 .. Reps]
          /\ lost' \subseteq Hosts
      BY <3>3 DEF TypeOK
    <3> QED BY <3>1, <3>2, <3>3, <3>4, RemoteTypes
  <2>38. ASSUME NEW h \in Hosts, RelayRep(h) PROVE TypeOK'
    <3>1. runner' \in [Hosts -> {"idle", "running", "exited"}]
      BY <2>38 DEF TypeOK, RelayRep
    <3>2. unread' \in [Hosts -> Nat]
      BY <2>38 DEF TypeOK, RelayRep
    <3>3. left' \in [Hosts -> 0 .. Reps]
      <4>1. left[h] > 0
        BY <2>38 DEF RelayRep, Attending
      <4>2. left[h] - 1 \in 0 .. Reps /\ 0 \in 0 .. Reps
        BY <4>1 DEF TypeOK
      <4>3. \/ left' = [left EXCEPT ![h] = left[h] - 1]
            \/ left' = [left EXCEPT ![h] = 0]
        BY <2>38 DEF RelayRep
      <4>4. left \in [Hosts -> 0 .. Reps]
        BY DEF TypeOK
      <4> QED BY <4>2, <4>3, <4>4
    <3>4. lost' \subseteq Hosts
      BY <2>38 DEF TypeOK, RelayRep
    <3>5. UNCHANGED <<cfg, pending, pc, ret, wl, exec, state, all_ok, stop_ok,
       attempted, summary, raised, plugin_up, token, stop_file, ui, coord,
       confirmed, ingest, orphan>>
      BY <2>38 DEF RelayRep
    <3>6. /\ coord' \in {"IDLE", "STOPPING_WORKLOADS", "TEARDOWN_READY", "STOP_FAILED"}
          /\ confirmed' \subseteq Hosts
          /\ ingest' \in Hosts \cup {NoHost}
          /\ orphan' \subseteq Hosts
      BY <3>5 DEF TypeOK
    <3> QED BY <3>1, <3>2, <3>3, <3>4, <3>5, <3>6, RemoteTypes
  <2>39. ASSUME NEW h \in Hosts, LoseHost(h) PROVE TypeOK'
    <3>1. runner' \in [Hosts -> {"idle", "running", "exited"}]
      BY <2>39 DEF TypeOK, LoseHost
    <3>2. orphan' \subseteq Hosts
      BY <2>39 DEF TypeOK, LoseHost
    <3>3. unread' \in [Hosts -> Nat]
      <4>1. UNCHANGED unread \/ unread' = [unread EXCEPT ![h] = unread[h] + 1]
        BY <2>39 DEF LoseHost
      <4>2. unread \in [Hosts -> Nat] /\ unread[h] + 1 \in Nat
        BY DEF TypeOK
      <4> QED BY <4>1, <4>2
    <3>4. left' \in [Hosts -> 0 .. Reps]
      <4>1. left' = [left EXCEPT ![h] = 0] /\ 0 \in 0 .. Reps
        BY <2>39 DEF LoseHost
      <4>2. left \in [Hosts -> 0 .. Reps]
        BY DEF TypeOK
      <4> QED BY <4>1, <4>2
    <3>5. lost' \subseteq Hosts
      BY <2>39 DEF TypeOK, LoseHost
    <3>6. UNCHANGED <<cfg, pending, pc, ret, wl, exec, state, all_ok, stop_ok,
       attempted, summary, raised, plugin_up, token, stop_file, ui, coord,
       confirmed, ingest>>
      BY <2>39 DEF LoseHost
    <3>7. /\ coord' \in {"IDLE", "STOPPING_WORKLOADS", "TEARDOWN_READY", "STOP_FAILED"}
          /\ confirmed' \subseteq Hosts
          /\ ingest' \in Hosts \cup {NoHost}
      BY <3>6 DEF TypeOK
    <3> QED BY <3>1, <3>2, <3>3, <3>4, <3>5, <3>6, <3>7, RemoteTypes
  <2>40. ASSUME NEW h \in Hosts, TailRead(h) PROVE TypeOK'
    <3>1. unread' \in [Hosts -> Nat]
      BY <2>40 DEF TypeOK, TailRead
    <3>2. ingest' \in Hosts \cup {NoHost}
      BY <2>40 DEF TypeOK, TailRead
    <3>3. UNCHANGED <<cfg, pending, pc, ret, wl, exec, state, all_ok, stop_ok,
       attempted, summary, raised, plugin_up, token, stop_file, ui, coord,
       confirmed, runner, orphan, left, lost>>
      BY <2>40 DEF TailRead
    <3>4. /\ coord' \in {"IDLE", "STOPPING_WORKLOADS", "TEARDOWN_READY", "STOP_FAILED"}
          /\ confirmed' \subseteq Hosts
          /\ runner' \in [Hosts -> {"idle", "running", "exited"}]
          /\ orphan' \subseteq Hosts
          /\ left' \in [Hosts -> 0 .. Reps]
          /\ lost' \subseteq Hosts
      BY <3>3 DEF TypeOK
    <3> QED BY <3>1, <3>2, <3>3, <3>4, RemoteTypes
  <2>41. CASE UNCHANGED vars
    BY <2>41 DEF TypeOK, vars
  <2> QED BY <2>1, <2>2, <2>3, <2>4, <2>5, <2>6, <2>7, <2>8, <2>9, <2>10,
     <2>11, <2>12, <2>13, <2>14, <2>15, <2>16, <2>17, <2>18, <2>19, <2>20,
     <2>21, <2>22, <2>23, <2>24, <2>25, <2>26, <2>27, <2>28, <2>29, <2>30,
     <2>31, <2>32, <2>33, <2>34, <2>35, <2>36, <2>37, <2>38, <2>39, <2>40,
     <2>41 DEF Next, Controller, UserInterface, Remote, Tailer, Finished
<1>3. ThreadInv /\ [Next]_vars => WorkloadInRange'
  <2> SUFFICES ASSUME TypeOK, WorkloadInRange, [Next]_vars PROVE WorkloadInRange'
    BY DEF ThreadInv
  <2>0. wl \in Nat /\ Workloads \in Nat
    BY WorkloadsAssumption DEF TypeOK
  <2> USE <2>0 DEF WorkloadInRange, InWorkload, fixed, flags, outcome, request, stopping, tailer,
        remote, controllerSide
  <2>1. CASE Launch
    BY <2>1 DEF Launch, StopsHere, StopSeen, GoesOn, LatchedState
  <2>2. CASE Terminate
    BY <2>2 DEF Terminate, StopsHere, StopSeen, LatchedState
  <2>3. CASE Complete
    BY <2>3 DEF Complete, GoesOn
  <2>4. CASE EnterInitialState
    BY <2>4 DEF EnterInitialState
  <2>5. CASE CheckBeforeSetup
    BY <2>5 DEF CheckBeforeSetup, StopSeen, NoStop, SkipWorkloads
  <2>6. CASE SetupReturned
    BY <2>6 DEF SetupReturned, Returned, StopSeen, NoStop, SkipWorkloads
  <2>7. CASE ArmCheck
    BY <2>7 DEF ArmCheck, StopSeen, NoStop
  <2>8. CASE LoopTop
    BY <2>8 DEF LoopTop, StopSeen, NoStop, HandleStop, NoHandleStop
  <2>9. CASE StartWorkload
    BY <2>9 DEF StartWorkload, StopSeen, NoStop, HandleStop, NoHandleStop,
       LatchedState, NextWorkload
  <2>10. CASE PluginSetupReturned
    BY <2>10 DEF PluginSetupReturned, Returned, NextWorkload
  <2>11. CASE PluginUndoReturned
    BY <2>11 DEF PluginUndoReturned, Returned, NextWorkload
  <2>12. CASE CheckBeforeRun
    BY <2>12 DEF CheckBeforeRun, StopSeen, NoStop, HandleStop, NoHandleStop,
       PendingHosts
  <2>13. CASE RunReturned
    BY <2>13 DEF RunReturned, Returned
  <2>14. CASE CollectReturned
    BY <2>14 DEF CollectReturned, Returned
  <2>15. CASE CheckAfterExecution
    BY <2>15 DEF CheckAfterExecution, StopSeen, NoStop, HandleStop,
       NoHandleStop, LatchedState
  <2>16. CASE PluginTeardownReturned
    BY <2>16 DEF PluginTeardownReturned, Returned
  <2>17. CASE CheckAfterRun
    BY <2>17 DEF CheckAfterRun, StopSeen, NoStop, HandleStop, NoHandleStop,
       NextWorkload
  <2>18. CASE StopPlaybookReturned
    BY <2>18 DEF StopPlaybookReturned, Returned
  <2>19. CASE SeeTimeout
    BY <2>19 DEF SeeTimeout
  <2>20. CASE Expire
    BY <2>20 DEF Expire
  <2>21. CASE StopProtocolReturns
    BY <2>21 DEF StopProtocolReturns, TypeOK, Returns
  <2>22. CASE EnterTeardown
    BY <2>22 DEF EnterTeardown
  <2>23. CASE TeardownCheck
    BY <2>23 DEF TeardownCheck, StopSeen, NoStop, TeardownState
  <2>24. CASE MaybeInterruptTeardown
    BY <2>24 DEF MaybeInterruptTeardown, StopSeen, NoStop
  <2>25. CASE TeardownReturned
    BY <2>25 DEF TeardownReturned, Returned
  <2>26. CASE BuildSummary
    BY <2>26 DEF BuildSummary, StopSeen, NoStop
  <2>27. CASE ReadState
    BY <2>27 DEF ReadState
  <2>28. CASE ReadCleanup
    BY <2>28 DEF ReadCleanup
  <2>29. CASE FinalizeSuccess
    BY <2>29 DEF FinalizeSuccess, StopSeen, NoStop
  <2>30. CASE HandleFailure
    BY <2>30 DEF HandleFailure, StopSeen, NoStop
  <2>31. CASE ArmStop
    BY <2>31 DEF ArmStop
  <2>32. CASE RequestStop
    BY <2>32 DEF RequestStop
  <2>33. CASE AnnounceStop
    BY <2>33 DEF AnnounceStop
  <2>34. CASE TouchStopFile
    BY <2>34 DEF TouchStopFile
  <2>35. CASE TailConfirm
    BY <2>35 DEF TailConfirm
  <2>36. ASSUME NEW h \in Hosts, StartRep(h) PROVE WorkloadInRange'
    BY <2>36 DEF StartRep
  <2>37. ASSUME NEW h \in Hosts, RepExits(h) PROVE WorkloadInRange'
    BY <2>37 DEF RepExits
  <2>38. ASSUME NEW h \in Hosts, RelayRep(h) PROVE WorkloadInRange'
    BY <2>38 DEF RelayRep
  <2>39. ASSUME NEW h \in Hosts, LoseHost(h) PROVE WorkloadInRange'
    BY <2>39 DEF LoseHost
  <2>40. ASSUME NEW h \in Hosts, TailRead(h) PROVE WorkloadInRange'
    BY <2>40 DEF TailRead
  <2>41. CASE UNCHANGED vars
    BY <2>41 DEF vars
  <2> QED BY <2>1, <2>2, <2>3, <2>4, <2>5, <2>6, <2>7, <2>8, <2>9, <2>10,
     <2>11, <2>12, <2>13, <2>14, <2>15, <2>16, <2>17, <2>18, <2>19, <2>20,
     <2>21, <2>22, <2>23, <2>24, <2>25, <2>26, <2>27, <2>28, <2>29, <2>30,
     <2>31, <2>32, <2>33, <2>34, <2>35, <2>36, <2>37, <2>38, <2>39, <2>40,
     <2>41 DEF Next, Controller, UserInterface, Remote, Tailer, Finished
<1>4. ThreadInv /\ [Next]_vars => Attending'
  <2> SUFFICES ASSUME TypeOK, Attending, [Next]_vars PROVE Attending'
    BY DEF ThreadInv
  <2> USE RepsAssumption
      DEF TypeOK, Attending, Attended, fixed, flags, outcome, request, stopping, tailer, remote,
         controllerSide
  <2>1. CASE Launch
    BY <2>1 DEF Launch, StopsHere, StopSeen, GoesOn, LatchedState
  <2>2. CASE Terminate
    BY <2>2 DEF Terminate, StopsHere, StopSeen, LatchedState
  <2>3. CASE Complete
    BY <2>3 DEF Complete, GoesOn, RoleFinished
  <2>4. CASE EnterInitialState
    BY <2>4 DEF EnterInitialState
  <2>5. CASE CheckBeforeSetup
    BY <2>5 DEF CheckBeforeSetup, StopSeen, NoStop, SkipWorkloads
  <2>6. CASE SetupReturned
    BY <2>6 DEF SetupReturned, Returned, StopSeen, NoStop, SkipWorkloads
  <2>7. CASE ArmCheck
    BY <2>7 DEF ArmCheck, StopSeen, NoStop
  <2>8. CASE LoopTop
    BY <2>8 DEF LoopTop, StopSeen, NoStop, HandleStop, NoHandleStop
  <2>9. CASE StartWorkload
    BY <2>9 DEF StartWorkload, StopSeen, NoStop, HandleStop, NoHandleStop,
       LatchedState, NextWorkload
  <2>10. CASE PluginSetupReturned
    BY <2>10 DEF PluginSetupReturned, Returned, NextWorkload
  <2>11. CASE PluginUndoReturned
    BY <2>11 DEF PluginUndoReturned, Returned, NextWorkload
  <2>12. CASE CheckBeforeRun
    BY <2>12 DEF CheckBeforeRun, StopSeen, NoStop, HandleStop, NoHandleStop,
       PendingHosts
  <2>13. CASE RunReturned
    BY <2>13 DEF RunReturned, Returned, Results
  <2>14. CASE CollectReturned
    BY <2>14 DEF CollectReturned, Returned
  <2>15. CASE CheckAfterExecution
    BY <2>15 DEF CheckAfterExecution, StopSeen, NoStop, HandleStop,
       NoHandleStop, LatchedState
  <2>16. CASE PluginTeardownReturned
    BY <2>16 DEF PluginTeardownReturned, Returned
  <2>17. CASE CheckAfterRun
    BY <2>17 DEF CheckAfterRun, StopSeen, NoStop, HandleStop, NoHandleStop,
       NextWorkload
  <2>18. CASE StopPlaybookReturned
    BY <2>18 DEF StopPlaybookReturned, Returned
  <2>19. CASE SeeTimeout
    BY <2>19 DEF SeeTimeout
  <2>20. CASE Expire
    BY <2>20 DEF Expire
  <2>21. CASE StopProtocolReturns
    BY <2>21 DEF StopProtocolReturns
  <2>22. CASE EnterTeardown
    BY <2>22 DEF EnterTeardown
  <2>23. CASE TeardownCheck
    BY <2>23 DEF TeardownCheck, StopSeen, NoStop, TeardownState
  <2>24. CASE MaybeInterruptTeardown
    BY <2>24 DEF MaybeInterruptTeardown, StopSeen, NoStop
  <2>25. CASE TeardownReturned
    BY <2>25 DEF TeardownReturned, Returned
  <2>26. CASE BuildSummary
    BY <2>26 DEF BuildSummary, StopSeen, NoStop
  <2>27. CASE ReadState
    BY <2>27 DEF ReadState
  <2>28. CASE ReadCleanup
    BY <2>28 DEF ReadCleanup
  <2>29. CASE FinalizeSuccess
    BY <2>29 DEF FinalizeSuccess, StopSeen, NoStop
  <2>30. CASE HandleFailure
    BY <2>30 DEF HandleFailure, StopSeen, NoStop
  <2>31. CASE ArmStop
    BY <2>31 DEF ArmStop
  <2>32. CASE RequestStop
    BY <2>32 DEF RequestStop
  <2>33. CASE AnnounceStop
    BY <2>33 DEF AnnounceStop
  <2>34. CASE TouchStopFile
    BY <2>34 DEF TouchStopFile
  <2>35. CASE TailConfirm
    BY <2>35 DEF TailConfirm
  <2>36. ASSUME NEW h \in Hosts, StartRep(h) PROVE Attending'
    BY <2>36 DEF StartRep
  <2>37. ASSUME NEW h \in Hosts, RepExits(h) PROVE Attending'
    BY <2>37 DEF RepExits
  <2>38. ASSUME NEW h \in Hosts, RelayRep(h) PROVE Attending'
    BY <2>38 DEF RelayRep
  <2>39. ASSUME NEW h \in Hosts, LoseHost(h) PROVE Attending'
    BY <2>39 DEF LoseHost
  <2>40. ASSUME NEW h \in Hosts, TailRead(h) PROVE Attending'
    BY <2>40 DEF TailRead
  <2>41. CASE UNCHANGED vars
    BY <2>41 DEF vars
  <2> QED BY <2>1, <2>2, <2>3, <2>4, <2>5, <2>6, <2>7, <2>8, <2>9, <2>10,
     <2>11, <2>12, <2>13, <2>14, <2>15, <2>16, <2>17, <2>18, <2>19, <2>20,
     <2>21, <2>22, <2>23, <2>24, <2>25, <2>26, <2>27, <2>28, <2>29, <2>30,
     <2>31, <2>32, <2>33, <2>34, <2>35, <2>36, <2>37, <2>38, <2>39, <2>40,
     <2>41 DEF Next, Controller, UserInterface, Remote, Tailer, Finished
<1> QED BY <1>1, <1>2, <1>3, <1>4, PTL DEF Spec, ThreadInv

\* The controller thread, the state machine, the stop coordinator and the runners
\* keep their types, however the hosts answer (lb_controller/engine).
THEOREM Typing == Spec => []TypeOK
BY ThreadInvariant, PTL DEF ThreadInv

-----------------------------------------------------------------------------
(* The stop path: cleanup, verdicts, and no repetition after the protocol *)

StopPoints == {"stop_pb", "stop_wait", "stop_expire"}

VerdictPoints == {"summary_state", "summary_cleanup", "finalize", "fail", "done"}

\* The points a run can be at once its stop protocol has begun.
AfterStop ==
  StopPoints \cup VerdictPoints \cup
  {"run_check", "teardown", "teardown_check", "teardown_interrupt", "teardown_pb",
   "summary"}

\* A handled stop was a latched one, and every check that follows sees it.
StopIsLatched ==
  /\ attempted => token /\ pc \in AfterStop
  /\ pc \in StopPoints => attempted /\ ret \in {"teardown", "run_check"}
  /\ ~stop_ok => attempted

\* A stop protocol that went well went well because all hosts confirmed.
StopIsConfirmed ==
  /\ coord = "TEARDOWN_READY" => confirmed = Hosts
  /\ attempted /\ stop_ok /\ pc \notin StopPoints \cup {"fail", "done"} =>
       confirmed = Hosts

\* Verdicts are reached by build_summary or later, and a verdict that allows
\* cleanup after a stop needs the confirmations.
VerdictIsEarned ==
  /\ state \in AllowsCleanup => pc \in VerdictPoints
  /\ state = "stop_failed" => attempted
  /\ pc \in {"summary_state", "summary_cleanup"} /\ state \in AllowsCleanup /\ attempted
       => confirmed = Hosts

\* The cleanup flag is set once, after the last point that may begin a protocol.
CleanupIsLast ==
  /\ summary.cleanup => pc \in {"finalize", "fail", "done"}
  /\ CleanupOnlyWhenConfirmed

StopInv == StopIsLatched /\ StopIsConfirmed /\ VerdictIsEarned /\ CleanupIsLast

\* The stop path's invariant is inductive, given where the thread may be.
LEMMA StopInvariant == Spec => []StopInv
<1>1. Init => StopInv
  BY DEF Init, NoSummary, AllowsCleanup, StopInv, StopIsLatched, StopIsConfirmed, VerdictIsEarned,
     CleanupIsLast, CleanupOnlyWhenConfirmed, StopPoints, VerdictPoints, AfterStop
<1>2. TypeOK /\ TypeOK' /\ StopInv /\ [Next]_vars => StopInv'
  <2> SUFFICES ASSUME TypeOK, TypeOK', StopInv, [Next]_vars PROVE StopInv'
    OBVIOUS
  <2>0. /\ state \in States /\ ret \in Returns
        /\ attempted \in BOOLEAN /\ stop_ok \in BOOLEAN /\ token \in BOOLEAN
        /\ confirmed' \subseteq Hosts /\ Hosts # {}
    BY HostsAssumption DEF TypeOK
  <2> USE <2>0 DEF fixed, flags, outcome, request, stopping, tailer, remote, controllerSide,
        StopInv, StopIsLatched, StopIsConfirmed, VerdictIsEarned, CleanupIsLast,
        CleanupOnlyWhenConfirmed, StopPoints, VerdictPoints, AfterStop
  <2>1. CASE Launch
    BY <2>1 DEF Launch, StopsHere, StopSeen, GoesOn, LatchedState, Moved,
       Armed, AllowsCleanup
  <2>2. CASE Terminate
    BY <2>2 DEF Terminate, StopsHere, StopSeen, LatchedState, Moved, Armed,
       AllowsCleanup
  <2>3. CASE Complete
    BY <2>3 DEF Complete, GoesOn
  <2>4. CASE EnterInitialState
    BY <2>4 DEF EnterInitialState, Moved, Armed, AllowsCleanup
  <2>5. CASE CheckBeforeSetup
    BY <2>5 DEF CheckBeforeSetup, StopSeen, NoStop, SkipWorkloads, Moved,
       Armed, AllowsCleanup
  <2>6. CASE SetupReturned
    BY <2>6 DEF SetupReturned, Returned, StopSeen, NoStop, SkipWorkloads,
       Moved, Armed, AllowsCleanup
  <2>7. CASE ArmCheck
    BY <2>7 DEF ArmCheck, StopSeen, NoStop, Moved, Armed, AllowsCleanup
  <2>8. CASE LoopTop
    BY <2>8 DEF LoopTop, StopSeen, NoStop, HandleStop, NoHandleStop, Moved,
       Armed, AllowsCleanup
  <2>9. CASE StartWorkload
    BY <2>9 DEF StartWorkload, StopSeen, NoStop, HandleStop, NoHandleStop,
       LatchedState, NextWorkload, Moved, Armed, AllowsCleanup
  <2>10. CASE PluginSetupReturned
    BY <2>10 DEF PluginSetupReturned, Returned, NextWorkload
  <2>11. CASE PluginUndoReturned
    BY <2>11 DEF PluginUndoReturned, Returned, NextWorkload
  <2>12. CASE CheckBeforeRun
    BY <2>12 DEF CheckBeforeRun, StopSeen, NoStop, HandleStop, NoHandleStop,
       PendingHosts, Moved, Armed, AllowsCleanup
  <2>13. CASE RunReturned
    BY <2>13 DEF RunReturned, Returned
  <2>14. CASE CollectReturned
    BY <2>14 DEF CollectReturned, Returned, Returns
  <2>15. CASE CheckAfterExecution
    BY <2>15 DEF CheckAfterExecution, StopSeen, NoStop, HandleStop,
       NoHandleStop, LatchedState, Moved, Armed, AllowsCleanup
  <2>16. CASE PluginTeardownReturned
    BY <2>16 DEF PluginTeardownReturned, Returned
  <2>17. CASE CheckAfterRun
    BY <2>17 DEF CheckAfterRun, StopSeen, NoStop, HandleStop, NoHandleStop,
       NextWorkload, Moved, Armed, AllowsCleanup, ShouldStop
  <2>18. CASE StopPlaybookReturned
    BY <2>18 DEF StopPlaybookReturned, Returned
  <2>19. CASE SeeTimeout
    BY <2>19 DEF SeeTimeout
  <2>20. CASE Expire
    BY <2>20 DEF Expire
  <2>21. CASE StopProtocolReturns
    BY <2>21 DEF StopProtocolReturns, Moved, Armed, AllowsCleanup
  <2>22. CASE EnterTeardown
    BY <2>22 DEF EnterTeardown, Moved, Armed, AllowsCleanup
  <2>23. CASE TeardownCheck
    BY <2>23 DEF TeardownCheck, StopSeen, NoStop, TeardownState, Moved, Armed,
       AllowsCleanup
  <2>24. CASE MaybeInterruptTeardown
    BY <2>24 DEF MaybeInterruptTeardown, StopSeen, NoStop, Moved, Armed,
       AllowsCleanup
  <2>25. CASE TeardownReturned
    BY <2>25 DEF TeardownReturned, Returned
  <2>26. CASE BuildSummary
    BY <2>26 DEF BuildSummary, StopSeen, NoStop, Moved, Armed, AllowsCleanup,
       ShouldStop
  <2>27. CASE ReadState
    BY <2>27 DEF ReadState
  <2>28. CASE ReadCleanup
    BY <2>28 DEF ReadCleanup
  <2>29. CASE FinalizeSuccess
    BY <2>29 DEF FinalizeSuccess, StopSeen, NoStop, Moved, Armed,
       AllowsCleanup
  <2>30. CASE HandleFailure
    BY <2>30 DEF HandleFailure, StopSeen, NoStop, Moved, Armed, AllowsCleanup
  <2>31. CASE ArmStop
    BY <2>31 DEF ArmStop, Moved, Armed, AllowsCleanup
  <2>32. CASE RequestStop
    BY <2>32 DEF RequestStop
  <2>33. CASE AnnounceStop
    BY <2>33 DEF AnnounceStop, Moved, Armed, AllowsCleanup
  <2>34. CASE TouchStopFile
    BY <2>34 DEF TouchStopFile
  <2>35. CASE TailConfirm
    BY <2>35 DEF TailConfirm
  <2>36. ASSUME NEW h \in Hosts, StartRep(h) PROVE StopInv'
    BY <2>36 DEF StartRep
  <2>37. ASSUME NEW h \in Hosts, RepExits(h) PROVE StopInv'
    BY <2>37 DEF RepExits
  <2>38. ASSUME NEW h \in Hosts, RelayRep(h) PROVE StopInv'
    BY <2>38 DEF RelayRep
  <2>39. ASSUME NEW h \in Hosts, LoseHost(h) PROVE StopInv'
    BY <2>39 DEF LoseHost
  <2>40. ASSUME NEW h \in Hosts, TailRead(h) PROVE StopInv'
    BY <2>40 DEF TailRead
  <2>41. CASE UNCHANGED vars
    BY <2>41 DEF vars
  <2> QED BY <2>1, <2>2, <2>3, <2>4, <2>5, <2>6, <2>7, <2>8, <2>9, <2>10,
     <2>11, <2>12, <2>13, <2>14, <2>15, <2>16, <2>17, <2>18, <2>19, <2>20,
     <2>21, <2>22, <2>23, <2>24, <2>25, <2>26, <2>27, <2>28, <2>29, <2>30,
     <2>31, <2>32, <2>33, <2>34, <2>35, <2>36, <2>37, <2>38, <2>39, <2>40,
     <2>41 DEF Next, Controller, UserInterface, Remote, Tailer, Finished
<1> QED BY <1>1, <1>2, Typing, PTL DEF Spec

\* Nodes are destroyed after a stop only when every host confirmed it
\* (build_summary, allows_cleanup).
THEOREM CleanupSafe == Spec => []CleanupOnlyWhenConfirmed
BY StopInvariant, PTL DEF StopInv, CleanupIsLast

\* No host starts another repetition once the stop protocol has begun
\* (run_workloads, run_workload_execution, run_playbook).
THEOREM StopIsFinal == Spec => NoWorkAfterStop
<1>1. TypeOK /\ StopInv /\ [Next]_vars =>
        (attempted => \A h \in Hosts : runner'[h] = "running" => runner[h] = "running")
  <2> SUFFICES ASSUME TypeOK, StopInv, [Next]_vars, attempted
               PROVE  \A h \in Hosts : runner'[h] = "running" => runner[h] = "running"
    OBVIOUS
  <2> USE DEF fixed, flags, outcome, request, stopping, tailer, remote, controllerSide
  <2>0. pc \in AfterStop /\ runner \in [Hosts -> {"idle", "running", "exited"}]
    BY DEF StopInv, StopIsLatched, TypeOK
  <2>1. CASE Terminate
    BY <2>1 DEF Terminate
  <2>2. ASSUME NEW h \in Hosts, StartRep(h) PROVE FALSE
    BY <2>0, <2>2 DEF StartRep, Attended, AfterStop, StopPoints, VerdictPoints
  <2>3. ASSUME NEW h \in Hosts, RepExits(h) \/ RelayRep(h) \/ LoseHost(h) \/ TailRead(h)
        PROVE  \A g \in Hosts : runner'[g] = "running" => runner[g] = "running"
    BY <2>0, <2>3 DEF RepExits, RelayRep, LoseHost, TailRead
  <2>4. CASE UNCHANGED runner
    BY <2>4
  <2>5. CASE UserInterface \/ TouchStopFile \/ TailConfirm \/ Finished
    BY <2>5 DEF UserInterface, ArmStop, RequestStop, AnnounceStop, TouchStopFile,
         TailConfirm, Finished, vars
  <2>6. Controller => Terminate \/ UNCHANGED runner
    BY DEF Controller, Launch, Complete, EnterInitialState, CheckBeforeSetup, SetupReturned,
       ArmCheck, LoopTop, StartWorkload, PluginSetupReturned, PluginUndoReturned, CheckBeforeRun,
       RunReturned, CollectReturned, CheckAfterExecution, PluginTeardownReturned, CheckAfterRun,
       StopPlaybookReturned, SeeTimeout, Expire, StopProtocolReturns, EnterTeardown,
       TeardownCheck, MaybeInterruptTeardown, TeardownReturned, BuildSummary, ReadState,
       ReadCleanup, FinalizeSuccess, HandleFailure
  <2> QED BY <2>1, <2>2, <2>3, <2>4, <2>5, <2>6 DEF Next, Remote, Tailer, vars
<1> QED BY <1>1, StopInvariant, Typing, PTL DEF Spec, NoWorkAfterStop

Kept == /\ state \in AllowsCleanup => state' = state
        /\ state = "stop_failed" => state' = state \/ (state' = "aborted" /\ confirmed = Hosts)

\* A terminal state is left only for a target that overrides the table.
LEMMA NoWayOut == /\ \A s \in Terminal : \A t : t \notin Overrides => Moved(s, t) = s
                  /\ \A s, t : Moved(s, t) \in {s, t}
BY DEF Moved, CanMove, Allowed, Terminal, States

\* finished and aborted are never left, and a failed stop becomes aborted only
\* on the confirmations of every host (RunSession.transition, arm_stop).
THEOREM VerdictsFinal == Spec => VerdictsKept
<1>1. TypeOK /\ StopInv /\ [Next]_vars => Kept
  <2> SUFFICES ASSUME TypeOK, StopInv, [Next]_vars PROVE Kept
    OBVIOUS
  <2>0. /\ attempted => token /\ pc \in AfterStop
        /\ ~stop_ok => attempted
        /\ attempted /\ stop_ok /\ pc \notin StopPoints \cup {"fail", "done"} =>
             confirmed = Hosts
        /\ state \in AllowsCleanup => pc \in VerdictPoints
        /\ state = "stop_failed" => attempted
    BY DEF StopInv, StopIsLatched, StopIsConfirmed, VerdictIsEarned
  <2>00. /\ \A s \in AllowsCleanup \cup {"stop_failed"} : Armed(s) = s
         /\ \A s : Armed(s) \in {s, "stop_armed"}
    BY NoWayOut DEF Armed, Terminal, Overrides, AllowsCleanup
  <2> USE DEF fixed, flags, outcome, request, stopping, tailer, remote, controllerSide,
        Kept, AfterStop, StopPoints, VerdictPoints
  <2>1. CASE Launch
    BY <2>1, <2>0, <2>00, NoWayOut DEF Launch, StopsHere, StopSeen, GoesOn,
       LatchedState, AllowsCleanup, Overrides, Terminal
  <2>2. CASE Terminate
    BY <2>2, <2>0, <2>00, NoWayOut DEF Terminate, StopsHere, StopSeen,
       LatchedState, AllowsCleanup, Overrides, Terminal
  <2>3. CASE EnterInitialState
    BY <2>3, <2>0, <2>00, NoWayOut DEF EnterInitialState, AllowsCleanup,
       Overrides, Terminal
  <2>4. CASE CheckBeforeSetup
    BY <2>4, <2>0, <2>00, NoWayOut DEF CheckBeforeSetup, StopSeen, NoStop,
       SkipWorkloads, AllowsCleanup, Overrides, Terminal
  <2>5. CASE SetupReturned
    BY <2>5, <2>0, <2>00, NoWayOut DEF SetupReturned, Returned, StopSeen,
       NoStop, SkipWorkloads, AllowsCleanup, Overrides, Terminal
  <2>6. CASE ArmCheck
    BY <2>6, <2>0, <2>00, NoWayOut DEF ArmCheck, StopSeen, NoStop,
       AllowsCleanup, Overrides, Terminal
  <2>7. CASE LoopTop
    BY <2>7, <2>0, <2>00, NoWayOut DEF LoopTop, StopSeen, NoStop, HandleStop,
       NoHandleStop, AllowsCleanup, Overrides, Terminal
  <2>8. CASE StartWorkload
    BY <2>8, <2>0, <2>00, NoWayOut DEF StartWorkload, StopSeen, NoStop,
       HandleStop, NoHandleStop, LatchedState, NextWorkload, AllowsCleanup,
       Overrides, Terminal
  <2>9. CASE CheckBeforeRun
    BY <2>9, <2>0, <2>00, NoWayOut DEF CheckBeforeRun, StopSeen, NoStop,
       HandleStop, NoHandleStop, PendingHosts, AllowsCleanup, Overrides,
       Terminal
  <2>10. CASE CheckAfterExecution
    BY <2>10, <2>0, <2>00, NoWayOut DEF CheckAfterExecution, StopSeen, NoStop,
       HandleStop, NoHandleStop, LatchedState, AllowsCleanup, Overrides,
       Terminal
  <2>11. CASE CheckAfterRun
    BY <2>11, <2>0, <2>00, NoWayOut DEF CheckAfterRun, StopSeen, NoStop,
       HandleStop, NoHandleStop, NextWorkload, AllowsCleanup, Overrides,
       Terminal
  <2>12. CASE StopProtocolReturns
    BY <2>12, <2>0, <2>00, NoWayOut DEF StopProtocolReturns, AllowsCleanup,
       Overrides, Terminal
  <2>13. CASE EnterTeardown
    BY <2>13, <2>0, <2>00, NoWayOut DEF EnterTeardown, AllowsCleanup,
       Overrides, Terminal
  <2>14. CASE TeardownCheck
    BY <2>14, <2>0, <2>00, NoWayOut DEF TeardownCheck, StopSeen, NoStop,
       TeardownState, AllowsCleanup, Overrides, Terminal
  <2>15. CASE MaybeInterruptTeardown
    BY <2>15, <2>0, <2>00, NoWayOut DEF MaybeInterruptTeardown, StopSeen,
       NoStop, AllowsCleanup, Overrides, Terminal
  <2>16. CASE BuildSummary
    BY <2>16, <2>0, <2>00, NoWayOut DEF BuildSummary, StopSeen, NoStop,
       AllowsCleanup, Overrides, Terminal, ShouldStop
  <2>17. CASE FinalizeSuccess
    BY <2>17, <2>0, <2>00, NoWayOut DEF FinalizeSuccess, StopSeen, NoStop,
       AllowsCleanup, Overrides, Terminal
  <2>18. CASE HandleFailure
    BY <2>18, <2>0, <2>00, NoWayOut DEF HandleFailure, StopSeen, NoStop,
       AllowsCleanup, Overrides, Terminal
  <2>19. CASE ArmStop
    BY <2>19, <2>0, <2>00, NoWayOut DEF ArmStop, AllowsCleanup, Overrides,
       Terminal
  <2>20. CASE AnnounceStop
    BY <2>20, <2>0, <2>00, NoWayOut DEF AnnounceStop, AllowsCleanup,
       Overrides, Terminal
  <2>21. CASE Complete \/ PluginSetupReturned \/ PluginUndoReturned \/
     RunReturned \/ CollectReturned \/ PluginTeardownReturned \/
     StopPlaybookReturned \/ SeeTimeout \/ Expire \/ TeardownReturned \/
     ReadState \/ ReadCleanup \/ RequestStop \/ TouchStopFile \/ TailConfirm
    BY <2>21 DEF Complete, PluginSetupReturned, PluginUndoReturned,
       RunReturned, CollectReturned, PluginTeardownReturned,
       StopPlaybookReturned, SeeTimeout, Expire, TeardownReturned, ReadState,
       ReadCleanup, RequestStop, TouchStopFile, TailConfirm
  <2>22. ASSUME NEW h \in Hosts, StartRep(h) \/ RepExits(h) \/ RelayRep(h) \/
     LoseHost(h) \/ TailRead(h) PROVE Kept
    BY <2>22 DEF StartRep, RepExits, RelayRep, LoseHost, TailRead
  <2>23. CASE UNCHANGED vars
    BY <2>23 DEF vars
  <2> QED BY <2>1, <2>2, <2>3, <2>4, <2>5, <2>6, <2>7, <2>8, <2>9, <2>10,
     <2>11, <2>12, <2>13, <2>14, <2>15, <2>16, <2>17, <2>18, <2>19, <2>20,
     <2>21, <2>22, <2>23 DEF Next, Controller, UserInterface, Remote, Tailer,
     Finished
<1> QED BY <1>1, StopInvariant, Typing, PTL DEF Spec, VerdictsKept, Kept

-----------------------------------------------------------------------------
(* The outcome: what the waiting thread gets, and what finished stands for *)

SummaryPoints == {"summary_cleanup", "finalize"}
EndPoints == {"teardown", "teardown_check", "teardown_interrupt", "teardown_pb", "summary"}

\* The summary is made in two steps on the way to the end of the thread, and
\* its two reads of the machine agree, since what comes between can only arm it.
SummaryInv ==
  /\ pc \in SummaryPoints => summary.state # "none"
  /\ summary # NoSummary => pc \in SummaryPoints \cup {"fail", "done"}
  /\ pc = "summary_cleanup" => (summary.state \in AllowsCleanup <=> state \in AllowsCleanup)
  /\ pc # "summary_cleanup" /\ summary # NoSummary =>
       (summary.cleanup <=> summary.state \in AllowsCleanup)

\* The thread ends in a terminal state with something to return, and a machine
\* that build_summary could not finish cannot be finished later.
EndInv ==
  /\ pc = "done" => state \in Terminal /\ (raised \/ summary # NoSummary)
  /\ pc \in {"summary_state", "summary_cleanup", "finalize"} =>
       state \in Terminal \/ ~CanMove(state, "finished")

\* A runner is left alone only by a run playbook that is killed or loses its
\* host, and neither is a success.
OrphanInv ==
  orphan # {} => ~all_ok \/ (pc = "run_pb" /\ (exec \in {"stopped", "failed"}
                                               \/ (exec = "running" /\ lost # {})))

\* The loop is only left early on the way to a failure.
LoopInv ==
  /\ pc = "collect_pb" => ret \in {"fail", "exec_check"}
  /\ pc \in EndPoints /\ all_ok => wl = Workloads + 1

FinishInv ==
  state = "finished" => pc \in VerdictPoints /\ ~attempted /\ all_ok /\ wl = Workloads + 1
                        /\ orphan = {}

\* The protocol and the tailer's part in it only begin with a stop.
ProtocolInv == coord # "IDLE" \/ ingest # NoHost => attempted

OutcomeInv ==
  SummaryInv /\ EndInv /\ OrphanInv /\ LoopInv /\ FinishInv /\ ProtocolInv

\* What a move can do, whatever the state it starts from.
LEMMA Moves ==
  /\ \A s, t : Moved(s, t) \in {s, t} /\ (t \in Overrides => Moved(s, t) = t)
  /\ \A s : Armed(s) \in {s, "stop_armed"}
  /\ \A s \in Terminal : Armed(s) = s
  /\ \A s : Moved(s, "finished") = "finished" \/ ~CanMove(Moved(s, "finished"), "finished")
  /\ ~CanMove("stop_armed", "finished")
BY NoWayOut DEF Moved, Armed, CanMove, Allowed, States, Terminal, Overrides

\* The outcome's invariant is inductive, given those of the thread and of the stop.
LEMMA OutcomeInvariant == Spec => []OutcomeInv
<1>1. Init => OutcomeInv
  BY DEF Init, NoSummary, OutcomeInv, SummaryInv, EndInv, OrphanInv, LoopInv, FinishInv,
     ProtocolInv, SummaryPoints, EndPoints
<1>2. ThreadInv /\ StopInv /\ OutcomeInv /\ [Next]_vars => OutcomeInv'
  <2> SUFFICES ASSUME ThreadInv, StopInv, OutcomeInv, [Next]_vars PROVE OutcomeInv'
    OBVIOUS
  <2>0. /\ state \in States /\ ret \in Returns /\ wl \in 1 .. Workloads + 1
        /\ Workloads \in Nat /\ all_ok \in BOOLEAN /\ attempted \in BOOLEAN
        /\ \A h \in Hosts : runner[h] # "idle" => pc = "run_pb" /\ exec = "running"
        /\ attempted => token /\ pc \in AfterStop
        /\ pc \in StopPoints => attempted /\ ret \in {"teardown", "run_check"}
        /\ state \in AllowsCleanup => pc \in VerdictPoints
        /\ summary \in [state : States \cup {"none"}, cleanup : BOOLEAN, success : BOOLEAN]
    BY WorkloadsAssumption DEF ThreadInv, TypeOK, Attending, Attended, StopInv, StopIsLatched,
       VerdictIsEarned
  <2>00. /\ Terminal = {"finished", "aborted", "stop_failed", "failed"}
         /\ AllowsCleanup = {"finished", "aborted"} /\ "none" \notin States
         /\ Overrides = {"failed", "aborted", "stop_failed"}
    BY DEF Terminal, AllowsCleanup, Overrides, States
  <2> USE Moves DEF fixed, flags, outcome, request, stopping, tailer, remote, controllerSide,
        OutcomeInv, SummaryInv, EndInv, OrphanInv, LoopInv, FinishInv, ProtocolInv,
        SummaryPoints, EndPoints, AfterStop, StopPoints, VerdictPoints, NoSummary, ShouldStop
  <2>1. CASE Launch
    BY <2>1, <2>0, <2>00 DEF Launch, StopsHere, StopSeen, GoesOn, LatchedState
  <2>2. CASE Terminate
    BY <2>2, <2>0, <2>00 DEF Terminate, StopsHere, StopSeen, LatchedState
  <2>3. CASE Complete
    BY <2>3, <2>0, <2>00 DEF Complete, GoesOn
  <2>4. CASE EnterInitialState
    BY <2>4, <2>0, <2>00 DEF EnterInitialState
  <2>5. CASE CheckBeforeSetup
    BY <2>5, <2>0, <2>00 DEF CheckBeforeSetup, StopSeen, NoStop, SkipWorkloads
  <2>6. CASE SetupReturned
    BY <2>6, <2>0, <2>00 DEF SetupReturned, Returned, StopSeen, NoStop, SkipWorkloads
  <2>7. CASE ArmCheck
    BY <2>7, <2>0, <2>00 DEF ArmCheck, StopSeen, NoStop
  <2>8. CASE LoopTop
    BY <2>8, <2>0, <2>00 DEF LoopTop, StopSeen, NoStop, HandleStop, NoHandleStop
  <2>9. CASE StartWorkload
    BY <2>9, <2>0, <2>00 DEF StartWorkload, StopSeen, NoStop, HandleStop, NoHandleStop,
       LatchedState, NextWorkload
  <2>10. CASE PluginSetupReturned
    BY <2>10, <2>0, <2>00 DEF PluginSetupReturned, Returned, NextWorkload
  <2>11. CASE PluginUndoReturned
    BY <2>11, <2>0, <2>00 DEF PluginUndoReturned, Returned, NextWorkload
  <2>12. CASE CheckBeforeRun
    BY <2>12, <2>0, <2>00 DEF CheckBeforeRun, StopSeen, NoStop, HandleStop, NoHandleStop,
       PendingHosts
  <2>13. CASE RunReturned
    BY <2>13, <2>0, <2>00 DEF RunReturned, Returned
  <2>14. CASE CollectReturned
    BY <2>14, <2>0, <2>00 DEF CollectReturned, Returned, Returns
  <2>15. CASE CheckAfterExecution
    BY <2>15, <2>0, <2>00 DEF CheckAfterExecution, StopSeen, NoStop, HandleStop,
       NoHandleStop, LatchedState
  <2>16. CASE PluginTeardownReturned
    BY <2>16, <2>0, <2>00 DEF PluginTeardownReturned, Returned
  <2>17. CASE CheckAfterRun
    BY <2>17, <2>0, <2>00 DEF CheckAfterRun, StopSeen, NoStop, HandleStop, NoHandleStop,
       NextWorkload, ShouldStop
  <2>18. CASE StopPlaybookReturned
    BY <2>18, <2>0, <2>00 DEF StopPlaybookReturned, Returned
  <2>19. CASE SeeTimeout
    BY <2>19, <2>0, <2>00 DEF SeeTimeout
  <2>20. CASE Expire
    BY <2>20, <2>0, <2>00 DEF Expire
  <2>21. CASE StopProtocolReturns
    BY <2>21, <2>0, <2>00 DEF StopProtocolReturns
  <2>22. CASE EnterTeardown
    BY <2>22, <2>0, <2>00 DEF EnterTeardown
  <2>23. CASE TeardownCheck
    BY <2>23, <2>0, <2>00 DEF TeardownCheck, StopSeen, NoStop, TeardownState
  <2>24. CASE MaybeInterruptTeardown
    BY <2>24, <2>0, <2>00 DEF MaybeInterruptTeardown, StopSeen, NoStop
  <2>25. CASE TeardownReturned
    BY <2>25, <2>0, <2>00 DEF TeardownReturned, Returned
  <2>26. CASE BuildSummary
    BY <2>26, <2>0, <2>00 DEF BuildSummary, StopSeen, NoStop, ShouldStop
  <2>27. CASE ReadState
    BY <2>27, <2>0, <2>00 DEF ReadState
  <2>28. CASE ReadCleanup
    BY <2>28, <2>0, <2>00 DEF ReadCleanup
  <2>29. CASE FinalizeSuccess
    BY <2>29, <2>0, <2>00 DEF FinalizeSuccess, StopSeen, NoStop
  <2>30. CASE HandleFailure
    BY <2>30, <2>0, <2>00 DEF HandleFailure, StopSeen, NoStop
  <2>31. CASE ArmStop
    BY <2>31, <2>0, <2>00 DEF ArmStop
  <2>32. CASE RequestStop
    BY <2>32, <2>0, <2>00 DEF RequestStop
  <2>33. CASE AnnounceStop
    BY <2>33, <2>0, <2>00 DEF AnnounceStop
  <2>34. CASE TouchStopFile
    BY <2>34, <2>0, <2>00 DEF TouchStopFile
  <2>35. CASE TailConfirm
    BY <2>35, <2>0, <2>00 DEF TailConfirm
  <2>36. ASSUME NEW h \in Hosts, StartRep(h) PROVE OutcomeInv'
    BY <2>36, <2>0, <2>00 DEF StartRep
  <2>37. ASSUME NEW h \in Hosts, RepExits(h) PROVE OutcomeInv'
    BY <2>37, <2>0, <2>00 DEF RepExits
  <2>38. ASSUME NEW h \in Hosts, RelayRep(h) PROVE OutcomeInv'
    BY <2>38, <2>0, <2>00 DEF RelayRep
  <2>39. ASSUME NEW h \in Hosts, LoseHost(h) PROVE OutcomeInv'
    BY <2>39, <2>0, <2>00 DEF LoseHost
  <2>40. ASSUME NEW h \in Hosts, TailRead(h) PROVE OutcomeInv'
    BY <2>40, <2>0, <2>00 DEF TailRead
  <2>41. CASE UNCHANGED vars
    BY <2>41, <2>0, <2>00 DEF vars
  <2> QED BY <2>1, <2>2, <2>3, <2>4, <2>5, <2>6, <2>7, <2>8, <2>9, <2>10, <2>11, <2>12,
     <2>13, <2>14, <2>15, <2>16, <2>17, <2>18, <2>19, <2>20, <2>21, <2>22, <2>23, <2>24,
     <2>25, <2>26, <2>27, <2>28, <2>29, <2>30, <2>31, <2>32, <2>33, <2>34, <2>35, <2>36,
     <2>37, <2>38, <2>39, <2>40, <2>41 DEF Next, Controller, UserInterface, Remote, Tailer,
     Finished
<1> QED BY <1>1, <1>2, ThreadInvariant, StopInvariant, PTL DEF Spec

\* When the controller thread ends, the machine is in a terminal state, the
\* waiting thread has a summary or an exception, and a summary answers for the
\* cleanup as its state does (build_summary, _finalize_success, _handle_failure).
THEOREM EndsTerminal == Spec => []DoneIsTerminal
<1>1. OutcomeInv => DoneIsTerminal
  BY DEF OutcomeInv, SummaryInv, EndInv, DoneIsTerminal
<1> QED BY <1>1, OutcomeInvariant, PTL

-----------------------------------------------------------------------------
(* What finished says of stops *)

\* The states of a machine that has not been asked to stop; a move leads to
\* finished from none but two of these, and back into them from no other.
Unasked == {"init", "running_global_setup", "running_workloads", "running_global_teardown"}

LEMMA AskedMoves ==
  /\ \A s \in States \ Unasked : \A t : Moved(s, t) \notin Unasked
  /\ \A s \in States : Armed(s) \in States \ Unasked
  /\ \A s \in States \ Unasked : Moved(s, "finished") = "finished" => s = "finished"
  /\ \A s : Armed(s) \in {s, "stop_armed"} /\ \A t : Moved(s, t) \in {s, t}
<1>1. /\ \A s \in States : Allowed[s] \subseteq States
      /\ \A s \in States \ Unasked : Allowed[s] \cap (Unasked \cup {"finished"}) = {}
      /\ \A s \in Unasked : "stop_armed" \in Allowed[s]
      /\ Unasked \subseteq States
  BY DEF Allowed, States, Unasked
<1>2. /\ (Unasked \cup {"finished"}) \cap Overrides = {}
      /\ "stop_armed" \in States \ Unasked
  BY DEF Overrides, States, Unasked
<1> QED BY <1>1, <1>2 DEF Moved, Armed, CanMove

\* What every step does to the machine: it does not take back that a stop was
\* asked for, and only the two verdicts can make it finished.
Onward ==
  /\ state \notin Unasked => state' \notin Unasked
  /\ ui = "idle" => ui' = "idle" \/ ArmStop
  /\ state' = "finished" => state = "finished" \/ BuildSummary \/ FinalizeSuccess

LEMMA StepsGoOnward == TypeOK /\ [Next]_vars => Onward
<1> SUFFICES ASSUME TypeOK, [Next]_vars PROVE Onward
  OBVIOUS
<1>0. state \in States
  BY DEF TypeOK
<1>00. {"stop_armed", "finished", "aborted", "stop_failed", "failed"} \cap Unasked = {}
  BY DEF Unasked
<1> USE AskedMoves DEF request, controllerSide, Onward
<1>1. CASE Launch
  BY <1>1, <1>0, <1>00 DEF Launch, StopsHere, StopSeen, GoesOn, LatchedState
<1>2. CASE Terminate
  BY <1>2, <1>0, <1>00 DEF Terminate, StopsHere, StopSeen, LatchedState
<1>3. CASE EnterInitialState
  BY <1>3, <1>0, <1>00 DEF EnterInitialState
<1>4. CASE CheckBeforeSetup
  BY <1>4, <1>0, <1>00 DEF CheckBeforeSetup, StopSeen, NoStop
<1>5. CASE SetupReturned
  BY <1>5, <1>0, <1>00 DEF SetupReturned, StopSeen, NoStop
<1>6. CASE ArmCheck
  BY <1>6, <1>0, <1>00 DEF ArmCheck, StopSeen, NoStop
<1>7. CASE LoopTop
  BY <1>7, <1>0, <1>00 DEF LoopTop, StopSeen, NoStop, HandleStop
<1>8. CASE StartWorkload
  BY <1>8, <1>0, <1>00 DEF StartWorkload, StopSeen, NoStop, HandleStop, LatchedState
<1>9. CASE CheckBeforeRun
  BY <1>9, <1>0, <1>00 DEF CheckBeforeRun, StopSeen, NoStop, HandleStop
<1>10. CASE CheckAfterExecution
  BY <1>10, <1>0, <1>00 DEF CheckAfterExecution, StopSeen, NoStop, HandleStop, LatchedState
<1>11. CASE CheckAfterRun
  BY <1>11, <1>0, <1>00 DEF CheckAfterRun, StopSeen, NoStop, HandleStop
<1>12. CASE StopProtocolReturns
  BY <1>12, <1>0, <1>00 DEF StopProtocolReturns
<1>13. CASE EnterTeardown
  BY <1>13, <1>0, <1>00 DEF EnterTeardown
<1>14. CASE TeardownCheck
  <2>1. \/ state' = TeardownState(Armed(state), "stopping_teardown")
        \/ state' = TeardownState(state, "running_global_teardown")
    BY <1>14 DEF TeardownCheck
  <2>2. \A s, t : TeardownState(s, t) \in {s, Moved(s, t)}
    BY DEF TeardownState
  <2>3. Armed(state) \in States \ Unasked /\ Armed(state) \in {state, "stop_armed"}
    BY <1>0, AskedMoves
  <2>4. /\ state \notin Unasked => state' \notin Unasked
        /\ state' \in {state, "stop_armed", "stopping_teardown", "running_global_teardown"}
    <3>1. CASE state' \in {Armed(state), Moved(Armed(state), "stopping_teardown")}
      BY <2>3, <3>1, AskedMoves
    <3>2. CASE state' \in {state, Moved(state, "running_global_teardown")}
      BY <1>0, <3>2, AskedMoves
    <3> QED BY <2>1, <2>2, <3>1, <3>2
  <2>5. ui' = ui
    BY <1>14 DEF TeardownCheck, StopSeen, NoStop
  <2> QED BY <2>4, <2>5
<1>15. CASE MaybeInterruptTeardown
  <2>1. \/ state' = Moved(Armed(state), "stopping_interrupt_teardown") \/ UNCHANGED state
    BY <1>15 DEF MaybeInterruptTeardown
  <2>2. Armed(state) \in States \ Unasked /\ Armed(state) \in {state, "stop_armed"}
    BY <1>0, AskedMoves
  <2>3. \/ UNCHANGED state
        \/ /\ state' \notin Unasked
           /\ state' \in {state, "stop_armed", "stopping_interrupt_teardown"}
    BY <2>1, <2>2, AskedMoves
  <2>4. ui' = ui
    BY <1>15 DEF MaybeInterruptTeardown, StopSeen, NoStop
  <2> QED BY <2>3, <2>4
<1>16. CASE BuildSummary
  BY <1>16, <1>0, <1>00 DEF BuildSummary, StopSeen, NoStop
<1>17. CASE FinalizeSuccess
  BY <1>17, <1>0, <1>00 DEF FinalizeSuccess, StopSeen, NoStop
<1>18. CASE HandleFailure
  BY <1>18, <1>0, <1>00 DEF HandleFailure, StopSeen, NoStop
<1>19. CASE ArmStop
  BY <1>19, <1>0, <1>00 DEF ArmStop
<1>20. CASE AnnounceStop
  BY <1>20, <1>0, <1>00 DEF AnnounceStop
<1>21. CASE Complete \/ PluginSetupReturned \/ PluginUndoReturned \/ RunReturned \/
           CollectReturned \/ PluginTeardownReturned \/ StopPlaybookReturned \/ SeeTimeout \/
           Expire \/ TeardownReturned \/ ReadState \/ ReadCleanup
  BY <1>21 DEF Complete, GoesOn, PluginSetupReturned, PluginUndoReturned, RunReturned,
     CollectReturned, PluginTeardownReturned, StopPlaybookReturned, SeeTimeout, Expire,
     TeardownReturned, ReadState, ReadCleanup
<1>22. CASE RequestStop \/ TouchStopFile \/ TailConfirm
  BY <1>22 DEF RequestStop, TouchStopFile, TailConfirm
<1>23. ASSUME NEW h \in Hosts, StartRep(h) \/ RepExits(h) \/ RelayRep(h) \/ LoseHost(h) \/ TailRead(h)
       PROVE  Onward
  BY <1>23 DEF StartRep, RepExits, RelayRep, LoseHost, TailRead
<1>24. CASE UNCHANGED vars
  BY <1>24 DEF vars
<1> QED BY <1>1, <1>2, <1>3, <1>4, <1>5, <1>6, <1>7, <1>8, <1>9, <1>10, <1>11, <1>12, <1>13,
     <1>14, <1>15, <1>16, <1>17, <1>18, <1>19, <1>20, <1>21, <1>22, <1>23, <1>24
     DEF Next, Controller, UserInterface, Remote, Tailer, Finished

\* Once the UI thread has armed the machine, no step takes that back.
AskInv == ui # "idle" => state \notin Unasked

LEMMA AskInvariant == Spec => []AskInv
<1>1. Init => AskInv
  BY DEF Init, AskInv
<1>2. TypeOK /\ AskInv /\ [Next]_vars => AskInv'
  <2> SUFFICES ASSUME TypeOK, AskInv, [Next]_vars PROVE AskInv'
    OBVIOUS
  <2>1. Onward /\ state \in States
    BY StepsGoOnward DEF TypeOK
  <2>2. ArmStop => state' \notin Unasked
    BY <2>1, AskedMoves DEF ArmStop
  <2> QED BY <2>1, <2>2 DEF AskInv, Onward
<1> QED BY <1>1, <1>2, Typing, PTL DEF Spec

\* A run is only reported finished when no stop was asked for, by arm_stop or by
\* the file, wherever the run was; it has then done all its workloads and left
\* no runner, neither one it attends nor one it abandoned (run_playbook,
\* _run_global_setup, build_summary).
THEOREM FinishedIsOver == Spec => FinishedIsQuiet
<1>1. ThreadInv' /\ OutcomeInv' => (state' = "finished" => Undisturbed')
  BY DEF ThreadInv, TypeOK, Attending, Attended, OutcomeInv, FinishInv, Undisturbed,
     VerdictPoints
<1>2. TypeOK /\ OutcomeInv /\ AskInv /\ [Next]_vars =>
        (state # "finished" /\ state' = "finished" => ui = "idle" /\ ~token /\ ~stop_file)
  <2> SUFFICES ASSUME TypeOK, OutcomeInv, AskInv, [Next]_vars, state # "finished",
                      state' = "finished"
               PROVE  ui = "idle" /\ ~token /\ ~stop_file
    OBVIOUS
  <2>1. state \in States /\ (BuildSummary \/ FinalizeSuccess)
    BY StepsGoOnward DEF Onward, TypeOK
  <2>2. ~FinalizeSuccess
    BY DEF FinalizeSuccess, OutcomeInv, EndInv, Terminal
  <2>3. ~ShouldStop /\ Moved(state, "finished") = "finished"
    <3>1. Armed(state) \in {state, "stop_armed"}
          /\ \A s, t : Moved(s, t) \in {s, t}
      BY AskedMoves
    <3> QED BY <2>1, <2>2, <3>1 DEF BuildSummary, StopSeen, NoStop
  <2>4. state \in Unasked
    BY <2>1, <2>3, AskedMoves
  <2> QED BY <2>3, <2>4 DEF AskInv, ShouldStop
<1>3. ThreadInv' /\ OutcomeInv' /\ TypeOK /\ OutcomeInv /\ AskInv /\ [Next]_vars =>
        /\ state # "finished" /\ state' = "finished" => ui = "idle" /\ ~token /\ ~stop_file
        /\ state' = "finished" => Undisturbed'
  BY <1>1, <1>2
<1> QED BY <1>3, ThreadInvariant, Typing, OutcomeInvariant, AskInvariant, PTL DEF Spec,
      FinishedIsQuiet

\* While the stop protocol waits, no line that could confirm it is added to the
\* log: the playbook that relays is dead (handle_stop_during_workloads).
THEOREM OnlyOldConfirmations == Spec => ConfirmationsPredateStop
<1>1. ThreadInv /\ StopInv /\ OutcomeInv /\ [Next]_vars =>
        (coord = "STOPPING_WORKLOADS" => \A h \in Hosts : unread'[h] <= unread[h])
  <2> SUFFICES ASSUME ThreadInv, StopInv, OutcomeInv, [Next]_vars, coord = "STOPPING_WORKLOADS"
               PROVE  \A h \in Hosts : unread'[h] <= unread[h]
    OBVIOUS
  <2>1. ~Attended /\ unread \in [Hosts -> Nat]
    BY DEF ThreadInv, TypeOK, StopInv, StopIsLatched, OutcomeInv, ProtocolInv, Attended,
       AfterStop, StopPoints, VerdictPoints
  <2>2. CASE UNCHANGED unread
    BY <2>1, <2>2
  <2>3. ASSUME NEW h \in Hosts, TailRead(h) PROVE \A g \in Hosts : unread'[g] <= unread[g]
    BY <2>1, <2>3 DEF TailRead
  <2>4. Controller \/ UserInterface \/ TouchStopFile \/ TailConfirm \/ Finished => UNCHANGED unread
    BY DEF tailer, vars, UserInterface, ArmStop, RequestStop, AnnounceStop, TouchStopFile,
       TailConfirm, Finished, Controller, Launch, Terminate, Complete, EnterInitialState,
       CheckBeforeSetup, SetupReturned, ArmCheck, LoopTop, StartWorkload, PluginSetupReturned,
       PluginUndoReturned, CheckBeforeRun, RunReturned, CollectReturned, CheckAfterExecution,
       PluginTeardownReturned, CheckAfterRun, StopPlaybookReturned, SeeTimeout, Expire,
       StopProtocolReturns, EnterTeardown, TeardownCheck, MaybeInterruptTeardown,
       TeardownReturned, BuildSummary, ReadState, ReadCleanup, FinalizeSuccess, HandleFailure
  <2>5. ASSUME NEW h \in Hosts, StartRep(h) \/ RepExits(h) \/ RelayRep(h) \/ LoseHost(h)
        PROVE  UNCHANGED unread
    BY <2>1, <2>5 DEF StartRep, RepExits, RelayRep, LoseHost, tailer
  <2> QED BY <2>2, <2>3, <2>4, <2>5 DEF Next, Remote, Tailer, vars, tailer
<1> QED BY <1>1, ThreadInvariant, StopInvariant, OutcomeInvariant, PTL DEF Spec,
      ConfirmationsPredateStop

-----------------------------------------------------------------------------
(* The refinement of RunOutcome *)

\* Seen by the client, a step of the run is one of five: it changes nothing but
\* that repetitions may end, begins the stop protocol, closes the run, starts a
\* repetition, or takes a confirmation.
Calm ==
  /\ UNCHANGED <<Closed, attempted, confirmed>> /\ (Closed => summary' = summary)
  /\ \A h \in Hosts : runner'[h] = "running" => runner[h] = "running"
Stops ==
  /\ ~attempted /\ attempted' /\ ~Closed /\ ~Closed' /\ UNCHANGED <<runner, confirmed>>
Closes ==
  /\ ~Closed /\ Closed' /\ UNCHANGED <<attempted, runner, confirmed>>
  /\ \A h \in Hosts : runner[h] # "running"
  /\ summary'.cleanup /\ attempted => confirmed = Hosts
Works(h) == StartRep(h) /\ ~attempted /\ ~Closed
Confirms == TailConfirm /\ ingest \in Hosts /\ (attempted \/ Closed)

\* Each action of the run is a step of one of these kinds.
LEMMA StepKinds ==
  ThreadInv /\ StopInv /\ StopInv' /\ OutcomeInv /\ [Next]_vars =>
    Calm \/ Stops \/ Closes \/ Confirms \/ \E h \in Hosts : Works(h)
<1> SUFFICES ASSUME ThreadInv, StopInv, StopInv', OutcomeInv, [Next]_vars
             PROVE  Calm \/ Stops \/ Closes \/ Confirms \/ \E h \in Hosts : Works(h)
  OBVIOUS
<1> DEFINE Kind == Calm \/ Stops \/ Closes \/ Confirms \/ \E h \in Hosts : Works(h)
<1>a. /\ attempted \in BOOLEAN /\ confirmed \subseteq Hosts /\ ingest \in Hosts \cup {NoHost}
      /\ runner \in [Hosts -> {"idle", "running", "exited"}] /\ ret \in Returns
      /\ \A h \in Hosts : runner[h] # "idle" => pc = "run_pb" /\ exec = "running"
      /\ attempted => pc \in AfterStop
      /\ pc \in StopPoints => attempted /\ ret \in {"teardown", "run_check"}
      /\ pc = "collect_pb" => ret \in {"fail", "exec_check"}
      /\ pc \in SummaryPoints => summary.state # "none"
      /\ summary # NoSummary => pc \in SummaryPoints \cup {"fail", "done"}
      /\ ingest # NoHost => attempted
      /\ summary \in [state : States \cup {"none"}, cleanup : BOOLEAN, success : BOOLEAN]
      /\ summary'.cleanup /\ attempted' => confirmed' = Hosts
  BY DEF ThreadInv, TypeOK, Attending, Attended, StopInv, StopIsLatched, CleanupIsLast,
     CleanupOnlyWhenConfirmed, OutcomeInv, SummaryInv, LoopInv, ProtocolInv
<1> USE DEF fixed, flags, outcome, request, stopping, tailer, remote, controllerSide, Closed,
     Calm, Stops, Closes, SummaryPoints, AfterStop, StopPoints, VerdictPoints, NoSummary, Kind
<1>1. CASE Launch
  BY <1>1, <1>a DEF Launch, StopsHere, StopSeen, GoesOn, LatchedState
<1>2. CASE Terminate
  BY <1>2, <1>a DEF Terminate, StopsHere, StopSeen, LatchedState
<1>3. CASE Complete
  BY <1>3, <1>a DEF Complete, GoesOn
<1>4. CASE EnterInitialState
  BY <1>4, <1>a DEF EnterInitialState
<1>5. CASE CheckBeforeSetup
  BY <1>5, <1>a DEF CheckBeforeSetup, StopSeen, NoStop, SkipWorkloads
<1>6. CASE SetupReturned
  BY <1>6, <1>a DEF SetupReturned, Returned, StopSeen, NoStop, SkipWorkloads
<1>7. CASE ArmCheck
  BY <1>7, <1>a DEF ArmCheck, StopSeen, NoStop
<1>8. CASE LoopTop
  BY <1>8, <1>a DEF LoopTop, StopSeen, NoStop, HandleStop, NoHandleStop
<1>9. CASE StartWorkload
  BY <1>9, <1>a DEF StartWorkload, StopSeen, NoStop, HandleStop, NoHandleStop,
       LatchedState, NextWorkload
<1>10. CASE PluginSetupReturned
  BY <1>10, <1>a DEF PluginSetupReturned, Returned, NextWorkload
<1>11. CASE PluginUndoReturned
  BY <1>11, <1>a DEF PluginUndoReturned, Returned, NextWorkload
<1>12. CASE CheckBeforeRun
  BY <1>12, <1>a DEF CheckBeforeRun, StopSeen, NoStop, HandleStop, NoHandleStop,
       PendingHosts
<1>13. CASE RunReturned
  BY <1>13, <1>a DEF RunReturned, Returned
<1>14. CASE CollectReturned
  BY <1>14, <1>a DEF CollectReturned, Returned, Returns
<1>15. CASE CheckAfterExecution
  BY <1>15, <1>a DEF CheckAfterExecution, StopSeen, NoStop, HandleStop, NoHandleStop,
       LatchedState
<1>16. CASE PluginTeardownReturned
  BY <1>16, <1>a DEF PluginTeardownReturned, Returned
<1>17. CASE CheckAfterRun
  BY <1>17, <1>a DEF CheckAfterRun, StopSeen, NoStop, HandleStop, NoHandleStop,
       NextWorkload, ShouldStop
<1>18. CASE StopPlaybookReturned
  BY <1>18, <1>a DEF StopPlaybookReturned, Returned
<1>19. CASE SeeTimeout
  BY <1>19, <1>a DEF SeeTimeout
<1>20. CASE Expire
  BY <1>20, <1>a DEF Expire
<1>21. CASE StopProtocolReturns
  BY <1>21, <1>a DEF StopProtocolReturns
<1>22. CASE EnterTeardown
  BY <1>22, <1>a DEF EnterTeardown
<1>23. CASE TeardownCheck
  BY <1>23, <1>a DEF TeardownCheck, StopSeen, NoStop, TeardownState
<1>24. CASE MaybeInterruptTeardown
  BY <1>24, <1>a DEF MaybeInterruptTeardown, StopSeen, NoStop
<1>25. CASE TeardownReturned
  BY <1>25, <1>a DEF TeardownReturned, Returned
<1>26. CASE BuildSummary
  BY <1>26, <1>a DEF BuildSummary, StopSeen, NoStop, ShouldStop
<1>27. CASE ReadState
  BY <1>27, <1>a DEF ReadState
<1>28. CASE ReadCleanup
  BY <1>28, <1>a DEF ReadCleanup
<1>29. CASE FinalizeSuccess
  BY <1>29, <1>a DEF FinalizeSuccess, StopSeen, NoStop
<1>30. CASE HandleFailure
  BY <1>30, <1>a DEF HandleFailure, StopSeen, NoStop
<1>31. CASE ArmStop
  BY <1>31, <1>a DEF ArmStop
<1>32. CASE RequestStop
  BY <1>32, <1>a DEF RequestStop
<1>33. CASE AnnounceStop
  BY <1>33, <1>a DEF AnnounceStop
<1>34. CASE TouchStopFile
  BY <1>34, <1>a DEF TouchStopFile
<1>35. CASE TailConfirm
  <2>1. ingest \in Hosts /\ attempted
    BY <1>35, <1>a DEF TailConfirm
  <2> QED BY <1>35, <2>1 DEF Confirms
<1>36. ASSUME NEW h \in Hosts, StartRep(h) PROVE Kind
  <2>1. ~attempted /\ ~Closed
    BY <1>36, <1>a DEF StartRep, Attended
  <2> QED BY <1>36, <2>1 DEF Works
<1>37. ASSUME NEW h \in Hosts, RepExits(h) PROVE Kind
  BY <1>37, <1>a DEF RepExits
<1>38. ASSUME NEW h \in Hosts, RelayRep(h) PROVE Kind
  BY <1>38, <1>a DEF RelayRep
<1>39. ASSUME NEW h \in Hosts, LoseHost(h) PROVE Kind
  BY <1>39, <1>a DEF LoseHost
<1>40. ASSUME NEW h \in Hosts, TailRead(h) PROVE Kind
  BY <1>40, <1>a DEF TailRead
<1>41. CASE UNCHANGED vars
  BY <1>41, <1>a DEF vars
<1> QED BY <1>1, <1>2, <1>3, <1>4, <1>5, <1>6, <1>7, <1>8, <1>9, <1>10, <1>11, <1>12,
   <1>13, <1>14, <1>15, <1>16, <1>17, <1>18, <1>19, <1>20, <1>21, <1>22, <1>23, <1>24,
   <1>25, <1>26, <1>27, <1>28, <1>29, <1>30, <1>31, <1>32, <1>33, <1>34, <1>35, <1>36,
   <1>37, <1>38, <1>39, <1>40, <1>41 DEF Next, Controller, UserInterface, Remote, Tailer,
     Finished

\* The controller thread, the UI thread, the hosts and the tailer together keep
\* the promise of RunOutcome to the client: its initial states are initial there,
\* and each step is one there or a stutter (client.py _cleanup_provisioning).
THEOREM PromiseKept == Spec => KeepsPromise
<1>1. Init => Promise!Init
  BY DEF Init, Promise!Init, Closed, NoSummary
<1>2. ThreadInv /\ StopInv /\ StopInv' /\ OutcomeInv /\ [Next]_vars => [Promise!Next]_(Promise!vars)
  <2> SUFFICES ASSUME ThreadInv, StopInv, StopInv', OutcomeInv, [Next]_vars
               PROVE  [Promise!Next]_(Promise!vars)
    OBVIOUS
  <2>1. CASE Calm
    <3>1. Promise!Release
      BY <2>1 DEF Calm, Promise!Release
    <3> QED BY <3>1 DEF Promise!Next
  <2>2. CASE Stops
    <3>1. Promise!BeginStop
      BY <2>2 DEF Stops, Promise!BeginStop
    <3> QED BY <3>1 DEF Promise!Next
  <2>3. CASE Closes
    <3>1. Promise!Close
      BY <2>3 DEF Closes, Promise!Close
    <3> QED BY <3>1 DEF Promise!Next
  <2>4. CASE Confirms
    <3>1. Promise!Acknowledge(ingest)
      BY <2>4 DEF Confirms, TailConfirm, Promise!Acknowledge, controllerSide, flags, outcome,
         remote, Closed
    <3> QED BY <2>4, <3>1 DEF Confirms, Promise!Next
  <2>5. ASSUME NEW h \in Hosts, Works(h) PROVE Promise!Work(h)
    <3>1. runner' = [runner EXCEPT ![h] = "running"] /\ runner \in [Hosts -> {"idle", "running", "exited"}]
      BY <2>5 DEF Works, StartRep, ThreadInv, TypeOK
    <3>2. {g \in Hosts : runner'[g] = "running"} = {g \in Hosts : runner[g] = "running"} \cup {h}
      BY <3>1
    <3> QED BY <2>5, <3>2 DEF Works, StartRep, Promise!Work, controllerSide, flags, outcome,
          stopping, Closed
  <2> QED BY <2>1, <2>2, <2>3, <2>4, <2>5, StepKinds DEF Promise!Next
<1> QED
  BY <1>1, <1>2, ThreadInvariant, StopInvariant, OutcomeInvariant, PTL
     DEF Spec, KeepsPromise, Promise!Spec
=============================================================================
