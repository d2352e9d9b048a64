----------------------------- MODULE GuiWindow -----------------------------
(***************************************************************************)
(* The window of `lb gui': one event loop, in which the user's clicks and  *)
(* the signals of other threads are handled one at a time, message boxes   *)
(* that run the loop again until they are answered, and a QThread per run  *)
(* that calls ApplicationClient.start_run and signals its end.             *)
(*                                                                         *)
(* Before a run the user chooses a configuration and workloads.  What is   *)
(* chosen is in several places: the configuration service, the view models *)
(* of four sections, a run catalog that two of them share, and a list      *)
(* widget whose signals change the view model that fills it.               *)
(*                                                                         *)
(* External: Qt posts a signal to the receiver's thread, in order, to what *)
(* is connected when it is emitted; a message box keeps the user away from *)
(* the window; QListWidget signals a change of its selection, and clear()  *)
(* is one when something was selected.                                     *)
(***************************************************************************)
EXTENDS Naturals, Sequences, SequencesExt

CONSTANTS
  Runs,       \* bound: runs started from the window
  Configs,    \* configuration files; the first is the default
  Workloads   \* plugins, in the order in which they are listed

ASSUME BoundsAssumption ==
  Runs \in Nat \ {0} /\ Configs \in Nat \ {0} /\ Workloads \in Nat \ {0}

Run == 1 .. Runs
Config == 1 .. Configs
Workload == 1 .. Workloads
None == 0
Catalogued == {"results", "analytics"}

VARIABLES
  main,                   \* what the main thread is at: the loop, or on_start_run
  dialogs,                \* open message boxes, the last on top, each with the
                          \* run it was opened for
  posted,                 \* signals on their way to the main thread
  busy, stoppable,        \* sidebar disabled; stop button enabled
  window, orch,           \* _current_worker of MainWindow, of RunOrchestrator
  closed,
  started, thread, heard, \* runs; their QThreads; whether the window is connected
  place,                  \* where the stop file of a run is: its run, or Shared
  files,                  \* stop files that exist
  asked, stopped,         \* history: the user said yes; the run saw its stop file
  current, shown, setup,  \* configuration of the service, of the Config section,
                          \* of Run Setup
  catalog, ready, listed, \* of the shared catalog; is_configured of its two users,
                          \* and whose runs they list
  origin,                 \* history: the section that loaded last
  available, marked,      \* the list of workloads and its selection on screen
  selected                \* selected_workloads

loop == <<main, dialogs, posted>>
widgets == <<busy, stoppable>>
holders == <<window, orch>>
stops == <<files, asked>>
runs == <<started, thread, heard, place, stopped>>
catalogs == <<catalog, ready, listed>>
configs == <<current, shown, setup, catalogs, origin>>
choice == <<available, marked, selected>>
vars == <<loop, widgets, holders, closed, runs, stops, configs, choice>>

Shared == Runs + 1        \* a stop file the user names, the same each time
Box == ({"stop", "close"} \X Run) \cup {<<"told", None>>}
Slot == {"orch", "window"} \X Run \X BOOLEAN

LoopTypes ==
  /\ main \in {"loop", "connect", "show"} /\ dialogs \in Seq(Box) /\ posted \in Seq(Slot)
  /\ busy \in BOOLEAN /\ stoppable \in BOOLEAN /\ closed \in BOOLEAN
  /\ window \in Run \cup {None} /\ orch \in Run \cup {None}
RunTypes ==
  /\ started \in 0 .. Runs /\ heard \in [Run -> BOOLEAN]
  /\ thread \in [Run -> {"none", "begun", "executing", "ended", "gone"}]
  /\ place \in [Run -> Run \cup {Shared}] /\ \A r \in Run : place[r] \in {r, Shared}
  /\ files \subseteq Run \cup {Shared} /\ asked \subseteq Run /\ stopped \subseteq Run
ConfigTypes ==
  /\ current \in Config \cup {None} /\ shown \in Config \cup {None}
  /\ setup \in Config \cup {None} /\ catalog \in Config \cup {None}
  /\ ready \in [Catalogued -> BOOLEAN] /\ listed \in [Catalogued -> Config \cup {None}]
  /\ origin \in {"none", "config", "setup"}
ChoiceTypes ==
  available \subseteq Workload /\ marked \subseteq Workload /\ selected \subseteq Workload

TypeOK == LoopTypes /\ RunTypes /\ ConfigTypes /\ ChoiceTypes

-----------------------------------------------------------------------------
(* The list of workloads *)

\* Bug: the list's signals are blocked, and nothing is selected anew.
RelistKeeping(names, before, chosen) == [marked |-> {}, selected |-> chosen]

\* _on_workloads_changed with the names of the list, `before' the selection on
\* screen and `chosen' that of the view model.  Emptying a list with a selection
\* empties the view model's; selecting the first item makes it the only one.
Relist(names, before, chosen) ==
  LET kept == IF before = {} THEN chosen ELSE {}
      found == kept \cap names
      restored == {w \in found : \A v \in found : w <= v}
  IN  [marked |-> restored, selected |-> IF found = {} THEN kept ELSE restored]

Show(names, list) ==
  available' = names /\ marked' = list.marked /\ selected' = list.selected

\* refresh_workloads after the view model chose: which plugins are enabled and
\* installed is read anew, or cannot be read, and then nothing is forgotten.
RefreshAfter(chosen) ==
  \/ \E names \in SUBSET Workload : Show(names, Relist(names, marked, chosen \cap names))
  \/ Show({}, Relist({}, marked, chosen))

-----------------------------------------------------------------------------
(* The start of the application: RunSetupView, ResultsView, AnalyticsView and
   ConfigView load the default configuration, _setup_views gives it to all. *)

StartedWithout ==
  /\ current = None /\ shown = None /\ setup = None /\ catalog = None /\ origin = "none"
  /\ ready = [v \in Catalogued |-> FALSE] /\ listed = [v \in Catalogued |-> None]
  /\ available \in SUBSET Workload /\ marked = {} /\ selected = {}

StartedWith(chosen, names) ==
  LET first == Relist(names, {}, chosen \cap names)
      again == Relist(names, first.marked, chosen \cap names)
  IN  /\ current = 1 /\ shown = 1 /\ setup = 1 /\ catalog = 1 /\ origin = "config"
      /\ ready = [v \in Catalogued |-> TRUE] /\ listed = [v \in Catalogued |-> 1]
      /\ available = names /\ marked = again.marked /\ selected = again.selected

Init ==
  /\ main = "loop" /\ dialogs = <<>> /\ posted = <<>>
  /\ busy = FALSE /\ stoppable = FALSE /\ closed = FALSE
  /\ window = None /\ orch = None
  /\ started = 0 /\ thread = [r \in Run |-> "none"] /\ heard = [r \in Run |-> FALSE]
  /\ place = [r \in Run |-> r] /\ files = {} /\ asked = {} /\ stopped = {}
  /\ \/ StartedWithout
     \/ \E chosen, names \in SUBSET Workload : StartedWith(chosen, names)

\* The loop runs, in the window or in the topmost message box.
Looping == main = "loop" /\ ~closed
Clickable == Looping /\ dialogs = <<>>
Navigable == Clickable /\ ~busy

Opened(box) == dialogs' = Append(dialogs, box)
Top == dialogs[Len(dialogs)]

-----------------------------------------------------------------------------
(* Run Setup, Results, Analytics and Config *)

UnchangedButChoice ==
  UNCHANGED <<loop, widgets, holders, closed, runs, stops>>

RefreshWorkloads ==
  /\ Navigable /\ RefreshAfter(selected)
  /\ UnchangedButChoice /\ UNCHANGED configs

ToggleWorkload ==
  /\ Navigable
  /\ \E w \in available :
       marked' = (IF w \in marked THEN marked \ {w} ELSE marked \cup {w})
  /\ selected' = marked'
  /\ UnchangedButChoice /\ UNCHANGED <<available, configs>>

\* load_config of Run Setup with a file: the service learns of it, the other
\* sections do not; a bad one leaves Run Setup without.
LoadInSetup ==
  /\ Navigable /\ origin' = "setup"
  /\ \/ \E c \in Config, chosen \in SUBSET Workload :
          setup' = c /\ current' = c /\ RefreshAfter(chosen)
     \/ setup' = None /\ RefreshAfter(selected) /\ UNCHANGED current
  /\ UnchangedButChoice /\ UNCHANGED <<shown, catalogs>>

\* refresh_runs; the analytics section configures again after a failure.
Lists(v, config) ==
  \/ ready' = [ready EXCEPT ![v] = TRUE] /\ listed' = [listed EXCEPT ![v] = config]
  \/ /\ ready' = [ready EXCEPT ![v] = v = "results"]
     /\ listed' = [listed EXCEPT ![v] = None]

ListsBoth(config) ==
  \E ok \in BOOLEAN, okToo \in BOOLEAN :
    /\ ready' = [v \in Catalogued |-> v = "results" \/ okToo]
    /\ listed' = [v \in Catalogued |->
                    IF (v = "results" /\ ok) \/ (v = "analytics" /\ okToo) THEN config ELSE None]

\* Bug: the service does not learn what the Config section has loaded.
LoadInConfigOnly ==
  /\ Navigable
  /\ \E c \in Config :
       /\ shown' = c /\ setup' = c /\ catalog' = c /\ ListsBoth(c)
       /\ UNCHANGED current
  /\ origin' = "config"
  /\ \E chosen \in SUBSET Workload : RefreshAfter(chosen)
  /\ UnchangedButChoice

\* ConfigViewModel.load_config, and what config_loaded brings about.  A file that
\* cannot be loaded changes nothing.
LoadInConfig ==
  /\ Navigable
  /\ \E c \in Config :
       /\ shown' = c /\ current' = c /\ setup' = c /\ catalog' = c /\ ListsBoth(c)
  /\ origin' = "config"
  /\ \E chosen \in SUBSET Workload : RefreshAfter(chosen)
  /\ UnchangedButChoice

\* configure() and refresh_runs() of the two sections: whoever configures takes
\* the catalog along for both.
RefreshRuns(v) ==
  /\ Navigable
  /\ \/ ready[v] /\ Lists(v, catalog) /\ UNCHANGED catalog
     \/ ~ready[v] /\ current # None /\ catalog' = current /\ Lists(v, current)
     \/ ~ready[v] /\ current = None /\ catalog' = 1 /\ Lists(v, 1)
  /\ UnchangedButChoice /\ UNCHANGED <<current, shown, setup, origin, choice>>

-----------------------------------------------------------------------------
(* The main thread: a run is started, and its end is heard *)

\* RunWorker.is_running: there is a QThread until its finished signal.
IsRunning(r) == r # None /\ thread[r] \in {"begun", "executing", "ended"}

\* Start is enabled for a configuration and a selection.  A run in progress and a
\* plan that fails are told.  Otherwise the orchestrator connects its slots and
\* starts the thread.
StartRun ==
  /\ Navigable /\ setup # None /\ selected # {} /\ started < Runs
  /\ \/ Opened(<<"told", None>>) /\ UNCHANGED <<main, orch, started, thread, place>>
     \/ /\ ~IsRunning(orch)
        /\ started' = started + 1 /\ orch' = started' /\ main' = "connect"
        /\ thread' = [thread EXCEPT ![started'] = "begun"]
        /\ \E at \in {started', Shared} : place' = [place EXCEPT ![started'] = at]
        /\ UNCHANGED dialogs
  /\ UNCHANGED <<posted, widgets, window, closed, heard, stopped, stops, configs, choice>>

\* on_start_run goes on: the window connects to the end of the run.
Connect ==
  /\ main = "connect" /\ main' = "show"
  /\ window' = started /\ heard' = [heard EXCEPT ![started] = TRUE]
  /\ UNCHANGED <<dialogs, posted, widgets, orch, closed, started, thread, place, stopped,
                 stops, configs, choice>>

\* _set_ui_busy(True)
ShowBusy ==
  /\ main = "show" /\ main' = "loop"
  /\ busy' = TRUE /\ stoppable' = IsRunning(window)
  /\ UNCHANGED <<dialogs, posted, holders, closed, runs, stops, configs, choice>>

\* Bug: the end of a run whose thread is gone already is of no interest.
DeliverOfLive ==
  /\ Looping /\ posted # <<>> /\ posted' = Tail(posted)
  /\ \E r \in Run, ok \in BOOLEAN :
       \/ /\ Head(posted) = <<"orch", r, ok>> /\ orch' = None
          /\ UNCHANGED <<dialogs, widgets, window>>
       \/ /\ Head(posted) = <<"window", r, ok>> /\ ~IsRunning(r)
          /\ UNCHANGED <<dialogs, widgets, holders>>
       \/ /\ Head(posted) = <<"window", r, ok>> /\ IsRunning(r)
          /\ busy' = FALSE /\ stoppable' = FALSE /\ window' = None
          /\ IF ok THEN UNCHANGED dialogs ELSE Opened(<<"told", None>>)
          /\ UNCHANGED orch
  /\ UNCHANGED <<main, closed, runs, stops, configs, choice>>

\* _on_worker_finished of the orchestrator, _on_run_finished of the window, also
\* while a message box is open.
Deliver ==
  /\ Looping /\ posted # <<>> /\ posted' = Tail(posted)
  /\ \E r \in Run, ok \in BOOLEAN :
       \/ /\ Head(posted) = <<"orch", r, ok>> /\ orch' = None
          /\ UNCHANGED <<dialogs, widgets, window>>
       \/ /\ Head(posted) = <<"window", r, ok>>
          /\ busy' = FALSE /\ stoppable' = FALSE /\ window' = None
          /\ IF ok THEN UNCHANGED dialogs ELSE Opened(<<"told", None>>)
          /\ UNCHANGED orch
  /\ UNCHANGED <<main, closed, runs, stops, configs, choice>>

-----------------------------------------------------------------------------
(* Stop, close, and the answers *)

\* _on_stop_clicked keeps the path of the run at the time of the click.
StopClicked ==
  /\ Clickable /\ stoppable /\ window # None /\ Opened(<<"stop", window>>)
  /\ UNCHANGED <<main, posted, widgets, holders, closed, runs, stops, configs, choice>>

\* Bug: a window whose run can no more be stopped may go.
CloseUnlessStoppable ==
  /\ Clickable
  /\ \/ stoppable /\ Opened(<<"close", window>>) /\ UNCHANGED closed
     \/ ~stoppable /\ closed' = TRUE /\ UNCHANGED dialogs
  /\ UNCHANGED <<main, posted, widgets, holders, runs, stops, configs, choice>>

\* closeEvent asks while the worker's thread exists.
Close ==
  /\ Clickable
  /\ \/ IsRunning(window) /\ Opened(<<"close", window>>) /\ UNCHANGED closed
     \/ ~IsRunning(window) /\ closed' = TRUE /\ UNCHANGED dialogs
  /\ UNCHANGED <<main, posted, widgets, holders, runs, stops, configs, choice>>

\* Bug: the answer is for the run there is, or else for the next.
AnswerForNext ==
  /\ Looping /\ dialogs # <<>>
  /\ LET box == Top
         at == IF window # None \/ started = Runs THEN place[box[2]] ELSE started + 1
     IN  \/ dialogs' = Front(dialogs) /\ UNCHANGED <<stoppable, closed, stops>>
         \/ /\ box[1] = "stop" /\ dialogs' = Front(dialogs)
            /\ files' = files \cup {at}
            /\ asked' = asked \cup {box[2]} /\ stoppable' = FALSE /\ UNCHANGED closed
         \/ /\ box[1] = "close" /\ dialogs' = Front(dialogs) /\ closed' = TRUE
            /\ UNCHANGED <<stoppable, stops>>
  /\ UNCHANGED <<main, posted, busy, holders, runs, configs, choice>>

\* No, or a message that was read; yes to a stop, whose file is written whether
\* or not the run is still on, or cannot be; yes to the end of the window.
Answer ==
  /\ Looping /\ dialogs # <<>>
  /\ \/ dialogs' = Front(dialogs) /\ UNCHANGED <<stoppable, closed, stops>>
     \/ /\ Top[1] = "stop" /\ dialogs' = Front(dialogs)
        /\ files' = files \cup {place[Top[2]]} /\ asked' = asked \cup {Top[2]}
        /\ stoppable' = FALSE /\ UNCHANGED closed
     \/ /\ Top[1] = "stop" /\ dialogs' = Append(Front(dialogs), <<"told", None>>)
        /\ UNCHANGED <<stoppable, closed, stops>>
     \/ /\ Top[1] = "close" /\ dialogs' = Front(dialogs) /\ closed' = TRUE
        /\ UNCHANGED <<stoppable, stops>>
  /\ UNCHANGED <<main, posted, busy, holders, runs, configs, choice>>

-----------------------------------------------------------------------------
(* The thread of a run *)

UnchangedButThread ==
  UNCHANGED <<main, dialogs, widgets, holders, closed, started, heard, place, stops, configs,
              choice>>

\* QThread.started calls RunWorker._run, which calls start_run.
BeginRun ==
  /\ ~closed /\ \E r \in Run : thread[r] = "begun" /\ thread' = [thread EXCEPT ![r] = "executing"]
  /\ UnchangedButThread /\ UNCHANGED <<posted, stopped>>

\* StopToken finds the stop file, old or new.
SeeStop ==
  /\ ~closed
  /\ \E r \in Run : thread[r] = "executing" /\ place[r] \in files /\ stopped' = stopped \cup {r}
  /\ UnchangedButThread /\ UNCHANGED <<posted, thread>>

Signalled(r, ok) ==
  posted' = posted \o IF heard[r] THEN <<<<"orch", r, ok>>, <<"window", r, ok>>>>
                                   ELSE <<<<"orch", r, ok>>>>

\* Bug: the end is signalled while start_run is still at work.
EndRunEarly ==
  /\ ~closed
  /\ \E r \in Run, ok \in BOOLEAN :
       \/ thread[r] = "begun" /\ thread' = [thread EXCEPT ![r] = "executing"] /\ Signalled(r, ok)
       \/ thread[r] = "executing" /\ thread' = [thread EXCEPT ![r] = "ended"] /\ UNCHANGED posted
  /\ UnchangedButThread /\ UNCHANGED stopped

\* start_run returns a result, or none, or raises: finished is emitted.
EndRun ==
  /\ ~closed
  /\ \E r \in Run, ok \in BOOLEAN :
       /\ thread[r] = "executing" /\ thread' = [thread EXCEPT ![r] = "ended"]
       /\ Signalled(r, ok)
  /\ UnchangedButThread /\ UNCHANGED stopped

\* quit() and the end of the thread's own loop: _clear_thread.
ClearThread ==
  /\ ~closed /\ \E r \in Run : thread[r] = "ended" /\ thread' = [thread EXCEPT ![r] = "gone"]
  /\ UnchangedButThread /\ UNCHANGED <<posted, stopped>>

-----------------------------------------------------------------------------
Sections ==
  RefreshWorkloads \/ ToggleWorkload \/ LoadInSetup \/ LoadInConfig
    \/ \E v \in Catalogued : RefreshRuns(v)
RunThread == BeginRun \/ SeeStop \/ EndRun \/ ClearThread

Closed == closed /\ UNCHANGED vars

Next ==
  \/ Sections \/ StartRun \/ Connect \/ ShowBusy \/ Deliver
  \/ StopClicked \/ Close \/ Answer \/ RunThread \/ Closed

Spec == Init /\ [][Next]_vars

\* The loop goes on and handles what is posted; the user need not do anything,
\* and a run may take for ever.
FairSpec == Spec /\ WF_vars(Connect \/ ShowBusy) /\ WF_vars(Deliver)

-----------------------------------------------------------------------------
(* Properties *)

\* The window, the orchestrator and the thread each have their own idea of
\* whether a run is on; still no two runs are (RunOrchestrator: "a single
\* benchmark run"), since all of them hear of its end after it.
RunsApart ==
  \A r, q \in Run : thread[r] = "executing" /\ thread[q] \in {"begun", "executing"} => r = q

\* The window does not close over a run unless the user said so (closeEvent),
\* whatever has happened to the stop button and to the message boxes.
QuitAsks ==
  [][closed' /\ ~closed /\ dialogs = <<>> => \A r \in Run : thread[r] # "executing"]_vars

\* A run whose stop file is its own is stopped only if the user stopped that run,
\* although the answer may come after its end (_on_stop_clicked).
StopIsOwn == \A r \in stopped : place[r] = r => r \in asked

\* The workloads that would run are those selected on screen, as long as any
\* are listed: signals of the list that come back while it is filled anew
\* change both (run_setup_view.py, _on_workloads_changed).
SelectedIsShown == available # {} => selected = marked

\* After a configuration is loaded in the Config section, all sections go by it,
\* however they fail and reconfigure (_sync_config_to_views).
ViewsFollowConfig ==
  origin = "config" =>
    /\ setup = shown /\ catalog = shown
    /\ \A v \in Catalogued : listed[v] \in {None, shown}

\* An end that the window is connected to frees it again, whatever boxes are
\* open (_on_run_finished).
EndIsShown == (busy /\ \E i \in 1 .. Len(posted) : posted[i][1] = "window") ~> (~busy \/ closed)
=============================================================================
