-------------------------- MODULE GuiWindowProofs --------------------------
(***************************************************************************)
(* Runs of the window do not overlap and it does not close over one, a     *)
(* stop file stops the run it was meant for, and what the sections show is *)
(* what would run, proved for any number of runs, configurations and       *)
(* workloads.                                                              *)
(***************************************************************************)
EXTENDS GuiWindow, SequenceTheorems, TLAPS

Live(r) == thread[r] \in {"begun", "executing"}

\* Outside on_start_run the sidebar is disabled.
Engaged == main = "loop" => busy

\* What is posted of the last run: its end for the orchestrator, for both, or,
\* when the orchestrator has heard it, for the window.
EndsOf(r, ends) ==
  \E ok \in BOOLEAN :
    LET o == <<"orch", r, ok>>  w == <<"window", r, ok>>
    IN  ends = <<o>> \/ ends = <<o, w>> \/ ends = <<w>>

(***************************************************************************)
(* The invariant behind RunsApart and QuitAsks: a run that is on is the    *)
(* last, the orchestrator has it, so has the window once it is connected,  *)
(* and nothing is posted; the end of a run is posted while the window is   *)
(* busy with it, so that none is on its way when the next one starts.      *)
(***************************************************************************)
RunInv ==
  /\ started \in 0 .. Runs /\ (main # "loop" => started \in Run)
  /\ thread \in [Run -> {"none", "begun", "executing", "ended", "gone"}]
  /\ \A r \in Run : Live(r) => /\ r = started /\ orch = r /\ posted = <<>> /\ Engaged
                               /\ main # "connect" => window = r
  /\ posted # <<>> => Engaged /\ EndsOf(started, posted)

-----------------------------------------------------------------------------
(* Runs *)

LEMMA RunInit == Init => RunInv
<1> SUFFICES ASSUME Init PROVE RunInv
  OBVIOUS
<1> QED
  BY BoundsAssumption DEF Init, RunInv, Live, Run

\* Steps that leave the threads, their holders and what is posted alone.
LEMMA RunKept ==
  ASSUME RunInv, UNCHANGED <<main, posted, busy, window, orch, started, thread>>
  PROVE  RunInv'
BY DEF RunInv, Live, Engaged, EndsOf

\* The first of what is posted, and the rest.
LEMMA Delivered ==
  ASSUME NEW r, NEW ends, EndsOf(r, ends)
  PROVE  \/ Head(ends)[1] = "orch" /\ (Tail(ends) = <<>> \/ EndsOf(r, Tail(ends)))
         \/ Head(ends)[1] = "window" /\ Tail(ends) = <<>>
<1>1. PICK ok \in BOOLEAN :
        LET o == <<"orch", r, ok>>  w == <<"window", r, ok>>
        IN  ends = <<o>> \/ ends = <<o, w>> \/ ends = <<w>>
  BY DEF EndsOf
<1> DEFINE o == <<"orch", r, ok>>
           w == <<"window", r, ok>>
<1>2. CASE ends = <<o>>
  BY <1>2
<1>3. CASE ends = <<o, w>>
  <2>1. Head(ends) = o /\ Tail(ends) = <<w>>
    BY <1>3
  <2> QED
    BY <2>1 DEF EndsOf
<1>4. CASE ends = <<w>>
  BY <1>4
<1> QED
  BY <1>1, <1>2, <1>3, <1>4

LEMMA RunStart == RunInv /\ StartRun => RunInv'
<1> SUFFICES ASSUME RunInv, StartRun PROVE RunInv'
  OBVIOUS
<1>1. CASE UNCHANGED <<main, orch, started, thread, place>>
  BY <1>1, RunKept DEF StartRun, widgets
<1>2. CASE ~UNCHANGED <<main, orch, started, thread, place>>
  <2>1. /\ main = "loop" /\ ~busy /\ ~IsRunning(orch) /\ started < Runs
        /\ started' = started + 1 /\ orch' = started' /\ main' = "connect"
        /\ thread' = [thread EXCEPT ![started'] = "begun"] /\ posted' = posted
    BY <1>2 DEF StartRun, Navigable, Clickable, Looping
  <2>2. posted = <<>> /\ \A r \in Run : ~Live(r)
    BY <2>1 DEF RunInv, Engaged
  <2>3. started' \in Run /\ started' \in 0 .. Runs
    BY <2>1, BoundsAssumption DEF RunInv, Run
  <2>4. thread' \in [Run -> {"none", "begun", "executing", "ended", "gone"}]
    BY <2>1 DEF RunInv
  <2>5. \A r \in Run : Live(r)' => r = started'
    BY <2>1, <2>2, <2>3 DEF RunInv, Live
  <2> QED
    BY <2>1, <2>2, <2>3, <2>4, <2>5 DEF RunInv, Engaged
<1> QED
  BY <1>1, <1>2

LEMMA RunMain == RunInv /\ (Connect \/ ShowBusy \/ Deliver) => RunInv'
<1> SUFFICES ASSUME RunInv, Connect \/ ShowBusy \/ Deliver PROVE RunInv'
  OBVIOUS
<1>1. CASE Connect
  BY <1>1 DEF Connect, widgets, RunInv, Live, Engaged, EndsOf
<1>2. CASE ShowBusy
  BY <1>2 DEF ShowBusy, holders, runs, RunInv, Live, Engaged, EndsOf
<1>3. CASE Deliver
  <2>1. /\ main = "loop" /\ main' = main /\ posted # <<>> /\ posted' = Tail(posted)
        /\ started' = started /\ thread' = thread
        /\ \E r \in Run, ok \in BOOLEAN :
             \/ Head(posted) = <<"orch", r, ok>> /\ busy' = busy
             \/ Head(posted) = <<"window", r, ok>>
    BY <1>3 DEF Deliver, Looping, runs, widgets
  <2>2. \A r \in Run : ~Live(r)
    BY <2>1 DEF RunInv
  <2>3. EndsOf(started, posted) /\ busy
    BY <2>1 DEF RunInv, Engaged
  <2>4. \/ Head(posted)[1] = "orch" /\ (posted' = <<>> \/ EndsOf(started, posted'))
        \/ Head(posted)[1] = "window" /\ posted' = <<>>
    BY <2>1, <2>3, Delivered
  <2>5. Head(posted)[1] = "orch" => busy' = busy
    BY <2>1
  <2>6. posted' = <<>> \/ (EndsOf(started, posted') /\ busy' = busy)
    BY <2>4, <2>5
  <2> QED
    BY <2>1, <2>2, <2>3, <2>6 DEF RunInv, Live, Engaged
<1> QED
  BY <1>1, <1>2, <1>3

LEMMA RunThreads == RunInv /\ RunThread => RunInv'
<1> SUFFICES ASSUME RunInv, RunThread PROVE RunInv'
  OBVIOUS
<1>1. UNCHANGED <<main, busy, window, orch, started>>
  BY DEF RunThread, BeginRun, SeeStop, EndRun, ClearThread, UnchangedButThread, widgets, holders
<1>2. CASE BeginRun \/ ClearThread
  <2>1. PICK r \in Run : \/ thread[r] = "begun" /\ thread' = [thread EXCEPT ![r] = "executing"]
                         \/ thread[r] = "ended" /\ thread' = [thread EXCEPT ![r] = "gone"]
    BY <1>2 DEF BeginRun, ClearThread
  <2>2. posted' = posted
    BY <1>2 DEF BeginRun, ClearThread
  <2>3. /\ thread' \in [Run -> {"none", "begun", "executing", "ended", "gone"}]
        /\ \A q \in Run : Live(q)' => Live(q)
    BY <2>1 DEF RunInv, Live
  <2> QED
    BY <1>1, <2>2, <2>3 DEF RunInv, Engaged, EndsOf
<1>3. CASE SeeStop
  BY <1>1, <1>3, RunKept DEF SeeStop
<1>4. CASE EndRun
  <2>1. PICK r \in Run, ok \in BOOLEAN :
          /\ thread[r] = "executing" /\ thread' = [thread EXCEPT ![r] = "ended"]
          /\ Signalled(r, ok)
    BY <1>4 DEF EndRun
  <2>2. r = started /\ posted = <<>> /\ Engaged
    BY <2>1 DEF RunInv, Live
  <2>3. /\ thread' \in [Run -> {"none", "begun", "executing", "ended", "gone"}]
        /\ \A q \in Run : Live(q)' => Live(q) /\ q # r
    BY <2>1 DEF RunInv, Live
  <2>4. \A q \in Run : ~Live(q)'
    BY <2>2, <2>3 DEF RunInv
  <2>5. \/ posted' = <<>> \o <<<<"orch", r, ok>>, <<"window", r, ok>>>>
        \/ posted' = <<>> \o <<<<"orch", r, ok>>>>
    BY <2>1, <2>2 DEF Signalled
  <2>6. \/ posted' = <<<<"orch", r, ok>>, <<"window", r, ok>>>>
        \/ posted' = <<<<"orch", r, ok>>>>
    BY <2>5
  <2>7. EndsOf(started, posted)'
    BY <1>1, <2>2, <2>6 DEF EndsOf
  <2> QED
    BY <1>1, <2>2, <2>3, <2>4, <2>7 DEF RunInv, Engaged
<1> QED
  BY <1>2, <1>3, <1>4 DEF RunThread

LEMMA RunStep == RunInv /\ [Next]_vars => RunInv'
<1> SUFFICES ASSUME RunInv, [Next]_vars PROVE RunInv'
  OBVIOUS
<1>1. CASE Sections
  <2>1. UNCHANGED <<loop, widgets, holders, closed, runs, stops>>
    BY <1>1 DEF Sections, RefreshWorkloads, ToggleWorkload, LoadInSetup, LoadInConfig,
                RefreshRuns, UnchangedButChoice
  <2> QED
    BY <2>1, RunKept DEF loop, widgets, holders, runs
<1>2. CASE StopClicked \/ Close \/ Answer \/ Closed \/ UNCHANGED vars
  BY <1>2, RunKept
     DEF StopClicked, Close, Answer, Closed, vars, loop, widgets, holders, runs
<1> QED
  BY <1>1, <1>2, RunStart, RunMain, RunThreads DEF Next

LEMMA RunAlways == Spec => []RunInv
BY RunInit, RunStep, PTL DEF Spec

\* No two runs are on at once, though the window, the orchestrator and the thread
\* hear of an end one after the other.
THEOREM NoTwoRuns == Spec => []RunsApart
<1>1. RunInv => RunsApart
  BY DEF RunInv, RunsApart, Live
<1> QED
  BY <1>1, RunAlways, PTL

\* The window is not closed over a run without the user's consent: as long as one
\* is on, the window has its worker, whose thread exists.
THEOREM NoSilentQuit == Spec => QuitAsks
<1>1. RunInv /\ [Next]_vars
        => (closed' /\ ~closed /\ dialogs = <<>> => \A r \in Run : thread[r] # "executing")
  <2> SUFFICES ASSUME RunInv, [Next]_vars, closed', ~closed, dialogs = <<>>
               PROVE  \A r \in Run : thread[r] # "executing"
    OBVIOUS
  <2>1. closed' # closed
    OBVIOUS
  <2>2. CASE Close
    <3>1. main = "loop" /\ ~IsRunning(window)
      BY <2>1, <2>2 DEF Close, Clickable, Looping
    <3>2. ASSUME NEW r \in Run, thread[r] = "executing" PROVE window = r /\ r # None
      BY <3>1, <3>2, BoundsAssumption DEF RunInv, Live, Run, None
    <3> QED
      BY <3>1, <3>2 DEF IsRunning
  <2>3. CASE Answer
    BY <2>3 DEF Answer
  <2> QED
    BY <2>1, <2>2, <2>3
       DEF Next, Sections, RefreshWorkloads, ToggleWorkload, LoadInSetup, LoadInConfig,
           RefreshRuns, UnchangedButChoice, StartRun, Connect, ShowBusy, Deliver, StopClicked,
           RunThread, BeginRun, SeeStop, EndRun, ClearThread, UnchangedButThread, Closed, vars
<1> QED
  BY <1>1, RunAlways, PTL DEF Spec, QuitAsks

-----------------------------------------------------------------------------
(* What is selected *)

\* Whatever the list held and whatever was chosen of the new names, the widget
\* and the view model agree afterwards.
LEMMA RelistAgrees ==
  ASSUME NEW names, NEW before, NEW chosen
  PROVE  LET list == Relist(names, before, chosen \cap names) IN list.marked = list.selected
<1> DEFINE kept == IF before = {} THEN chosen \cap names ELSE {}
           found == kept \cap names
<1>1. found = {} => kept = {}
  OBVIOUS
<1> QED
  BY <1>1 DEF Relist

LEMMA RefreshAgrees == \A chosen : RefreshAfter(chosen) => SelectedIsShown'
<1> SUFFICES ASSUME NEW chosen, RefreshAfter(chosen) PROVE SelectedIsShown'
  OBVIOUS
<1>1. CASE Show({}, Relist({}, marked, chosen))
  BY <1>1 DEF Show, SelectedIsShown
<1>2. CASE \E names \in SUBSET Workload : Show(names, Relist(names, marked, chosen \cap names))
  BY <1>2, RelistAgrees DEF Show, SelectedIsShown
<1> QED
  BY <1>1, <1>2 DEF RefreshAfter

\* What would run is what the list shows, through every list that is filled anew
\* and whatever its signals change while it is.
THEOREM ShownIsSelected == Spec => []SelectedIsShown
<1>1. Init => SelectedIsShown
  <2>1. ASSUME NEW chosen, NEW names, StartedWith(chosen, names) PROVE SelectedIsShown
    BY <2>1, RelistAgrees DEF StartedWith, SelectedIsShown
  <2> QED
    BY <2>1 DEF Init, StartedWithout, SelectedIsShown
<1>2. SelectedIsShown /\ [Next]_vars => SelectedIsShown'
  <2> SUFFICES ASSUME SelectedIsShown, [Next]_vars PROVE SelectedIsShown'
    OBVIOUS
  <2>1. CASE RefreshWorkloads \/ LoadInSetup \/ LoadInConfig
    BY <2>1, RefreshAgrees DEF RefreshWorkloads, LoadInSetup, LoadInConfig
  <2>2. CASE ToggleWorkload
    BY <2>2 DEF ToggleWorkload, SelectedIsShown
  <2>3. CASE UNCHANGED choice
    BY <2>3 DEF choice, SelectedIsShown
  <2> QED
    BY <2>1, <2>2, <2>3
       DEF Next, Sections, RefreshRuns, StartRun, Connect, ShowBusy, Deliver, StopClicked, Close,
           Answer, RunThread, BeginRun, SeeStop, EndRun, ClearThread, UnchangedButThread, Closed,
           vars
<1> QED
  BY <1>1, <1>2, PTL DEF Spec

-----------------------------------------------------------------------------
(* The configuration of the sections *)

\* Behind ViewsFollowConfig: what a section that failed would configure with next
\* is the configuration of the service, which is shown too.
ConfigInv ==
  /\ listed = [v \in Catalogued |-> listed[v]]
  /\ origin = "config" => /\ shown # None /\ current = shown /\ setup = shown /\ catalog = shown
                          /\ \A v \in Catalogued : listed[v] \in {None, shown}

LEMMA ConfigRefresh ==
  ASSUME ConfigInv, NEW v \in Catalogued, RefreshRuns(v)
  PROVE  ConfigInv'
<1>1. /\ UNCHANGED <<current, shown, setup, origin>>
      /\ \/ catalog' = catalog /\ Lists(v, catalog)
         \/ current # None /\ catalog' = current /\ Lists(v, current)
         \/ current = None /\ catalog' = 1 /\ Lists(v, 1)
  BY DEF RefreshRuns
<1>2. ASSUME NEW c, Lists(v, c)
      PROVE  /\ listed' = [u \in Catalogued |-> listed'[u]]
             /\ \A u \in Catalogued : listed'[u] \in {listed[u], c, None}
  BY <1>2 DEF Lists, ConfigInv
<1> QED
  BY <1>1, <1>2 DEF ConfigInv

\* After a configuration is loaded in the Config section, every section goes by it
\* until Run Setup loads another, however they fail, list and configure anew.
THEOREM SectionsAgree == Spec => []ViewsFollowConfig
<1>1. Init => ConfigInv
  <2>1. StartedWithout => ConfigInv
    BY DEF StartedWithout, ConfigInv
  <2>2. ASSUME NEW chosen, NEW names, StartedWith(chosen, names) PROVE ConfigInv
    <3>1. /\ current = 1 /\ shown = 1 /\ setup = 1 /\ catalog = 1
          /\ listed = [v \in Catalogued |-> 1]
      BY <2>2 DEF StartedWith
    <3> QED
      BY <3>1 DEF ConfigInv, None
  <2> QED
    BY <2>1, <2>2 DEF Init
<1>2. ConfigInv /\ [Next]_vars => ConfigInv'
  <2> SUFFICES ASSUME ConfigInv, [Next]_vars PROVE ConfigInv'
    OBVIOUS
  <2>1. CASE LoadInSetup
    BY <2>1 DEF LoadInSetup, ConfigInv, catalogs
  <2>2. CASE LoadInConfig
    <3>1. PICK c \in Config :
            /\ shown' = c /\ current' = c /\ setup' = c /\ catalog' = c /\ ListsBoth(c)
      BY <2>2 DEF LoadInConfig
    <3>2. c # None
      BY BoundsAssumption DEF Config, None
    <3> QED
      BY <3>1, <3>2 DEF ListsBoth, ConfigInv
  <2>3. CASE UNCHANGED configs
    BY <2>3 DEF configs, catalogs, ConfigInv
  <2> QED
    BY <2>1, <2>2, <2>3, ConfigRefresh
       DEF Next, Sections, RefreshWorkloads, ToggleWorkload, StartRun, Connect, ShowBusy, Deliver,
           StopClicked, Close, Answer, RunThread, BeginRun, SeeStop, EndRun, ClearThread,
           UnchangedButThread, Closed, vars
<1>3. ConfigInv => ViewsFollowConfig
  BY DEF ConfigInv, ViewsFollowConfig
<1> QED
  BY <1>1, <1>2, <1>3, PTL DEF Spec

-----------------------------------------------------------------------------
(* Stop files *)

(***************************************************************************)
(* The invariant behind StopIsOwn: a message box keeps the run it was      *)
(* opened for, a run's own file exists only when it was asked for, and     *)
(* where the file of a run is, is settled before the run can see it.       *)
(***************************************************************************)
FileInv ==
  /\ dialogs \in Seq(Box) /\ window \in Run \cup {None}
  /\ place \in [Run -> Run \cup {Shared}] /\ \A r \in Run : place[r] \in {r, Shared}
  /\ files \cap Run \subseteq asked /\ stopped \subseteq 1 .. started
  /\ \A r \in stopped : place[r] = r => r \in asked

LEMMA FileInit == Init => FileInv
BY DEF Init, FileInv

\* Steps that write no stop file, open at most one box and start no run.
LEMMA FileKept ==
  ASSUME FileInv, UNCHANGED <<place, stopped, files, asked, started>>,
         window' \in {window, None, started} /\ window' \in Run \cup {None},
         dialogs' = dialogs \/ \E box \in Box : Opened(box)
  PROVE  FileInv'
<1>1. dialogs' \in Seq(Box)
  BY AppendProperties DEF FileInv, Opened
<1> QED
  BY <1>1 DEF FileInv

LEMMA FrontInSeq ==
  ASSUME NEW S, NEW s \in Seq(S), s # <<>>
  PROVE  Front(s) \in Seq(S) /\ s[Len(s)] \in S
<1>1. Len(s) \in Nat \ {0} /\ \A i \in 1 .. Len(s) : s[i] \in S
  BY LenProperties, ElementOfSeq, EmptySeq
<1>2. \A i \in 1 .. Len(s) - 1 : s[i] \in S
  BY <1>1
<1>3. SubSeq(s, 1, Len(s) - 1) \in Seq(S)
  BY <1>1, <1>2, SubSeqProperties
<1> QED
  BY <1>1, <1>3 DEF Front

LEMMA FileAnswer == FileInv /\ Answer => FileInv'
<1> SUFFICES ASSUME FileInv, Answer PROVE FileInv'
  OBVIOUS
<1>1. Front(dialogs) \in Seq(Box) /\ Top \in Box
  BY FrontInSeq DEF Answer, FileInv, Top
<1>2. /\ UNCHANGED <<window, place, stopped, started>>
      /\ dialogs' \in {Front(dialogs), Append(Front(dialogs), <<"told", None>>)}
      /\ \/ UNCHANGED <<files, asked>>
         \/ /\ Top[1] = "stop"
            /\ files' = files \cup {place[Top[2]]} /\ asked' = asked \cup {Top[2]}
  BY DEF Answer, holders, runs, stops
<1>3. dialogs' \in Seq(Box)
  <2>1. <<"told", None>> \in Box
    BY DEF Box
  <2> QED
    BY <1>1, <1>2, <2>1, AppendProperties
<1>4. Top[1] = "stop" => Top[2] \in Run
  BY <1>1 DEF Box
<1>5. files' \cap Run \subseteq asked' /\ asked \subseteq asked'
  <2>1. ASSUME Top[1] = "stop" PROVE {place[Top[2]]} \cap Run \subseteq {Top[2]}
    <3>1. Shared \notin Run
      BY BoundsAssumption DEF Shared, Run
    <3> QED
      BY <1>4, <2>1, <3>1 DEF FileInv
  <2> QED
    BY <1>2, <2>1 DEF FileInv
<1> QED
  BY <1>2, <1>3, <1>5 DEF FileInv

LEMMA FileStep == RunInv /\ FileInv /\ [Next]_vars => FileInv'
<1> SUFFICES ASSUME RunInv, FileInv, [Next]_vars PROVE FileInv'
  OBVIOUS
<1>0. /\ window \in Run \cup {None} /\ started \in Nat
      /\ <<"told", None>> \in Box
      /\ \A r \in Run : <<"stop", r>> \in Box /\ <<"close", r>> \in Box
  BY BoundsAssumption DEF FileInv, RunInv, Box
<1>1. CASE Sections
  BY <1>0, <1>1, FileKept
     DEF Sections, RefreshWorkloads, ToggleWorkload, LoadInSetup, LoadInConfig, RefreshRuns,
         UnchangedButChoice, loop, holders, runs, stops
<1>2. CASE StartRun
  <2>1. CASE Opened(<<"told", None>>) /\ UNCHANGED <<main, orch, started, thread, place>>
    BY <1>0, <1>2, <2>1, FileKept DEF StartRun, stops
  <2>2. CASE /\ started' = started + 1 /\ started < Runs /\ UNCHANGED dialogs
             /\ \E at \in {started', Shared} : place' = [place EXCEPT ![started'] = at]
    <3>1. UNCHANGED <<window, stopped, files, asked>>
      BY <1>2 DEF StartRun, stops
    <3>2. started' \in Run /\ Shared \notin Run /\ 1 .. started \subseteq 1 .. started'
      BY <1>0, <2>2, BoundsAssumption DEF Run, Shared
    <3>3. /\ place' \in [Run -> Run \cup {Shared}]
          /\ \A r \in Run : place'[r] \in {r, Shared}
      BY <2>2, <3>2 DEF FileInv
    <3>4. \A r \in stopped : r \in Run /\ place'[r] = place[r]
      BY <1>0, <2>2, BoundsAssumption DEF FileInv, Run
    <3> QED
      BY <2>2, <3>1, <3>2, <3>3, <3>4 DEF FileInv
  <2> QED
    BY <1>2, <2>1, <2>2 DEF StartRun
<1>3. CASE Connect \/ ShowBusy \/ Deliver
  <2>1. UNCHANGED <<place, stopped, files, asked, started>>
    BY <1>3 DEF Connect, ShowBusy, Deliver, runs, stops
  <2>2. dialogs' = dialogs \/ Opened(<<"told", None>>)
    BY <1>3 DEF Connect, ShowBusy, Deliver
  <2>3. window' \in {window, None, started} /\ window' \in Run \cup {None}
    BY <1>0, <1>3 DEF Connect, ShowBusy, Deliver, holders, RunInv
  <2> QED
    BY <1>0, <2>1, <2>2, <2>3, FileKept
<1>4. CASE StopClicked
  <2>1. window # None /\ Opened(<<"stop", window>>)
    BY <1>4 DEF StopClicked
  <2> QED
    BY <1>0, <1>4, <2>1, FileKept DEF StopClicked, holders, runs, stops
<1>5. CASE Close
  <2>1. (window # None /\ Opened(<<"close", window>>)) \/ UNCHANGED dialogs
    BY <1>5 DEF Close, IsRunning
  <2> QED
    BY <1>0, <1>5, <2>1, FileKept DEF Close, holders, runs, stops
<1>6. CASE RunThread
  <2>1. UNCHANGED <<dialogs, window, started, place, files, asked>>
    BY <1>6 DEF RunThread, BeginRun, SeeStop, EndRun, ClearThread, UnchangedButThread, holders, stops
  <2>2. \/ stopped' = stopped
        \/ \E r \in Run : Live(r) /\ place[r] \in files /\ stopped' = stopped \cup {r}
    BY <1>6 DEF RunThread, BeginRun, SeeStop, EndRun, ClearThread, Live
  <2>3. ASSUME NEW r \in Run, Live(r), place[r] \in files
        PROVE  r \in 1 .. started /\ (place[r] = r => r \in asked)
    BY <2>3 DEF RunInv, FileInv, Run
  <2> QED
    BY <2>1, <2>2, <2>3 DEF FileInv
<1>7. CASE Closed \/ UNCHANGED vars
  BY <1>0, <1>7, FileKept DEF Closed, vars, loop, holders, runs, stops
<1> QED
  BY <1>1, <1>2, <1>3, <1>4, <1>5, <1>6, <1>7, FileAnswer DEF Next

\* An answer that comes after its run has ended stops no other run: a run that
\* has a stop file of its own and was stopped is one the user asked to stop.
THEOREM StopsItsOwn == Spec => []StopIsOwn
<1>1. FileInv => StopIsOwn
  BY DEF FileInv, StopIsOwn
<1> QED
  BY <1>1, FileInit, FileStep, RunAlways, PTL DEF Spec

-----------------------------------------------------------------------------
(* Types *)

LEMMA ListTypes ==
  ASSUME NEW names \in SUBSET Workload, NEW before, NEW chosen \in SUBSET Workload
  PROVE  /\ Relist(names, before, chosen).marked \subseteq Workload
         /\ Relist(names, before, chosen).selected \subseteq Workload
BY DEF Relist

LEMMA RefreshTypes ==
  ASSUME NEW chosen \in SUBSET Workload, RefreshAfter(chosen)
  PROVE  ChoiceTypes'
<1>1. CASE Show({}, Relist({}, marked, chosen))
  BY <1>1, ListTypes DEF Show, ChoiceTypes
<1>2. CASE \E names \in SUBSET Workload : Show(names, Relist(names, marked, chosen \cap names))
  BY <1>2, ListTypes DEF Show, ChoiceTypes
<1> QED
  BY <1>1, <1>2 DEF RefreshAfter

LEMMA TypeInit == Init => TypeOK
<1> SUFFICES ASSUME Init PROVE TypeOK
  OBVIOUS
<1>0. 1 \in Config /\ Runs \in Nat
  BY BoundsAssumption DEF Config
<1>1. LoopTypes /\ RunTypes
  <2>1. LoopTypes
    <3>1. main \in {"loop", "connect", "show"} /\ window \in Run \cup {None} /\ orch \in Run \cup {None}
      BY DEF Init
    <3>2. busy \in BOOLEAN /\ stoppable \in BOOLEAN /\ closed \in BOOLEAN
      BY DEF Init
    <3>3. dialogs \in Seq(Box) /\ posted \in Seq(Slot)
      BY DEF Init
    <3> QED
      BY <3>1, <3>2, <3>3 DEF LoopTypes
  <2>2. RunTypes
    BY <1>0 DEF Init, RunTypes
  <2> QED
    BY <2>1, <2>2
<1>2. CASE StartedWithout
  BY <1>1, <1>2 DEF StartedWithout, TypeOK, ConfigTypes, ChoiceTypes
<1>3. ASSUME NEW chosen \in SUBSET Workload, NEW names \in SUBSET Workload, StartedWith(chosen, names)
      PROVE  TypeOK
  <2>1. ConfigTypes
    BY <1>0, <1>3 DEF StartedWith, ConfigTypes
  <2>2. ChoiceTypes
    BY <1>3, ListTypes DEF StartedWith, ChoiceTypes
  <2> QED
    BY <1>1, <2>1, <2>2 DEF TypeOK
<1> QED
  BY <1>2, <1>3 DEF Init

\* The sections.
LEMMA TypeSections == TypeOK /\ Sections => TypeOK'
<1> SUFFICES ASSUME TypeOK, Sections PROVE TypeOK'
  OBVIOUS
<1>1. LoopTypes' /\ RunTypes'
  BY DEF TypeOK, Sections, RefreshWorkloads, ToggleWorkload, LoadInSetup, LoadInConfig,
         RefreshRuns, UnchangedButChoice, loop, widgets, holders, runs, stops, LoopTypes, RunTypes
<1> SUFFICES ConfigTypes' /\ ChoiceTypes'
  BY <1>1 DEF TypeOK
<1>2. 1 \in Config /\ ConfigTypes /\ ChoiceTypes
  BY BoundsAssumption DEF Config, TypeOK
<1>3. ASSUME NEW c \in Config \cup {None}, NEW v \in Catalogued, Lists(v, c)
      PROVE  ready' \in [Catalogued -> BOOLEAN] /\ listed' \in [Catalogued -> Config \cup {None}]
  BY <1>2, <1>3 DEF Lists, ConfigTypes
<1>4. ASSUME NEW v \in Catalogued, RefreshRuns(v) PROVE ConfigTypes' /\ ChoiceTypes'
  BY <1>2, <1>3, <1>4 DEF RefreshRuns, ConfigTypes, ChoiceTypes, choice
<1>5. CASE RefreshWorkloads
  <2>1. ChoiceTypes'
    BY <1>2, <1>5, RefreshTypes DEF RefreshWorkloads, ChoiceTypes
  <2> QED
    BY <1>2, <1>5, <2>1 DEF RefreshWorkloads, ConfigTypes, configs, catalogs
<1>6. CASE ToggleWorkload
  BY <1>2, <1>6 DEF ToggleWorkload, ConfigTypes, ChoiceTypes, configs, catalogs
<1>7. CASE LoadInSetup
  <2>1. ChoiceTypes'
    BY <1>2, <1>7, RefreshTypes DEF LoadInSetup, ChoiceTypes
  <2> QED
    BY <1>2, <1>7, <2>1 DEF LoadInSetup, ConfigTypes, catalogs
<1>8. CASE LoadInConfig
  <2>1. ChoiceTypes'
    BY <1>8, RefreshTypes DEF LoadInConfig
  <2> QED
    BY <1>2, <1>8, <2>1 DEF LoadInConfig, ListsBoth, ConfigTypes
<1> QED
  BY <1>4, <1>5, <1>6, <1>7, <1>8 DEF Sections

\* The main thread: a run is started, heard of, stopped, the window closed.
LEMMA TypeMain ==
  /\ TypeOK /\ RunInv /\ RunInv' /\ FileInv'
  /\ StartRun \/ Connect \/ ShowBusy \/ Deliver \/ StopClicked \/ Close \/ Answer
  => TypeOK'
<1> SUFFICES ASSUME TypeOK, RunInv, RunInv', FileInv',
                    StartRun \/ Connect \/ ShowBusy \/ Deliver \/ StopClicked \/ Close \/ Answer
             PROVE  TypeOK'
  OBVIOUS
<1>1. ConfigTypes' /\ ChoiceTypes'
  BY DEF TypeOK, StartRun, Connect, ShowBusy, Deliver, StopClicked, Close, Answer,
         configs, catalogs, choice, ConfigTypes, ChoiceTypes
<1>2. LoopTypes /\ RunTypes
  BY DEF TypeOK
<1>3. LoopTypes'
  <2>1. /\ main' \in {"loop", "connect", "show"} /\ busy' \in BOOLEAN /\ stoppable' \in BOOLEAN
        /\ closed' \in BOOLEAN
    BY <1>2 DEF StartRun, Connect, ShowBusy, Deliver, StopClicked, Close, Answer,
                widgets, LoopTypes, IsRunning
  <2>2. posted' \in Seq(Slot)
    <3>1. posted' = posted \/ (posted # <<>> /\ posted' = Tail(posted))
      BY DEF StartRun, Connect, ShowBusy, Deliver, StopClicked, Close, Answer
    <3> QED
      BY <1>2, <3>1, HeadTailProperties DEF LoopTypes
  <2>3. orch' \in Run \cup {None}
    BY <1>2, BoundsAssumption
       DEF StartRun, Connect, ShowBusy, Deliver, StopClicked, Close, Answer, holders,
           LoopTypes, RunTypes, Run
  <2> QED
    BY <2>1, <2>2, <2>3 DEF LoopTypes, FileInv
<1>4. RunTypes'
  <2>1. heard' \in [Run -> BOOLEAN]
    BY <1>2 DEF StartRun, Connect, ShowBusy, Deliver, StopClicked, Close, Answer, runs, RunTypes
  <2>2. stopped' = stopped
    BY DEF StartRun, Connect, ShowBusy, Deliver, StopClicked, Close, Answer, runs
  <2>3. files' \subseteq Run \cup {Shared} /\ asked' \subseteq Run
    <3>1. CASE Answer
      <4>1. Top \in Box
        BY <1>2, <3>1, FrontInSeq DEF Answer, LoopTypes, Top
      <4>2. Top[1] = "stop" => Top[2] \in Run /\ place[Top[2]] \in Run \cup {Shared}
        BY <1>2, <4>1 DEF Box, RunTypes
      <4> QED
        BY <1>2, <3>1, <4>2 DEF Answer, RunTypes, stops
    <3>2. CASE ~Answer
      BY <1>2, <3>2 DEF StartRun, Connect, ShowBusy, Deliver, StopClicked, Close, stops, RunTypes
    <3> QED
      BY <3>1, <3>2
  <2> QED
    BY <1>2, <2>1, <2>2, <2>3 DEF RunTypes, RunInv, FileInv
<1> QED
  BY <1>1, <1>3, <1>4 DEF TypeOK

\* The threads of the runs.
LEMMA TypeThreads == TypeOK /\ RunInv' /\ RunThread => TypeOK'
<1> SUFFICES ASSUME TypeOK, RunInv', RunThread PROVE TypeOK'
  OBVIOUS
<1>1. ConfigTypes' /\ ChoiceTypes'
  BY DEF TypeOK, RunThread, BeginRun, SeeStop, EndRun, ClearThread, UnchangedButThread,
         configs, catalogs, choice, ConfigTypes, ChoiceTypes
<1>2. LoopTypes /\ RunTypes
  BY DEF TypeOK
<1>3. UNCHANGED <<main, dialogs, widgets, holders, closed, started, heard, place, stops>>
  BY DEF RunThread, BeginRun, SeeStop, EndRun, ClearThread, UnchangedButThread
<1>4. posted' \in Seq(Slot)
  <2>1. ASSUME NEW r \in Run, NEW ok \in BOOLEAN, Signalled(r, ok) PROVE posted' \in Seq(Slot)
    <3>1. <<"orch", r, ok>> \in Slot /\ <<"window", r, ok>> \in Slot
      BY DEF Slot
    <3>2. <<<<"orch", r, ok>>, <<"window", r, ok>>>> \in Seq(Slot) /\ <<<<"orch", r, ok>>>> \in Seq(Slot)
      BY <3>1
    <3> QED
      BY <1>2, <2>1, <3>2, ConcatProperties DEF Signalled, LoopTypes
  <2> QED
    BY <1>2, <2>1 DEF RunThread, BeginRun, SeeStop, EndRun, ClearThread, LoopTypes
<1>5. stopped' \subseteq Run
  BY <1>2 DEF RunThread, BeginRun, SeeStop, EndRun, ClearThread, RunTypes
<1>6. LoopTypes' /\ RunTypes'
  BY <1>2, <1>3, <1>4, <1>5 DEF LoopTypes, RunTypes, RunInv, widgets, holders, stops
<1> QED
  BY <1>1, <1>6 DEF TypeOK

\* Type correctness, from the invariants above: a box is of a run, and the runs
\* that are started stay in their bound.
THEOREM Typing == Spec => []TypeOK
<1>1. RunInv /\ RunInv' /\ FileInv' /\ TypeOK /\ [Next]_vars => TypeOK'
  <2> SUFFICES ASSUME RunInv, RunInv', FileInv', TypeOK, [Next]_vars PROVE TypeOK'
    OBVIOUS
  <2>1. CASE UNCHANGED vars
    BY <2>1 DEF vars, loop, widgets, holders, runs, stops, configs, catalogs, choice,
                TypeOK, LoopTypes, RunTypes, ConfigTypes, ChoiceTypes
  <2> QED
    BY <2>1, TypeSections, TypeMain, TypeThreads DEF Next, Closed
<1> QED
  BY <1>1, TypeInit, FileInit, FileStep, RunAlways, PTL DEF Spec
=============================================================================
