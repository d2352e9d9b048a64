-------------------------- MODULE RepetitionPolling --------------------------
(***************************************************************************)
(* One host of a run play: the workload_runner role launches a detached    *)
(* LocalRunner per repetition, polls the files it writes, relays its       *)
(* events and judges the repetition.  The role and the runner share a      *)
(* directory: the event stream, the poll offset, the status file, the pid  *)
(* file and the STOP file.  A runner the role has given up on goes on, and *)
(* shares that directory with the runners of later plays.                  *)
(*                                                                         *)
(* Bytes are counted in tokens: the text of an event and the newline that  *)
(* ends it, which print() hands to the stream in two writes.               *)
(***************************************************************************)
EXTENDS Naturals, Sequences

CONSTANTS
  Jobs,      \* how many repetitions the plays of this host hold, in order
  PlayOf,    \* the play of each: a host that fails one leaves its play
  TaskOf     \* the workload and repetition of each: a resumed run repeats some

Job == 1 .. Jobs

ASSUME JobsAssumption == Jobs \in Nat
ASSUME PlayAssumption ==
  /\ PlayOf \in [Job -> Nat]
  /\ \A i, j \in Job : i < j => PlayOf[i] <= PlayOf[j]
ASSUME TaskAssumption == TaskOf \in [Job -> Nat]

Nobody == 0
Newline == [job |-> Nobody, status |-> "newline", last |-> FALSE]

\* last tells the event of async_localrunner from the one of LocalRunner.
Event(j, s, last) == [job |-> j, status |-> s, last |-> last]
Final == {"done", "failed", "stopped"}
Tokens == {Newline} \cup
          {Event(j, s, last) : j \in Job, s \in {"running"} \cup Final, last \in BOOLEAN}

\* Writes to the status file: write_text truncates it first.
StatusWrites == {[job |-> Nobody, status |-> rc, last |-> FALSE] : rc \in {"empty", "0", "1"}}

NoStatus == [rc |-> "absent", by |-> Nobody]

VARIABLES
  pc, job,         \* the role: its next task, the repetition it is at
  late,            \* the poll has run longer than its timeout
  looked,          \* why the poll in progress already knows it is the last
  ended,           \* why polling ended
  reported,        \* the event the role itself emitted for each repetition
  stream, offset,  \* lb_events.stream.log, lb_events.offset
  status, pid,     \* lb_localrunner.status.json, lb_localrunner.pid
  stop,            \* the STOP file
  proc, todo,      \* the LocalRunner of each repetition, writes it has queued
  told,            \* runners whose StopToken is tripped
  base, relayed,   \* history: offset at launch, positions relayed since
  crowded          \* history: repetitions begun beside a live runner

roleSide == <<pc, job, late, looked, ended, reported, offset, base, relayed, crowded>>
files == <<status, pid, stop>>
runners == <<proc, todo, told>>
vars == <<roleSide, stream, files, runners>>

RolePoints == {"start", "clean", "launch", "wait_pid", "poll", "poll_alive", "poll_decide",
               "poll_read", "settle", "load", "collect", "rescue", "stopping",
               "leave", "end"}
Reasons == {"none", "status", "crash", "timeout", "event"}
Phases == {"none", "forked", "born", "working", "ending", "gone", "dead"}

TypeOK ==
  /\ pc \in RolePoints /\ job \in 1 .. Jobs + 1
  /\ pc # "end" => job \in Job
  /\ late \in BOOLEAN /\ looked \in Reasons /\ ended \in Reasons
  /\ reported \in [Job -> {"none", "running", "done", "failed"}]
  /\ stream \in Seq(Tokens) /\ offset \in 0 .. Len(stream) /\ base \in 0 .. offset
  /\ status \in [rc: {"absent", "empty", "0", "1"}, by: {Nobody} \cup Job]
  /\ pid \in {Nobody} \cup Job /\ stop \in BOOLEAN
  /\ proc \in [Job -> Phases] /\ told \subseteq Job
  /\ \A j \in Job : todo[j] \in Seq(Tokens \cup StatusWrites)
  /\ relayed \subseteq 1 .. offset /\ crowded \subseteq Job

Init ==
  /\ pc = IF Jobs = 0 THEN "end" ELSE "start"
  /\ job = 1 /\ late = FALSE /\ looked = "none" /\ ended = "none"
  /\ reported = [j \in Job |-> "none"]
  /\ stream = <<>> /\ offset = 0 /\ base = 0 /\ relayed = {}
  /\ status = NoStatus /\ pid = Nobody /\ stop = FALSE
  /\ proc = [j \in Job |-> "none"] /\ todo = [j \in Job |-> <<>>] /\ told = {}
  /\ crowded = {}

Alive(j) == proc[j] \notin {"none", "gone", "dead"}

-----------------------------------------------------------------------------
(* LocalRunner, wrapped by async_localrunner *)

Say(j, s, last) == <<Event(j, s, last), Newline>>

WriteStatus(rc) == <<[job |-> Nobody, status |-> "empty", last |-> FALSE],
                     [job |-> Nobody, status |-> rc, last |-> FALSE]>>

\* Bug: the status is written first and the final event after it.
StatusBeforeEvent(j, s) ==
  WriteStatus(IF s = "done" THEN "0" ELSE "1") \o Say(j, IF s = "done" THEN s ELSE "failed", TRUE)

\* What async_localrunner writes once run_benchmark has ended with s.
Epilogue(j, s) ==
  Say(j, IF s = "done" THEN "done" ELSE "failed", TRUE)
    \o WriteStatus(IF s = "done" THEN "0" ELSE "1")

\* The launcher spawns the detached child, writes its pid and exits.
Fork(j) ==
  /\ proc[j] = "forked" /\ proc' = [proc EXCEPT ![j] = "born"]
  /\ pid' = j
  /\ UNCHANGED <<roleSide, stream, status, stop, todo, told>>

\* should_stop: the token latches the STOP file.
SeeStop(j) ==
  /\ Alive(j) /\ proc[j] # "forked" /\ stop /\ j \notin told
  /\ told' = told \cup {j}
  /\ UNCHANGED <<roleSide, stream, files, proc, todo>>

\* run_benchmark up to the "running" event, if it gets that far.
Begin(j) ==
  /\ proc[j] = "born"
  /\ \/ /\ j \notin told
        /\ proc' = [proc EXCEPT ![j] = "working"]
        /\ todo' = [todo EXCEPT ![j] = Say(j, "running", FALSE)]
     \/ /\ j \in told
        /\ proc' = [proc EXCEPT ![j] = "ending"]
        /\ todo' = [todo EXCEPT ![j] = Say(j, "stopped", FALSE) \o Epilogue(j, "stopped")]
     \/ /\ proc' = [proc EXCEPT ![j] = "ending"]
        /\ todo' = [todo EXCEPT ![j] = Epilogue(j, "raised")]
  /\ UNCHANGED <<roleSide, stream, files, told>>

\* run_attempt has an outcome: LocalRunner reports it, unless it raised; what
\* follows (_finalize_workload_results) may raise after the report.
Outcome(j, s) ==
  /\ proc[j] = "working" /\ todo[j] = <<>>
  /\ s = "stopped" => j \in told
  /\ proc' = [proc EXCEPT ![j] = "ending"]
  /\ \E last \in {s, "raised"} :
       todo' = [todo EXCEPT ![j] =
                  (IF s = "raised" THEN <<>> ELSE Say(j, s, FALSE)) \o Epilogue(j, last)]
  /\ UNCHANGED <<roleSide, stream, files, told>>

Write(j) ==
  /\ proc[j] \in {"working", "ending"} /\ todo[j] # <<>>
  /\ todo' = [todo EXCEPT ![j] = Tail(@)]
  /\ IF Head(todo[j]) \in Tokens
     THEN stream' = Append(stream, Head(todo[j])) /\ UNCHANGED status
     ELSE status' = [rc |-> Head(todo[j]).status, by |-> j] /\ UNCHANGED stream
  /\ UNCHANGED <<roleSide, pid, stop, proc, told>>

Exit(j) ==
  /\ proc[j] = "ending" /\ todo[j] = <<>>
  /\ proc' = [proc EXCEPT ![j] = "gone"]
  /\ UNCHANGED <<roleSide, stream, files, todo, told>>

\* Killed by the host, out of memory, a failed start: nothing more is written.
Crash(j) ==
  /\ Alive(j)
  /\ proc' = [proc EXCEPT ![j] = "dead"] /\ todo' = [todo EXCEPT ![j] = <<>>]
  /\ UNCHANGED <<roleSide, stream, files, told>>

Runner(j) == Fork(j) \/ SeeStop(j) \/ Begin(j) \/ Write(j) \/ Exit(j) \/ Crash(j)
             \/ \E s \in Final \cup {"raised"} : Outcome(j, s)
-----------------------------------------------------------------------------
(* The role, up to the poll *)

Active == pc \notin {"stopping", "leave", "end"}

\* Bug: the repetitions are not counted.
GoToUncounted(j) == job' = j /\ pc' = "start"

GoTo(j) == job' = j /\ pc' = IF j > Jobs THEN "end" ELSE "start"

LaterPlays == {k \in Job : k > job /\ PlayOf[k] # PlayOf[job]}

\* The next task of the role is p; it keeps the rest of its own state.
Step(p) ==
  pc' = p /\ UNCHANGED <<job, late, looked, ended, reported, offset, base, relayed, crowded>>

\* Emit start event, Initialize event stream files: what the stream already
\* holds is skipped.
Start ==
  /\ pc = "start" /\ pc' = "clean"
  /\ reported' = [reported EXCEPT ![job] = "running"]
  /\ offset' = Len(stream) /\ base' = Len(stream) /\ relayed' = {}
  /\ crowded' = IF \E k \in Job : Alive(k) THEN crowded \cup {job} ELSE crowded
  /\ UNCHANGED <<job, late, looked, ended, stream, files, runners>>

\* Bug: the status of the previous repetition is left behind.
CleanForgetsStatus ==
  /\ pc = "clean" /\ pc' = "launch"
  /\ stop' = FALSE /\ pid' = Nobody /\ late' = FALSE
  /\ looked' = "none" /\ ended' = "none"
  /\ UNCHANGED <<job, reported, offset, base, relayed, crowded, stream, status, runners>>

\* Clean up previous run artifacts
Clean ==
  /\ pc = "clean" /\ pc' = "launch"
  /\ stop' = FALSE /\ status' = NoStatus /\ pid' = Nobody /\ late' = FALSE
  /\ looked' = "none" /\ ended' = "none"
  /\ UNCHANGED <<job, reported, offset, base, relayed, crowded, stream, runners>>

Launch ==
  /\ pc = "launch" /\ pc' = "wait_pid"
  /\ proc' = [proc EXCEPT ![job] = "forked"]
  /\ UNCHANGED <<job, late, looked, ended, reported, offset, base, relayed, crowded, stream,
                 files, todo, told>>

\* Wait for LocalRunner pid file, 10 seconds at most.
WaitPid ==
  /\ pc = "wait_pid"
  /\ \/ pid # Nobody /\ Step("poll")
     \/ Step("rescue")
  /\ UNCHANGED <<stream, files, runners>>

-----------------------------------------------------------------------------
(* stream_events_step.yml: one pass looks at the files and the process, then
   reads the stream from the offset. *)

Look ==
  /\ pc = "poll"
  /\ Step(IF status.rc = "absent" /\ pid # Nobody THEN "poll_alive" ELSE "poll_decide")
  /\ UNCHANGED <<stream, files, runners>>

\* Bug: a runner that died is polled like one that runs.
LookOnlyAtPid ==
  /\ pc = "poll_alive" /\ Step("poll_decide")
  /\ UNCHANGED <<stream, files, runners>>

LookAtProcess ==
  /\ pc = "poll_alive" /\ pc' = "poll_decide"
  /\ looked' = IF pid # Nobody /\ ~Alive(pid) THEN "crash" ELSE "none"
  /\ UNCHANGED <<job, late, ended, reported, offset, base, relayed, crowded, stream, files,
                 runners>>

\* Bug: the timeout of the poll is not part of the decision.
DecideNotLate ==
  /\ pc = "poll_decide" /\ pc' = "poll_read"
  /\ looked' = IF status.rc # "absent" THEN "status" ELSE looked
  /\ UNCHANGED <<job, late, ended, reported, offset, base, relayed, crowded, stream, files,
                 runners>>

\* finished = the status exists, or crashed, or timed out
Decide ==
  /\ pc = "poll_decide" /\ pc' = "poll_read"
  /\ looked' = IF status.rc # "absent" THEN "status"
               ELSE IF looked = "none" /\ late THEN "timeout" ELSE looked
  /\ UNCHANGED <<job, late, ended, reported, offset, base, relayed, crowded, stream, files,
                 runners>>

\* The lines that are complete: those up to the last newline.  A line is relayed
\* as its first event; only a line of one event counts for the poll.
Complete(n) == \E i \in n + 1 .. Len(stream) : stream[i] = Newline

LineStart(i) == stream[i] # Newline /\ (i = offset + 1 \/ stream[i - 1] = Newline)

Lines == {i \in offset + 1 .. Len(stream) : LineStart(i) /\ Complete(i)}

SaysEnd(i) ==
  /\ stream[i + 1] = Newline
  /\ TaskOf[stream[i].job] = TaskOf[job] /\ stream[i].status \in Final

NewOffset ==
  IF Complete(offset)
  THEN CHOOSE n \in offset + 1 .. Len(stream) : stream[n] = Newline /\ ~Complete(n)
  ELSE offset

\* Bug: the offset moves past a line whose newline has not come.
ReadPastPartial ==
  /\ pc = "poll_read"
  /\ relayed' = relayed \cup Lines /\ offset' = Len(stream)
  /\ LET why == IF looked # "none" THEN looked
                ELSE IF \E i \in Lines : SaysEnd(i) THEN "event" ELSE "none"
     IN /\ ended' = why /\ pc' = IF why = "none" THEN "poll" ELSE "settle"
        /\ looked' = "none"
  /\ UNCHANGED <<job, late, reported, base, crowded, stream, files, runners>>

ReadStream ==
  /\ pc = "poll_read"
  /\ relayed' = relayed \cup Lines /\ offset' = NewOffset
  /\ LET why == IF looked # "none" THEN looked
                ELSE IF \E i \in Lines : SaysEnd(i) THEN "event" ELSE "none"
     IN /\ ended' = why /\ pc' = IF why = "none" THEN "poll" ELSE "settle"
        /\ looked' = "none"
  /\ UNCHANGED <<job, late, reported, base, crowded, stream, files, runners>>

\* 7200 seconds of polling have passed.
TimePasses ==
  /\ pc \in {"poll", "poll_alive", "poll_decide", "poll_read"} /\ ~late /\ late' = TRUE
  /\ UNCHANGED <<pc, job, looked, ended, reported, offset, base, relayed, crowded, stream,
                 files, runners>>

-----------------------------------------------------------------------------
(* The judgement *)

\* Force stop LocalRunner if still running: the first signal trips its token, a
\* tripped token passes the signal on, which interrupts the process.
Settle ==
  /\ pc = "settle" /\ Step("load")
  /\ \/ /\ stop /\ pid # Nobody /\ Alive(pid)
        /\ \/ pid \notin told /\ told' = told \cup {pid} /\ UNCHANGED <<proc, todo>>
           \/ /\ pid \in told \/ proc[pid] = "born"
              /\ proc' = [proc EXCEPT ![pid] = "dead"]
              /\ todo' = [todo EXCEPT ![pid] = <<>>] /\ UNCHANGED told
     \/ ~(stop /\ pid # Nobody /\ Alive(pid)) /\ UNCHANGED runners
  /\ UNCHANGED <<stream, files>>

\* Load LocalRunner status and the two assertions: an absent status stands for
\* rc 1, one that is still empty cannot be parsed.
Load ==
  /\ pc = "load" /\ Step(IF status.rc = "0" THEN "collect" ELSE "rescue")
  /\ UNCHANGED <<stream, files, runners>>

\* Collect workload artifacts, then emit the completion event.
Collect ==
  /\ pc = "collect"
  /\ \/ /\ reported' = [reported EXCEPT ![job] = "done"] /\ GoTo(job + 1)
        /\ UNCHANGED <<late, looked, ended, offset, base, relayed, crowded>>
     \/ Step("rescue")
  /\ UNCHANGED <<stream, files, runners>>

\* Bug: the rescue does not fail the host, which goes on with its play.
RescueGoesOn ==
  /\ pc = "rescue" /\ GoTo(job + 1)
  /\ reported' = [reported EXCEPT ![job] = "failed"]
  /\ UNCHANGED <<late, looked, ended, offset, base, relayed, crowded, stream, files, runners>>

\* The rescue emits the failure event and fails the host.
Rescue ==
  /\ pc = "rescue" /\ pc' = "leave"
  /\ reported' = [reported EXCEPT ![job] = "failed"]
  /\ UNCHANGED <<job, late, looked, ended, offset, base, relayed, crowded, stream, files,
                 runners>>

\* The host becomes unreachable, or a task outside the block fails.
LoseHost ==
  /\ Active /\ Step("leave")
  /\ UNCHANGED <<stream, files, runners>>

\* A stop kills the playbook; the STOP playbook may reach the host or not.
KillPlay ==
  /\ Active /\ Step("stopping")
  /\ UNCHANGED <<stream, files, runners>>

StopPlaybook ==
  /\ pc = "stopping" /\ Step("leave")
  /\ stop' \in {stop, TRUE}
  /\ UNCHANGED <<stream, status, pid, runners>>

\* STOP is created while the play runs: by hand, as molecule's controller-stop does.
TouchStop ==
  /\ Active /\ ~stop /\ stop' = TRUE
  /\ UNCHANGED <<roleSide, stream, status, pid, runners>>

\* The host is back with the next play, of this run or of a resumed one.
NextPlay ==
  /\ pc = "leave"
  /\ GoTo(IF LaterPlays = {} THEN Jobs + 1
          ELSE CHOOSE k \in LaterPlays : \A i \in LaterPlays : k <= i)
  /\ UNCHANGED <<late, looked, ended, reported, offset, base, relayed, crowded, stream,
                 files, runners>>

Role ==
  \/ Start \/ Clean \/ Launch \/ WaitPid \/ Look \/ LookAtProcess \/ Decide \/ ReadStream
  \/ Settle \/ Load \/ Collect \/ Rescue \/ StopPlaybook \/ NextPlay

\* Once the plays are over only the runners move.
Over == pc = "end" /\ UNCHANGED vars

Next == Role \/ TimePasses \/ LoseHost \/ KillPlay \/ TouchStop \/ (\E j \in Job : Runner(j)) \/ Over

Spec == Init /\ [][Next]_vars

\* Ansible goes on with its tasks; nothing is assumed of the runners.
FairSpec == Spec /\ WF_vars(Role)

-----------------------------------------------------------------------------
(* Properties *)

\* Every complete line written since the launch is relayed exactly up to the
\* offset, whatever part of a line the stream ends in (stream_events_step.yml).
NothingSkipped ==
  \A i \in base + 1 .. offset :
    stream[i] # Newline /\ (i = base + 1 \/ stream[i - 1] = Newline) => i \in relayed

\* A poll that ends because the status file exists has relayed the runner's last
\* event: async_localrunner writes the event first, the poll reads it last.
FinalRelayed ==
  pc \in {"settle", "load", "collect"} /\ ended = "status" /\ job \notin crowded =>
    \E i \in relayed : stream[i].job = job /\ stream[i].last

\* A repetition is reported done only when its own runner ended with rc 0 and
\* has nothing left to do, unless an abandoned runner shared its directory.
DoneIsTrue ==
  \A j \in Job : reported[j] = "done" /\ j \notin crowded =>
    /\ proc[j] \in {"ending", "gone", "dead"} /\ todo[j] = <<>>
    /\ \E i \in 1 .. Len(stream) : stream[i] = Event(j, "done", TRUE)

\* A host that failed a repetition launches no other one of that play.
FailureEndsPlay ==
  [][\A j, k \in Job :
       PlayOf[j] = PlayOf[k] /\ reported[j] = "failed" =>
         ~(proc[k] = "none" /\ proc'[k] = "forked")]_vars

\* Polling ends once the runner is gone, whether or not it left a status.
DeadIsNoticed ==
  \A j \in Job :
    (pc = "poll" /\ job = j /\ ~Alive(j) /\ pid = j) ~> (pc # "poll" /\ pc # "poll_alive"
       /\ pc # "poll_decide" /\ pc # "poll_read")

\* A runner that hangs is given up when the poll times out: the plays end.
PlaysEnd == WF_vars(TimePasses) => <>(pc = "end")
=============================================================================
