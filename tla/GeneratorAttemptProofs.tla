------------------------ MODULE GeneratorAttemptProofs ------------------------
(***************************************************************************)
(* Theorems about GeneratorAttempt, for any set of collectors, any number  *)
(* of repetitions and of processes and every shape of generator: that an   *)
(* attempt leaves nothing running behind it, what a repetition must have   *)
(* come to before it is called done, and what the results file keeps.      *)
(***************************************************************************)
EXTENDS GeneratorAttempt, TLAPS

-----------------------------------------------------------------------------
(* The steps *)

\* A step of the worker leaves the main thread, the metrics and the disk alone,
\* and a worker that has ended makes none.
LEMMA WorkerFrame ==
  ASSUME Worker
  PROVE  /\ UNCHANGED <<launchSide, stop, mainSide, metrics, disk, reports, history>>
         /\ worker \notin {"idle", "ended"} /\ worker' # "idle" /\ (running' => running)
<1> USE DEF outsideWorker
<1>1. CASE Fetch
  BY <1>1 DEF Fetch
<1>2. CASE Spawn
  BY <1>2 DEF Spawn
<1>3. CASE Communicate
  BY <1>3 DEF Communicate
<1>4. CASE CompilerDone
  BY <1>4 DEF CompilerDone
<1>5. CASE PtsDone
  BY <1>5 DEF PtsDone
<1>6. CASE Expire
  BY <1>6 DEF Expire
<1>7. CASE EndExpired
  BY <1>7 DEF EndExpired
<1>8. CASE ParseResult
  BY <1>8 DEF ParseResult
<1>9. CASE GoOn
  BY <1>9 DEF GoOn
<1>10. CASE RunsOver
  BY <1>10 DEF RunsOver
<1>11. CASE BaselineRun
  BY <1>11 DEF BaselineRun
<1>12. CASE SweepRun
  BY <1>12 DEF SweepRun
<1>13. CASE WorkerLeaves
  BY <1>13 DEF WorkerLeaves
<1> QED BY <1>1, <1>2, <1>3, <1>4, <1>5, <1>6, <1>7, <1>8, <1>9, <1>10, <1>11, <1>12, <1>13
     DEF Worker

\* The attempt has not started its generator.
Opening == {"begin", "ready", "prepare", "collectors", "start"}

\* The main thread only starts the generator and stops it; only four of its
\* steps touch the results; it never goes back to the start of an attempt.
LEMMA MainFrame ==
  ASSUME TypeOK, Main
  PROVE  /\ UNCHANGED <<launchSide, stop>>
         /\ StartGenerator \/ Reap \/ UNCHANGED generator
         /\ Merge \/ Replace \/ Flush \/ Rewrite \/ UNCHANGED disk
         /\ Status \/ UNCHANGED final
         /\ pc \notin Over
         /\ pc' \in Opening => pc \in Opening /\ UNCHANGED generator
<1> USE DEF GoTo, besideMain, launchSide, generator, disk, reports, Over, Opening
<1>0. back \in {"clean", "quiet"}
  BY DEF TypeOK
<1>1. CASE Begin
  BY <1>1 DEF Begin
<1>2. CASE Ready
  BY <1>2 DEF Ready
<1>3. CASE Prepare
  BY <1>3 DEF Prepare
<1>4. CASE StartCollectors
  BY <1>4 DEF StartCollectors
<1>5. CASE StartGenerator
  BY <1>5 DEF StartGenerator
<1>6. CASE Wait
  BY <1>6 DEF Wait
<1>7. CASE Clean
  BY <1>7 DEF Clean
<1>8. CASE Halt
  BY <1>8 DEF Halt
<1>9. CASE Reap
  BY <1>9 DEF Reap
<1>21. CASE ReapRaises
  BY <1>21 DEF ReapRaises
<1>10. CASE Join
  <2>1. pc = "join" /\ pc' = back /\ UNCHANGED <<launchSide, stop, generator, disk, reports>>
    BY <1>10 DEF Join
  <2>2. pc' \notin Opening
    BY <2>1, <1>0
  <2> QED BY <2>1, <2>2
<1>11. CASE StopCollectors
  BY <1>11 DEF StopCollectors
<1>12. CASE Close
  BY <1>12 DEF Close
<1>13. CASE BuildResult
  BY <1>13 DEF BuildResult
<1>14. CASE PersistRep
  BY <1>14 DEF PersistRep
<1>15. CASE Merge
  BY <1>15 DEF Merge
<1>16. CASE Replace
  BY <1>16 DEF Replace
<1>17. CASE Report
  BY <1>17 DEF Report
<1>18. CASE Flush
  BY <1>18 DEF Flush
<1>19. CASE Rewrite
  BY <1>19 DEF Rewrite
<1>20. CASE Status
  BY <1>20 DEF Status
<1> QED BY <1>1, <1>2, <1>3, <1>4, <1>5, <1>6, <1>7, <1>8, <1>9, <1>10, <1>11, <1>12, <1>13, <1>14,
     <1>15, <1>16, <1>17, <1>18, <1>19, <1>20, <1>21 DEF Main

\* A stop is requested, a sample fails or ends: nothing the attempt has come to.
Aside == UNCHANGED <<launchSide, mainSide, collecting, handler, generator, disk, reports, history>>

\* The next step is one of the main thread, of the worker, of a child process or
\* of the host.
LEMMA NextKinds ==
  [Next]_vars => Main \/ Worker \/ Launch \/ Die \/ Aside \/ \E k \in Runs : ChildExits(k)
<1> SUFFICES ASSUME [Next]_vars
             PROVE  Main \/ Worker \/ Launch \/ Die \/ Aside \/ \E k \in Runs : ChildExits(k)
  OBVIOUS
<1>1. CASE RequestStop
  BY <1>1 DEF RequestStop, Aside, metrics
<1>2. CASE SampleFails
  BY <1>2 DEF SampleFails, Aside
<1>3. ASSUME NEW c \in Collectors, LastSample(c) PROVE Aside
  BY <1>3 DEF LastSample, Aside
<1>4. CASE UNCHANGED vars
  BY <1>4 DEF vars, Aside, metrics
<1> QED BY <1>1, <1>2, <1>3, <1>4 DEF Next, Rest, Finished

-----------------------------------------------------------------------------
(* Types *)

\* What is written to the results file has been read or merged before.
Typed == TypeOK /\ (pc \in {"replace", "rewrite"} => merged # Unread)

\* The entries that are merged are those of the file with one of them replaced.
LEMMA CachedEntries ==
  ASSUME Typed
  PROVE  /\ Cached \in Entries
         /\ \A v \in Entry : [Cached EXCEPT ![rep] = v] \in Entries
         /\ Cached[rep] = IF merged = Unread THEN results[rep] ELSE merged[rep]
<1>1. Cached \in Entries
  BY DEF Typed, TypeOK, Cached
<1> QED BY <1>1 DEF Entries, Cached, Typed, TypeOK

\* Every step keeps the types, with what the results file may be written from.
LEMMA Types == Spec => []Typed
<1>1. Init => Typed
  <2> SUFFICES ASSUME Init PROVE Typed
    OBVIOUS
  <2>1. results \in Entries
    BY DEF Init, Entries, Entry
  <2>2. 1 \in 1 .. Launches /\ 1 \in 1 .. Reps
    BY RepsAssumption
  <2>3. stop \in BOOLEAN /\ faulty \in BOOLEAN /\ handler \in BOOLEAN /\ running \in BOOLEAN
        /\ flawed \in BOOLEAN /\ settled \in BOOLEAN /\ unstopped \in BOOLEAN
    BY DEF Init
  <2> QED BY <2>1, <2>2, <2>3
       DEF Init, Typed, TypeOK, Points, WorkerPoints, Verdicts, Runs, Entry
<1>2. Typed /\ [Next]_vars => Typed'
  <2> SUFFICES ASSUME Typed, [Next]_vars PROVE Typed'
    OBVIOUS
  <2> USE DEF Typed, TypeOK, Points, WorkerPoints, Verdicts, Runs, Entry, GoTo, besideMain,
              outsideWorker, launchSide, mainSide, metrics, generator, disk, reports,
              history
  <2>1. CASE Begin
    BY <2>1 DEF Begin
  <2>2. CASE Ready
    BY <2>2 DEF Ready
  <2>3. CASE Prepare
    BY <2>3 DEF Prepare
  <2>4. CASE StartCollectors
    BY <2>4 DEF StartCollectors
  <2>5. CASE StartGenerator
    <3>1. /\ pc' \in {"wait", "clean"} /\ worker' \in {"fetch", "spawn", worker}
          /\ verdict' \in {"error", verdict}
      BY <2>5 DEF StartGenerator
    <3>3. running' \in BOOLEAN
      BY <2>5 DEF StartGenerator
    <3>2. UNCHANGED <<back, held, run, process, flawed, result, child, metrics, disk, reports,
                      launchSide, stop, history>>
      BY <2>5 DEF StartGenerator
    <3> QED BY <3>1, <3>2, <3>3
  <2>6. CASE Wait
    BY <2>6 DEF Wait
  <2>7. CASE Clean
    BY <2>7 DEF Clean
  <2>8. CASE Halt
    BY <2>8 DEF Halt
  <2>9. CASE Reap
    <3>1. held \in {0} \cup {1, 2} /\ child \in [{1, 2} -> {"none", "up", "ok", "failed"}]
      OBVIOUS
    <3>2. /\ child' \in [{1, 2} -> {"none", "up", "ok", "failed"}]
          /\ \A k \in {1, 2} : child[k] # "none" => child'[k] # "none"
      BY <2>9, <3>1 DEF Reap, HeldIsUp
    <3>3. process' \in {0, process}
      BY <2>9 DEF Reap
    <3>4. process' # 0 => child'[process'] # "none"
      BY <3>2, <3>3
    <3>6. running' \in BOOLEAN
      BY <2>9 DEF Reap
    <3>5. /\ pc' = "join" /\ held' = 0
          /\ UNCHANGED <<back, verdict, worker, run, flawed, result, metrics, disk, reports,
                         launchSide, stop, history>>
      BY <2>9 DEF Reap
    <3> QED BY <3>2, <3>3, <3>4, <3>5, <3>6
  <2>41. CASE ReapRaises
    <3>1. /\ pc' \in {"clean", "quiet"} /\ held' = 0 /\ verdict' \in {"error", verdict}
          /\ unstopped' \in BOOLEAN
      BY <2>41 DEF ReapRaises
    <3>2. UNCHANGED <<launchSide, stop, back, metrics, generator, disk, reports, settled>>
      BY <2>41 DEF ReapRaises
    <3> QED BY <3>1, <3>2
  <2>10. CASE Join
    BY <2>10 DEF Join
  <2>11. CASE StopCollectors
    BY <2>11 DEF StopCollectors
  <2>12. CASE Close
    <3>1. pc' \in {"report", "repfile", "result"}
      BY <2>12 DEF Close
    <3>3. handler' \in BOOLEAN
      BY <2>12 DEF Close
    <3>2. UNCHANGED <<back, held, verdict, collecting, sampling, faulty, generator, disk, reports,
                      launchSide, stop, history>>
      BY <2>12 DEF Close
    <3> QED BY <3>1, <3>2, <3>3
  <2>13. CASE BuildResult
    BY <2>13 DEF BuildResult
  <2>14. CASE PersistRep
    BY <2>14 DEF PersistRep
  <2>15. CASE Merge
    <3>1. PICK v \in Entry : v = IF verdict = "ok" THEN "ok" ELSE "failed"
      OBVIOUS
    <3>2. merged' = [Cached EXCEPT ![rep] = v]
      BY <2>15, <3>1 DEF Merge
    <3>3. merged' \in Entries
      BY <3>1, <3>2, CachedEntries
    <3>4. /\ UNCHANGED <<launchSide, stop, back, held, results, metrics, generator, reports, history>>
          /\ pc' \in {"replace", "report", "flush"} /\ verdict' \in {verdict, "raised"}
          /\ pc' = "replace" => merged' # Unread
      <4>1. Unread \notin Entries
        BY RepsAssumption DEF Unread, Entries
      <4> QED BY <2>15, <3>3, <4>1 DEF Merge
    <3> QED BY <3>3, <3>4
  <2>16. CASE Replace
    BY <2>16 DEF Replace
  <2>17. CASE Report
    BY <2>17 DEF Report
  <2>18. CASE Flush
    <3>1. Cached \in Entries
      BY CachedEntries
    <3>2. /\ pc' \in {"status", "rewrite"} /\ verdict' \in {verdict, "raised"}
          /\ merged' \in {merged, Cached}
          /\ UNCHANGED <<back, held, results, metrics, generator, reports, launchSide, stop, history>>
      BY <2>18 DEF Flush
    <3>3. pc' = "rewrite" => merged' # Unread
      <4>1. Unread \notin Entries
        BY RepsAssumption DEF Unread, Entries
      <4> QED BY <2>18, <3>1, <4>1 DEF Flush
    <3> QED BY <3>1, <3>2, <3>3
  <2>19. CASE Rewrite
    BY <2>19 DEF Rewrite
  <2>20. CASE Status
    BY <2>20 DEF Status
  <2>21. CASE Fetch
    BY <2>21 DEF Fetch
  <2>22. CASE Spawn
    <3>1. child \in [{1, 2} -> {"none", "up", "ok", "failed"}] /\ run \in {1, 2}
      OBVIOUS
    <3>2. /\ child' \in [{1, 2} -> {"none", "up", "ok", "failed"}]
          /\ \A k \in {1, 2} : child[k] # "none" => child'[k] # "none"
          /\ process' = process \/ (process' = run /\ child'[run] = "up")
      BY <2>22, <3>1 DEF Spawn
    <3>3. process' # 0 => child'[process'] # "none"
      BY <3>1, <3>2
    <3>4. /\ worker' \in {"wait", "next", "leave"} /\ result' \in {"failed", result}
          /\ UNCHANGED <<run, running>>
          /\ UNCHANGED outsideWorker
      BY <2>22 DEF Spawn
    <3>5. flawed' \in BOOLEAN
      BY <2>22 DEF Spawn
    <3> QED BY <3>1, <3>2, <3>3, <3>4, <3>5
  <2>23. CASE Communicate
    BY <2>23 DEF Communicate
  <2>24. CASE CompilerDone
    BY <2>24 DEF CompilerDone
  <2>25. CASE PtsDone
    BY <2>25 DEF PtsDone
  <2>26. CASE Expire
    BY <2>26 DEF Expire
  <2>27. CASE EndExpired
    BY <2>27 DEF EndExpired
  <2>28. CASE ParseResult
    BY <2>28 DEF ParseResult
  <2>29. CASE GoOn
    BY <2>29 DEF GoOn
  <2>30. CASE RunsOver
    BY <2>30 DEF RunsOver
  <2>31. CASE BaselineRun
    BY <2>31 DEF BaselineRun
  <2>32. CASE SweepRun
    BY <2>32 DEF SweepRun
  <2>33. CASE WorkerLeaves
    <3>1. worker' = "ended" /\ UNCHANGED <<run, process, flawed, result, child>>
          /\ UNCHANGED outsideWorker
      BY <2>33 DEF WorkerLeaves
    <3>2. running' \in BOOLEAN
      BY <2>33 DEF WorkerLeaves
    <3> QED BY <3>1, <3>2
  <2>34. CASE RequestStop
    BY <2>34 DEF RequestStop
  <2>35. CASE SampleFails
    BY <2>35 DEF SampleFails
  <2>36. CASE Launch
    <3>1. /\ launched' \in 1 .. Launches /\ UNCHANGED <<plugin, results>>
          /\ rep' \in 1 .. Reps /\ stop' = FALSE /\ pc' = "begin"
          /\ child' = [k \in {1, 2} |-> "none"] /\ emitted' = "none" /\ final' = "none"
      BY <2>36, RepsAssumption DEF Launch
    <3>2. Forgotten
      BY <2>36 DEF Launch
    <3> QED BY <3>1, <3>2 DEF Forgotten
  <2>37. CASE Die
    BY <2>37 DEF Die, Forgotten
  <2>38. ASSUME NEW c \in Collectors, LastSample(c) PROVE Typed'
    BY <2>38 DEF LastSample
  <2>39. ASSUME NEW k \in Runs, ChildExits(k) PROVE Typed'
    BY <2>39 DEF ChildExits
  <2>40. CASE UNCHANGED vars
    BY <2>40 DEF vars
  <2> QED BY <2>1, <2>2, <2>3, <2>4, <2>5, <2>6, <2>7, <2>8, <2>9, <2>10, <2>11, <2>12, <2>13,
         <2>14, <2>15, <2>16, <2>17, <2>18, <2>19, <2>20, <2>21, <2>22, <2>23, <2>24, <2>25, <2>26,
         <2>27, <2>28, <2>29, <2>30, <2>31, <2>32, <2>33, <2>34, <2>35, <2>36, <2>37, <2>38, <2>39,
         <2>40, <2>41 DEF Next, Main, Worker, Rest, Finished
<1> QED BY <1>1, <1>2, PTL DEF Spec

\* The type invariant, whatever the collectors, the repetitions and the processes.
THEOREM Typing == Spec => []TypeOK
BY Types, PTL DEF Typed

-----------------------------------------------------------------------------
(* The end of an attempt *)

\* The points at which the generator cannot run, nothing collects and the log
\* handler is not attached: before they are started, and after the cleanup, in
\* which only a stop() that raised leaves the generator running.
QuietInv ==
  /\ pc \in Opening \cup {"join"} => ~running
  /\ pc \in {"quiet", "close"} \cup Closed => (running => unstopped)
  /\ pc \in {"begin", "ready", "prepare", "collectors", "close"} \cup Closed => collecting = {}
  /\ pc \in {"begin"} \cup Closed => ~handler

\* The cleanup goes through every one of these points, whatever came before it.
LEMMA QuietInvariant == Spec => []QuietInv
<1>1. Init => QuietInv
  BY DEF Init, QuietInv, Closed
<1>2. Typed /\ QuietInv /\ [Next]_vars => QuietInv'
  <2> SUFFICES ASSUME Typed, QuietInv, [Next]_vars PROVE QuietInv'
    OBVIOUS
  <2> USE DEF QuietInv, Opening, Closed, Over, GoTo, besideMain, launchSide, metrics, generator,
              disk, reports, history
  <2>1. CASE Begin
    BY <2>1 DEF Begin
  <2>2. CASE Ready
    BY <2>2 DEF Ready
  <2>3. CASE Prepare
    BY <2>3 DEF Prepare
  <2>4. CASE StartCollectors
    BY <2>4 DEF StartCollectors
  <2>5. CASE StartGenerator
    BY <2>5 DEF StartGenerator
  <2>6. CASE Wait
    BY <2>6 DEF Wait
  <2>7. CASE Clean
    BY <2>7 DEF Clean
  <2>8. CASE Halt
    BY <2>8 DEF Halt
  <2>9. CASE Reap
    BY <2>9 DEF Reap
  <2>25. CASE ReapRaises
    BY <2>25 DEF ReapRaises
  <2>10. CASE Join
    <3>1. back \in {"clean", "quiet"}
      BY DEF Typed, TypeOK
    <3> QED BY <2>10, <3>1 DEF Join
  <2>11. CASE StopCollectors
    BY <2>11 DEF StopCollectors
  <2>12. CASE Close
    BY <2>12 DEF Close
  <2>13. CASE BuildResult
    BY <2>13 DEF BuildResult
  <2>14. CASE PersistRep
    BY <2>14 DEF PersistRep
  <2>15. CASE Merge
    BY <2>15 DEF Merge
  <2>16. CASE Replace
    BY <2>16 DEF Replace
  <2>17. CASE Report
    BY <2>17 DEF Report
  <2>18. CASE Flush
    BY <2>18 DEF Flush
  <2>19. CASE Rewrite
    BY <2>19 DEF Rewrite
  <2>20. CASE Status
    BY <2>20 DEF Status
  <2>21. CASE Worker
    BY <2>21, WorkerFrame DEF mainSide
  <2>22. CASE Launch \/ Die
    BY <2>22 DEF Launch, Die, Forgotten
  <2>23. CASE Aside
    BY <2>23 DEF Aside, mainSide
  <2>24. ASSUME NEW k \in Runs, ChildExits(k) PROVE QuietInv'
    BY <2>24 DEF ChildExits, outsideWorker, mainSide
  <2> QED BY <2>1, <2>2, <2>3, <2>4, <2>5, <2>6, <2>7, <2>8, <2>9, <2>10, <2>11, <2>12, <2>13,
         <2>14, <2>15, <2>16, <2>17, <2>18, <2>19, <2>20, <2>21, <2>22, <2>23, <2>24, <2>25,
         NextKinds DEF Main
<1> QED BY <1>1, <1>2, Types, PTL DEF Spec

\* Once execute() has left its try statement nothing measures: however it came
\* to the cleanup, that ran to its end, and the generator was told to stop
\* unless its stop() raised (executor.py, _cleanup_after_run).
THEOREM NothingRunsOn == Spec => []QuietAfterAttempt
<1>1. QuietInv => QuietAfterAttempt
  BY DEF QuietInv, QuietAfterAttempt
<1> QED BY <1>1, QuietInvariant, PTL

-----------------------------------------------------------------------------
(* The results file *)

\* What is merged differs from the file in the repetition at hand only.
MergedInv == merged # Unread => \A r \in 1 .. Reps : r # rep => merged[r] = results[r]

\* Only the entry of this repetition is replaced, and a new process reads afresh.
LEMMA MergedInvariant == Spec => []MergedInv
<1>1. Init => MergedInv
  BY DEF Init, MergedInv
<1>2. Typed /\ MergedInv /\ [Next]_vars => MergedInv'
  <2> SUFFICES ASSUME Typed, MergedInv, [Next]_vars PROVE MergedInv'
    OBVIOUS
  <2>0. Cached \in Entries /\ \A r \in 1 .. Reps : r # rep => Cached[r] = results[r]
    BY CachedEntries DEF MergedInv, Cached
  <2>1. CASE Merge
    <3>1. merged' = [Cached EXCEPT ![rep] = IF verdict = "ok" THEN "ok" ELSE "failed"]
          /\ UNCHANGED <<results, rep>>
      BY <2>1 DEF Merge, besideMain, launchSide
    <3>2. \A r \in 1 .. Reps : r # rep => merged'[r] = Cached[r]
      BY <2>0, <3>1 DEF Entries
    <3> QED BY <2>0, <3>1, <3>2 DEF MergedInv
  <2>2. CASE Replace
    BY <2>2 DEF Replace, MergedInv
  <2>3. CASE Flush
    <3>1. UNCHANGED <<results, rep>> /\ merged' \in {merged, Cached}
      BY <2>3 DEF Flush, besideMain, launchSide
    <3> QED BY <2>0, <3>1 DEF MergedInv
  <2>4. CASE Rewrite
    BY <2>4 DEF Rewrite, MergedInv
  <2>5. CASE Main
    BY <2>1, <2>2, <2>3, <2>4, <2>5, MainFrame DEF Typed, MergedInv, disk, launchSide
  <2>6. CASE Worker
    BY <2>6, WorkerFrame DEF MergedInv, disk, launchSide
  <2>7. CASE Launch \/ Die
    BY <2>7 DEF Launch, Die, Forgotten, MergedInv
  <2>8. CASE Aside \/ \E k \in Runs : ChildExits(k)
    BY <2>8 DEF Aside, ChildExits, outsideWorker, MergedInv, disk, launchSide
  <2> QED BY <2>5, <2>6, <2>7, <2>8, NextKinds
<1> QED BY <1>1, <1>2, Types, PTL DEF Spec

\* No crash, stop or failed write of one repetition takes the result of another
\* out of the file (ResultPersister.process_results, _finalize_workload_results).
THEOREM OthersAreKept == Spec => OthersKept
<1>1. Typed /\ MergedInv /\ [Next]_vars =>
        \A r \in 1 .. Reps : r # rep => results'[r] = results[r]
  <2> SUFFICES ASSUME Typed, MergedInv, [Next]_vars, NEW r \in 1 .. Reps, r # rep
               PROVE  results'[r] = results[r]
    OBVIOUS
  <2>1. CASE Merge \/ Flush
    BY <2>1 DEF Merge, Flush
  <2>2. CASE Replace \/ Rewrite
    BY <2>2 DEF Replace, Rewrite, Typed, MergedInv
  <2>3. CASE Main
    BY <2>1, <2>2, <2>3, MainFrame DEF Typed, disk
  <2>4. CASE Worker
    BY <2>4, WorkerFrame DEF disk
  <2>5. CASE Launch \/ Die
    BY <2>5 DEF Launch, Die
  <2>6. CASE Aside \/ \E k \in Runs : ChildExits(k)
    BY <2>6 DEF Aside, ChildExits, outsideWorker, disk
  <2> QED BY <2>3, <2>4, <2>5, <2>6, NextKinds
<1> QED BY <1>1, Types, MergedInvariant, PTL DEF Spec, OthersKept

\* From the merge of a success to the end of main, the success is where the next
\* write takes it from; a write that fails turns the verdict.
PersistInv ==
  /\ pc = "replace" /\ verdict = "ok" => merged[rep] = "ok"
  /\ pc \in {"report", "flush", "rewrite", "status"} /\ verdict = "ok" =>
       results[rep] = "ok" /\ (merged # Unread => merged[rep] = "ok")
  /\ final = "done" => pc = "exit" /\ results[rep] = "ok"

\* A step that cannot write does not leave the verdict at ok.
LEMMA PersistInvariant == Spec => []PersistInv
<1>1. Init => PersistInv
  BY DEF Init, PersistInv
<1>2. Typed /\ PersistInv /\ [Next]_vars => PersistInv'
  <2> SUFFICES ASSUME Typed, PersistInv, [Next]_vars PROVE PersistInv'
    OBVIOUS
  <2> USE DEF PersistInv, GoTo, besideMain, launchSide, metrics, generator, disk, reports
  <2>1. CASE Begin
    BY <2>1 DEF Begin
  <2>2. CASE Ready
    BY <2>2 DEF Ready
  <2>3. CASE Prepare
    BY <2>3 DEF Prepare
  <2>4. CASE StartCollectors
    BY <2>4 DEF StartCollectors
  <2>5. CASE StartGenerator
    BY <2>5 DEF StartGenerator
  <2>6. CASE Wait
    BY <2>6 DEF Wait
  <2>7. CASE Clean
    BY <2>7 DEF Clean
  <2>8. CASE Halt
    BY <2>8 DEF Halt
  <2>9. CASE Reap
    BY <2>9 DEF Reap
  <2>25. CASE ReapRaises
    BY <2>25 DEF ReapRaises
  <2>10. CASE Join
    <3>1. back \in {"clean", "quiet"}
      BY DEF Typed, TypeOK
    <3> QED BY <2>10, <3>1 DEF Join
  <2>11. CASE StopCollectors
    BY <2>11 DEF StopCollectors
  <2>12. CASE Close
    BY <2>12 DEF Close
  <2>13. CASE BuildResult
    BY <2>13 DEF BuildResult
  <2>14. CASE PersistRep
    BY <2>14 DEF PersistRep
  <2>15. CASE Merge
    <3>1. PICK v \in Entry : v = IF verdict = "ok" THEN "ok" ELSE "failed"
      BY DEF Entry
    <3>2. merged' = [Cached EXCEPT ![rep] = v] /\ UNCHANGED rep /\ final # "done"
      BY <2>15, <3>1 DEF Merge
    <3>3. merged'[rep] = v
      BY <3>2, CachedEntries DEF Entries, Typed, TypeOK
    <3>4. \/ pc' = "replace" /\ UNCHANGED verdict
          \/ pc' = "report" /\ verdict' = "error"
          \/ pc' = "flush" /\ verdict' = "raised"
      <4>1. CASE verdict = "error"
        BY <2>15, <4>1 DEF Merge
      <4>2. CASE verdict # "error"
        BY <2>15, <4>2 DEF Merge
      <4> QED BY <4>1, <4>2
    <3>5. UNCHANGED final
      BY <2>15 DEF Merge
    <3> QED BY <3>1, <3>2, <3>3, <3>4, <3>5
  <2>16. CASE Replace
    <3>1. /\ pc = "replace" /\ pc' = "report" /\ results' = merged /\ final # "done"
          /\ UNCHANGED <<rep, verdict, merged, final>>
      BY <2>16 DEF Replace
    <3> QED BY <3>1
  <2>17. CASE Report
    BY <2>17 DEF Report
  <2>18. CASE Flush
    <3>1. /\ pc = "flush" /\ final # "done" /\ UNCHANGED <<rep, results, final>>
          /\ pc' \in {"rewrite", "status"} /\ verdict' \in {verdict, "raised"}
          /\ merged' \in {merged, Cached}
      BY <2>18 DEF Flush
    <3>2. verdict = "ok" => results[rep] = "ok" /\ Cached[rep] = "ok"
      BY <3>1, CachedEntries
    <3> QED BY <3>1, <3>2
  <2>19. CASE Rewrite
    <3>1. /\ pc = "rewrite" /\ pc' = "status" /\ results' = merged /\ merged' = Unread
          /\ UNCHANGED <<rep, verdict, final>>
      BY <2>19 DEF Rewrite
    <3>2. merged # Unread
      BY <3>1 DEF Typed
    <3> QED BY <3>1, <3>2
  <2>20. CASE Status
    BY <2>20 DEF Status
  <2>21. CASE Worker
    BY <2>21, WorkerFrame DEF mainSide
  <2>22. CASE Launch \/ Die
    BY <2>22 DEF Launch, Die, Forgotten, Over
  <2>23. CASE Aside
    BY <2>23 DEF Aside, mainSide
  <2>24. ASSUME NEW k \in Runs, ChildExits(k) PROVE PersistInv'
    BY <2>24 DEF ChildExits, outsideWorker, mainSide
  <2> QED BY <2>1, <2>2, <2>3, <2>4, <2>5, <2>6, <2>7, <2>8, <2>9, <2>10, <2>11, <2>12, <2>13,
         <2>14, <2>15, <2>16, <2>17, <2>18, <2>19, <2>20, <2>21, <2>22, <2>23, <2>24, <2>25,
         NextKinds DEF Main
<1> QED BY <1>1, <1>2, Types, PTL DEF Spec

\* What async_localrunner calls done is in the results file as a success, however
\* many writes failed on the way (ResultPersister, async_localrunner.main).
THEOREM DoneStaysInFile == Spec => []DoneIsPersisted
<1>1. PersistInv => DoneIsPersisted
  BY DEF PersistInv, DoneIsPersisted
<1> QED BY <1>1, PersistInvariant, PTL

-----------------------------------------------------------------------------
(* The commands of the worker *)

\* What the worker knows of its commands at each of its points: nothing is left
\* of an earlier process, the second command follows the first, and only STREAM
\* keeps count of failures beside the result.
CommandInv ==
  /\ pc \in Opening =>
       worker = "idle" /\ run = 1 /\ ~flawed /\ child = [k \in Runs |-> "none"]
  /\ plugin # "stream" => ~flawed
  /\ worker # "idle" /\ run = 1 => child[2] = "none"
  /\ worker = "wait" => child[run] # "none"
  /\ worker = "parse" => plugin # "stream"
  /\ worker = "expired" /\ plugin # "stream" => result = "failed"

\* A generator of one command after the other: once it is past its command, its
\* result is a failure or the command exited well.
SingleInv ==
  plugin \notin Childless \cup {"stream"} /\ worker \in {"parse", "next", "leave", "ended"}
    /\ result # "failed" => child[run] = "ok"

\* STREAM: a compiler it has passed exited well or has flawed the run.
StreamInv ==
  plugin = "stream" =>
    /\ worker \in {"fetch", "spawn", "wait", "expired", "next"} /\ run = 2 =>
         flawed \/ child[1] = "ok"
    /\ worker = "next" => flawed \/ child[run] = "ok"
    /\ worker \in {"leave", "ended"} /\ result # "failed" =>
         ~flawed /\ \A k \in Runs : child[k] \in {"none", "ok"}

WorkInv == CommandInv /\ SingleInv /\ StreamInv

\* A child that has exited stays as it is, and one that has not may only exit.
LEMMA ChildMoves ==
  ASSUME Typed, WorkInv,
         child' = child \/ \E k \in Runs, s \in {"ok", "failed"} :
                             child[k] = "up" /\ child' = [child EXCEPT ![k] = s],
         UNCHANGED <<plugin, worker, run, flawed, result>>, pc' \in Opening => pc \in Opening
  PROVE  WorkInv'
<1>1. CASE child' = child
  BY <1>1 DEF WorkInv, CommandInv, SingleInv, StreamInv
<1>2. ASSUME NEW k \in Runs, NEW s \in {"ok", "failed"},
             child[k] = "up", child' = [child EXCEPT ![k] = s]
      PROVE  WorkInv'
  <2>1. child \in [Runs -> {"none", "up", "ok", "failed"}] /\ run \in Runs
    BY DEF Typed, TypeOK
  <2>2. \A i \in Runs : /\ child[i] \in {"none", "ok"} => child'[i] = child[i]
                        /\ child[i] # "none" => child'[i] # "none"
    BY <1>2, <2>1
  <2>3. pc \notin Opening
    BY <1>2 DEF WorkInv, CommandInv
  <2>4. CommandInv'
    BY <2>1, <2>2, <2>3 DEF WorkInv, CommandInv, Runs
  <2>5. SingleInv'
    BY <2>1, <2>2 DEF WorkInv, SingleInv
  <2>6. StreamInv'
    <3>1. 1 \in Runs
      BY DEF Runs
    <3> QED BY <2>1, <2>2, <3>1 DEF WorkInv, StreamInv
  <2> QED BY <2>4, <2>5, <2>6 DEF WorkInv
<1> QED BY <1>1, <1>2

\* The worker's steps keep what it knows, and no one else's undo it.
LEMMA WorkInvariant == Spec => []WorkInv
<1>1. Init => WorkInv
  BY DEF Init, WorkInv, CommandInv, SingleInv, StreamInv, Runs
<1>2. Typed /\ WorkInv /\ [Next]_vars => WorkInv'
  <2> SUFFICES ASSUME Typed, WorkInv, [Next]_vars PROVE WorkInv'
    OBVIOUS
  <2>0. /\ child \in [{1, 2} -> {"none", "up", "ok", "failed"}] /\ run \in {1, 2}
        /\ plugin \in Shapes /\ held \in {0, 1, 2} /\ Runs = {1, 2}
    BY GeneratorsAssumption DEF Typed, TypeOK, Runs
  <2>1. ASSUME Worker PROVE WorkInv'
    <3>0. /\ pc \notin Opening /\ worker # "idle" /\ UNCHANGED <<plugin, pc>>
      BY <2>1, WorkerFrame DEF WorkInv, CommandInv, launchSide, mainSide
    <3> USE DEF WorkInv, CommandInv, SingleInv, StreamInv, Childless
    <3>1. CASE Fetch
      BY <3>1, <2>0, <3>0 DEF Fetch
    <3>2. CASE Spawn
      <4>1. CASE /\ child' = [child EXCEPT ![run] = "up"] /\ worker' = "wait"
                 /\ UNCHANGED <<result, flawed>>
        <5>1. child'[run] = "up" /\ \A k \in Runs : k # run => child'[k] = child[k]
          BY <2>0, <4>1
        <5>2. worker = "spawn" /\ UNCHANGED run
          BY <3>2 DEF Spawn
        <5> QED BY <2>0, <3>0, <4>1, <5>1, <5>2
      <4>2. CASE /\ child' = [child EXCEPT ![run] = "failed"] /\ result' = "failed"
                 /\ flawed' = (flawed \/ plugin = "stream")
                 /\ worker' = (IF plugin \in {"stream", "geekbench"} THEN "next" ELSE "leave")
        <5>1. child'[run] = "failed" /\ \A k \in Runs : k # run => child'[k] = child[k]
          BY <2>0, <4>2
        <5>2. worker = "spawn" /\ UNCHANGED run
          BY <3>2 DEF Spawn
        <5>3. CommandInv' /\ SingleInv'
          <6>1. plugin # "stream" => ~flawed'
            BY <4>2
          <6>2. worker' \in {"next", "leave"} /\ result' = "failed"
            BY <4>2
          <6> QED BY <2>0, <3>0, <5>1, <5>2, <6>1, <6>2
        <5>4. StreamInv'
          BY <2>0, <3>0, <4>2, <5>1, <5>2
        <5> QED BY <5>3, <5>4
      <4> QED BY <3>2, <4>1, <4>2 DEF Spawn
    <3>3. CASE Communicate
      BY <3>3, <2>0, <3>0 DEF Communicate
    <3>4. CASE CompilerDone
      BY <3>4, <2>0, <3>0 DEF CompilerDone
    <3>5. CASE PtsDone
      BY <3>5, <2>0, <3>0 DEF PtsDone
    <3>6. CASE Expire
      BY <3>6, <2>0, <3>0 DEF Expire
    <3>7. CASE EndExpired
      BY <3>7, <2>0, <3>0 DEF EndExpired
    <3>8. CASE ParseResult
      BY <3>8, <2>0, <3>0 DEF ParseResult
    <3>9. CASE GoOn
      BY <3>9, <2>0, <3>0 DEF GoOn
    <3>10. CASE RunsOver
      BY <3>10, <2>0, <3>0 DEF RunsOver
    <3>11. CASE BaselineRun
      BY <3>11, <2>0, <3>0 DEF BaselineRun
    <3>12. CASE SweepRun
      BY <3>12, <2>0, <3>0 DEF SweepRun
    <3>13. CASE WorkerLeaves
      BY <3>13, <2>0, <3>0 DEF WorkerLeaves
    <3> QED BY <2>1, <3>1, <3>2, <3>3, <3>4, <3>5, <3>6, <3>7, <3>8, <3>9, <3>10, <3>11, <3>12,
           <3>13 DEF Worker
  <2>2. CASE StartGenerator
    <3>1. /\ pc = "start" /\ pc' \in {"wait", "clean"} /\ worker' \in {"fetch", "spawn", worker}
          /\ UNCHANGED <<plugin, run, flawed, result, child>>
      BY <2>2 DEF StartGenerator, GoTo, besideMain, launchSide
    <3>2. worker = "idle" /\ run = 1 /\ ~flawed /\ child[2] = "none"
      BY <2>0, <3>1 DEF WorkInv, CommandInv, Opening
    <3>3. CommandInv' /\ SingleInv'
      BY <3>1, <3>2 DEF CommandInv, SingleInv, Opening
    <3>4. StreamInv'
      BY <3>1, <3>2 DEF StreamInv
    <3> QED BY <3>3, <3>4 DEF WorkInv
  <2>3. CASE Reap
    <3>1. /\ pc' = "join" /\ UNCHANGED <<plugin, worker, run, flawed, result>>
          /\ \/ child' = child
             \/ HeldIsUp /\ \E s \in {"ok", "failed"} : child' = [child EXCEPT ![held] = s]
      BY <2>3 DEF Reap, GoTo, besideMain, launchSide
    <3>2. child' = child \/ \E k \in Runs, s \in {"ok", "failed"} :
                               child[k] = "up" /\ child' = [child EXCEPT ![k] = s]
      <4>1. HeldIsUp => held \in Runs /\ child[held] = "up"
        BY <2>0 DEF HeldIsUp
      <4> QED BY <3>1, <4>1
    <3> QED BY <3>1, <3>2, ChildMoves DEF Opening
  <2>4. CASE Main
    <3>1. CASE UNCHANGED generator
      BY <2>4, <3>1, MainFrame, ChildMoves DEF Typed, generator, launchSide
    <3> QED BY <2>2, <2>3, <2>4, <3>1, MainFrame DEF Typed
  <2>5. CASE Launch \/ Die
    BY <2>5, <2>0 DEF Launch, Die, Forgotten, WorkInv, CommandInv, SingleInv, StreamInv, Opening,
       launchSide
  <2>6. CASE Aside
    BY <2>6, ChildMoves DEF Aside, generator, launchSide, mainSide
  <2>7. ASSUME NEW k \in Runs, ChildExits(k) PROVE WorkInv'
    BY <2>7, ChildMoves DEF ChildExits, outsideWorker, launchSide, mainSide
  <2> QED BY <2>1, <2>4, <2>5, <2>6, <2>7, NextKinds
<1> QED BY <1>1, <1>2, Types, PTL DEF Spec

-----------------------------------------------------------------------------
(* The verdict *)

\* The attempt in front of its judgement.
Attempting == {"wait", "clean", "halt", "reap", "join", "quiet", "close"}

\* A verdict of success is only made from the result of a worker that was
\* started, and a worker that had ended by then changes nothing afterwards.
VerdictInv ==
  /\ pc \in Opening => verdict = "none"
  /\ pc \in Attempting =>
       verdict \in {"none", "stopped", "error"} /\ (verdict = "none" => worker # "idle")
  /\ pc = "result" => worker # "idle"
  /\ verdict = "ok" => pc \in Closed \ {"result"}
  /\ emitted = "done" => pc \in {"flush", "rewrite", "status", "exit", "dead"}
  /\ settled /\ (verdict = "ok" \/ emitted = "done") => worker = "ended" /\ result # "failed"

\* The main thread comes to its verdict once, after the cleanup.
LEMMA VerdictInvariant == Spec => []VerdictInv
<1>1. Init => VerdictInv
  BY DEF Init, VerdictInv, Attempting, Closed, Opening
<1>2. Typed /\ WorkInv /\ VerdictInv /\ [Next]_vars => VerdictInv'
  <2> SUFFICES ASSUME Typed, WorkInv, VerdictInv, [Next]_vars PROVE VerdictInv'
    OBVIOUS
  <2> USE DEF VerdictInv, Opening, Attempting, Closed, Over, Succeeded, WorkerAlive, GoTo,
              besideMain, launchSide, metrics, generator, disk, reports, history
  <2>1. CASE Begin
    BY <2>1 DEF Begin
  <2>2. CASE Ready
    BY <2>2 DEF Ready
  <2>3. CASE Prepare
    BY <2>3 DEF Prepare
  <2>4. CASE StartCollectors
    BY <2>4 DEF StartCollectors
  <2>5. CASE StartGenerator
    BY <2>5 DEF StartGenerator
  <2>6. CASE Wait
    BY <2>6 DEF Wait
  <2>7. CASE Clean
    BY <2>7 DEF Clean
  <2>8. CASE Halt
    BY <2>8 DEF Halt
  <2>9. CASE Reap
    BY <2>9 DEF Reap
  <2>25. CASE ReapRaises
    BY <2>25 DEF ReapRaises
  <2>10. CASE Join
    <3>1. back \in {"clean", "quiet"}
      BY DEF Typed, TypeOK
    <3> QED BY <2>10, <3>1 DEF Join
  <2>11. CASE StopCollectors
    BY <2>11 DEF StopCollectors
  <2>12. CASE Close
    BY <2>12 DEF Close
  <2>13. CASE BuildResult
    BY <2>13 DEF BuildResult
  <2>14. CASE PersistRep
    BY <2>14 DEF PersistRep
  <2>15. CASE Merge
    BY <2>15 DEF Merge
  <2>16. CASE Replace
    BY <2>16 DEF Replace
  <2>17. CASE Report
    BY <2>17 DEF Report
  <2>18. CASE Flush
    BY <2>18 DEF Flush
  <2>19. CASE Rewrite
    BY <2>19 DEF Rewrite
  <2>20. CASE Status
    BY <2>20 DEF Status
  <2>21. CASE Worker
    BY <2>21, WorkerFrame DEF mainSide
  <2>22. CASE Launch \/ Die
    BY <2>22 DEF Launch, Die, Forgotten
  <2>23. CASE Aside
    BY <2>23 DEF Aside, mainSide
  <2>24. ASSUME NEW k \in Runs, ChildExits(k) PROVE VerdictInv'
    BY <2>24 DEF ChildExits, outsideWorker, mainSide
  <2> QED BY <2>1, <2>2, <2>3, <2>4, <2>5, <2>6, <2>7, <2>8, <2>9, <2>10, <2>11, <2>12, <2>13,
         <2>14, <2>15, <2>16, <2>17, <2>18, <2>19, <2>20, <2>21, <2>22, <2>23, <2>24, <2>25,
         NextKinds DEF Main
<1> QED BY <1>1, <1>2, Types, WorkInvariant, PTL DEF Spec

\* A repetition that is called done stands for commands that exited well, unless
\* its worker was still at work when its result was read: no stop, timeout or
\* dropped reference leaves a "done" (CommandGenerator, is_generator_success).
THEOREM DoneIsSuccess == Spec => []DoneMeansSuccess
<1>1. Typed /\ WorkInv /\ VerdictInv => DoneMeansSuccess
  <2> SUFFICES ASSUME Typed, WorkInv, VerdictInv, emitted = "done", settled, plugin \notin Childless
               PROVE  ~flawed /\ \A k \in MeantRuns : child[k] = "ok"
    BY DEF DoneMeansSuccess
  <2>1. worker = "ended" /\ result # "failed"
    BY DEF VerdictInv
  <2>2. CASE plugin = "stream"
    BY <2>1, <2>2 DEF WorkInv, StreamInv, MeantRuns
  <2>3. CASE plugin # "stream"
    BY <2>1, <2>3 DEF WorkInv, CommandInv, SingleInv, MeantRuns
  <2> QED BY <2>2, <2>3
<1> QED BY <1>1, Types, WorkInvariant, VerdictInvariant, PTL
=============================================================================
