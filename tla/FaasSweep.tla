------------------------------ MODULE FaasSweep ------------------------------
(***************************************************************************)
(* The sweep of the dfaas and peva_faas generators: every repetition is a  *)
(* process that walks the plan of configurations, skips what an earlier    *)
(* process has indexed and what dominates an overloaded configuration,     *)
(* cools down and runs k6 for each iteration of the others, and counts a   *)
(* failure without ending the sweep.  What it measured goes into the entry *)
(* of its repetition, and the entries of all repetitions are exported to   *)
(* the index the next process reads.  peva_faas also remembers in a        *)
(* database what it has seen, and reports every sweep a success.           *)
(***************************************************************************)
EXTENDS Naturals, Sequences, FiniteSets, SequencesExt

CONSTANTS
  Functions, Rates,              \* the names, in their order, and the list of rates
  MaxRate,                       \* functions[].max_rate; the highest rate where none is set
  MinFunctions, MaxFunctions,    \* combinations; the upper bound is exclusive
  Iterations,                    \* measurements of a configuration in a sweep
  MaxWait, SleepStep,            \* of the cooldown
  Repetitions, Processes         \* repetitions of the workload; bound: processes started

ASSUME SweepAssumption ==
  /\ Functions \subseteq Nat /\ IsFiniteSet(Functions)
  /\ Rates \subseteq Nat /\ IsFiniteSet(Rates) /\ MaxRate \in [Functions -> Nat]
  /\ MinFunctions \in Nat /\ MaxFunctions \in Nat /\ Iterations \in Nat \ {0}
  /\ MaxWait \in Nat /\ SleepStep \in Nat \ {0}
  /\ Repetitions \in Nat \ {0} /\ Processes \in Nat

Rep == 1 .. Repetitions
Smaller(a, b) == IF a <= b THEN a ELSE b

-----------------------------------------------------------------------------
(* The plan *)

RatesOf(f) == {r \in Rates : r <= MaxRate[f]}

Combinations ==
  {names \in SUBSET Functions : Cardinality(names) \in MinFunctions .. MaxFunctions - 1}

\* A configuration gives each of its functions a rate.
Configurations ==
  UNION {{c \in [names -> Rates] : \A f \in names : c[f] \in RatesOf(f)} : names \in Combinations}

\* The order of the plan matters: an overloaded configuration spares only what
\* comes after it.  Combinations come by size, then by name, and the rate of the
\* last function changes first.
FirstDifference(differ) == CHOOSE f \in differ : \A g \in differ : f <= g
Before(c, d) ==
  IF DOMAIN c = DOMAIN d
  THEN LET differ == {f \in DOMAIN c : c[f] # d[f]} IN
       differ # {} /\ c[FirstDifference(differ)] < d[FirstDifference(differ)]
  ELSE \/ Cardinality(DOMAIN c) < Cardinality(DOMAIN d)
       \/ /\ Cardinality(DOMAIN c) = Cardinality(DOMAIN d)
          /\ FirstDifference(SymDiff(DOMAIN c, DOMAIN d)) \in DOMAIN c

\* The configurations of a set, in the order of the plan.
Planned(set) ==
  CHOOSE plan \in [1 .. Cardinality(set) -> set] :
    \A i, j \in DOMAIN plan : i < j => Before(plan[i], plan[j])

Plan == Planned(Configurations)

Dominates(base, candidate) ==
  /\ DOMAIN base = DOMAIN candidate
  /\ \A f \in DOMAIN base : candidate[f] >= base[f]
  /\ \E f \in DOMAIN base : candidate[f] > base[f]

-----------------------------------------------------------------------------

VARIABLES
  variant,               \* which of the two plugins
  processes, rep,        \* processes started; the repetition of the last one
  at,                    \* where its sweep is
  left, indexed,         \* configurations to come; existing_index
  index, over, failed,   \* index_rows, overloaded_configs, failed_configs > 0
  iteration, overloads,  \* of the configuration at hand; overload_counter
  waited,                \* of the cooldown at hand
  result,                \* the generator's result
  entries,               \* on disk: the results file, an entry per repetition
  csv,                   \* on disk: index.csv
  seen,                  \* on disk: config_catalog of the memory database
  measured, spared       \* history: all rows made; all configurations found overloaded

process == <<variant, processes, rep>>
sweep == <<left, indexed, index, over, failed>>
config == <<iteration, overloads, waited>>
disk == <<entries, csv, seen>>
history == <<measured, spared>>
vars == <<process, at, sweep, config, result, disk, history>>

\* An entry keeps of a generator's result its index rows and whether it is a
\* success; "made" says whether there is a result at all.
NoResult == [made |-> FALSE, index |-> {}, ok |-> FALSE]
Entry == [made : BOOLEAN, index : SUBSET Configurations, ok : BOOLEAN]

TypeOK ==
  /\ variant \in {"dfaas", "peva"} /\ processes \in 0 .. Processes /\ rep \in Rep
  /\ at \in {"idle", "prepare", "config", "cooldown", "k6", "built", "export", "write", "exited"}
  /\ left \in Seq(Configurations) /\ Len(left) <= Len(Plan) /\ failed \in BOOLEAN
  /\ indexed \cup index \cup over \cup csv \cup seen \cup spared \subseteq Configurations
  /\ iteration \in 1 .. Iterations /\ overloads < Iterations + 1
  /\ waited <= MaxWait
  /\ result \in Entry /\ entries \in [Rep -> Entry]
  /\ measured \subseteq Configurations \X (1 .. Iterations)

Init ==
  /\ variant \in {"dfaas", "peva"} /\ processes = 0 /\ rep = 1 /\ at = "idle"
  /\ left = <<>> /\ indexed = {} /\ index = {} /\ over = {} /\ failed = FALSE
  /\ iteration = 1 /\ overloads = 0 /\ waited = 0 /\ result = NoResult
  /\ entries = [r \in Rep |-> NoResult] /\ csv = {} /\ seen = {}
  /\ measured = {} /\ spared = {}

-----------------------------------------------------------------------------
(* A process and its plan *)

\* The next repetition, or a run that is resumed with the one that failed.
Start ==
  /\ at \in {"idle", "exited"} /\ processes < Processes
  /\ \E r \in Rep :
       /\ ~entries[r].ok /\ \A s \in 1 .. r - 1 : entries[s].ok
       /\ rep' = r
  /\ processes' = processes + 1 /\ at' = "prepare"
  /\ left' = <<>> /\ indexed' = {} /\ index' = {} /\ over' = {} /\ failed' = FALSE
  /\ result' = NoResult
  /\ UNCHANGED <<variant, config, disk, history>>

\* propose_batch: what has been seen is filtered, without a skipped row.
Proposed == Planned(Configurations \ (csv \cup seen))

Prepare ==
  /\ at = "prepare" /\ at' = "config"
  /\ indexed' = csv /\ left' = (IF variant = "dfaas" THEN Plan ELSE Proposed)
  /\ UNCHANGED <<process, index, over, failed, config, result, disk, history>>

-----------------------------------------------------------------------------
(* One configuration *)

Current == Head(left)
SkipReason == Current \in indexed \/ \E o \in over : Dominates(o, Current)

Skip ==
  /\ at = "config" /\ left # <<>> /\ SkipReason /\ left' = Tail(left)
  /\ UNCHANGED <<process, at, indexed, index, over, failed, config, result, disk, history>>

Begin ==
  /\ at = "config" /\ left # <<>> /\ ~SkipReason /\ at' = "cooldown"
  /\ iteration' = 1 /\ overloads' = 0 /\ waited' = 0
  /\ UNCHANGED <<process, sweep, result, disk, history>>

\* Bug: a failure is logged and its configuration passed over.
ConfigPassedOver ==
  /\ at' = "config" /\ left' = Tail(left)
  /\ UNCHANGED <<indexed, index, over, failed, result, seen, history>>

\* _record_operational_failure; the handlers of peva_faas count nothing.
ConfigFails ==
  /\ at' = "config" /\ left' = Tail(left) /\ failed' = (failed \/ variant = "dfaas")
  /\ UNCHANGED <<indexed, index, over, result, seen, history>>

Idle == at' = "k6" /\ UNCHANGED <<sweep, waited, result, seen, history>>

\* Bug: the last wait is as long as the others.
SleepsPastTheEnd ==
  /\ waited < MaxWait /\ waited' = waited + SleepStep
  /\ UNCHANGED <<at, sweep, result, seen, history>>

\* dfaas: the last wait is shortened, and the time is over when all is waited.
Sleeps ==
  /\ waited < MaxWait /\ waited' = waited + Smaller(SleepStep, MaxWait - waited)
  /\ UNCHANGED <<at, sweep, result, seen, history>>

\* peva_faas: waits a whole step, and then looks at the time.
SleepsWhole ==
  /\ waited + SleepStep <= MaxWait /\ waited' = waited + SleepStep
  /\ UNCHANGED <<at, sweep, result, seen, history>>

Cooldown ==
  /\ at = "cooldown"
  /\ \/ Idle
     \/ variant = "dfaas" /\ Sleeps
     \/ variant = "dfaas" /\ waited = MaxWait /\ ConfigFails /\ UNCHANGED waited
     \/ variant = "peva" /\ SleepsWhole
     \/ variant = "peva" /\ waited + SleepStep > MaxWait /\ ConfigFails /\ UNCHANGED waited
  /\ UNCHANGED <<process, iteration, overloads, entries, csv>>

K6Fails ==
  /\ at = "k6" /\ ConfigFails
  /\ UNCHANGED <<process, config, entries, csv>>

\* ingest_event, after each iteration; that it failed is only logged.
Ingest ==
  \/ variant = "peva" /\ seen' = seen \cup {Current}
  \/ UNCHANGED seen

\* Bug: a configuration is indexed with its first iteration.
IndexedAtOnce(overloaded) ==
  /\ at = "k6" /\ Ingest
  /\ measured' = measured \cup {<<Current, iteration>>}
  /\ overloads' = (IF overloaded THEN overloads + 1 ELSE overloads)
  /\ index' = index \cup {Current}
  /\ IF iteration < Iterations
     THEN /\ at' = "cooldown" /\ iteration' = iteration + 1 /\ waited' = 0
          /\ UNCHANGED <<left, over, spared>>
     ELSE /\ at' = "config" /\ left' = Tail(left)
          /\ UNCHANGED <<over, spared, iteration, waited>>
  /\ UNCHANGED <<process, indexed, failed, result, entries, csv>>

\* _execute_iteration, and after the last one the rest of _execute_single_config.
Measure(overloaded) ==
  /\ at = "k6" /\ Ingest
  /\ measured' = measured \cup {<<Current, iteration>>}
  /\ overloads' = (IF overloaded THEN overloads + 1 ELSE overloads)
  /\ IF iteration < Iterations
     THEN /\ at' = "cooldown" /\ iteration' = iteration + 1 /\ waited' = 0
          /\ UNCHANGED <<left, index, over, spared>>
     ELSE /\ at' = "config" /\ left' = Tail(left) /\ index' = index \cup {Current}
          /\ LET found == IF 2 * overloads' > Iterations THEN {Current} ELSE {} IN
             over' = over \cup found /\ spared' = spared \cup found
          /\ UNCHANGED <<iteration, waited>>
  /\ UNCHANGED <<process, indexed, failed, result, entries, csv>>

-----------------------------------------------------------------------------
(* The end of a sweep *)

Build ==
  /\ at = "config" /\ left = <<>> /\ at' = "built"
  /\ result' = [made |-> TRUE, index |-> index, ok |-> ~failed]
  /\ UNCHANGED <<process, sweep, config, disk, history>>

\* An exception outside the handlers (no baseline, a script that cannot be
\* built, another schema of the database), a timeout or a stop: no result.
Abort ==
  /\ at \in {"prepare", "config", "cooldown", "k6"} /\ at' = "built"
  /\ UNCHANGED <<process, sweep, config, result, disk, history>>

\* The entry of the repetition is replaced in the results file.
Persist ==
  /\ at = "built" /\ at' = "export" /\ entries' = [entries EXCEPT ![rep] = result]
  /\ UNCHANGED <<process, sweep, config, result, csv, seen, history>>

\* A stop before the repetition has begun: nothing new, but an export.
StoppedFirst ==
  /\ at = "prepare" /\ at' = "export"
  /\ UNCHANGED <<process, sweep, config, result, disk, history>>

\* Without a list of functions in any entry nothing is written; else the file is
\* emptied first.
ExportOpen ==
  /\ at = "export"
  /\ \/ (\E r \in Rep : entries[r].made) /\ csv' = {} /\ at' = "write"
     \/ (\A r \in Rep : ~entries[r].made) /\ UNCHANGED csv /\ at' = "exited"
  /\ UNCHANGED <<process, sweep, config, result, entries, seen, history>>

ExportWrite ==
  /\ at = "write" /\ at' = "exited" /\ csv' = UNION {entries[r].index : r \in Rep}
  /\ UNCHANGED <<process, sweep, config, result, entries, seen, history>>

\* The runner's process or its host dies.
Crash ==
  /\ at \notin {"idle", "exited"} /\ at' = "idle"
  /\ UNCHANGED <<process, sweep, config, result, disk, history>>

Finished ==
  /\ at \in {"idle", "exited"} /\ (processes = Processes \/ \A r \in Rep : entries[r].ok)
  /\ UNCHANGED vars

Next ==
  \/ Start \/ Prepare \/ Skip \/ Begin \/ Cooldown \/ K6Fails
  \/ \E overloaded \in BOOLEAN : Measure(overloaded)
  \/ Build \/ Abort \/ Persist \/ StoppedFirst \/ ExportOpen \/ ExportWrite \/ Crash
  \/ Finished

Spec == Init /\ [][Next]_vars

-----------------------------------------------------------------------------
(* Properties *)

Measured(c) == \A i \in 1 .. Iterations : <<c, i>> \in measured

\* What the next process will skip has been measured in full: whichever
\* iteration failed and wherever a process died, a configuration is on its way
\* into the index, in the sweep, in an entry or in index.csv, only with all its
\* iterations (run_execution.py, _execute_single_config).
IndexedIsMeasured ==
  \A c \in index \cup csv \cup UNION {entries[r].index : r \in Rep} : Measured(c)

\* A repetition of dfaas that is called a success leaves nothing of the plan
\* out: a configuration it did not measure was measured by an earlier process,
\* or dominates one that was found overloaded (DfaasResultWriter.build).
SuccessIsComplete ==
  variant = "dfaas" =>
    \A r \in Rep : entries[r].ok =>
      \A c \in Configurations : Measured(c) \/ \E o \in spared : Dominates(o, c)

\* What a process found in the index is still there when it has ended: the index
\* is there "for resume support" (README of dfaas).
IndexKept == at = "exited" => indexed \subseteq csv
=============================================================================
