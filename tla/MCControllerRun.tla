-------------------------- MODULE MCControllerRun --------------------------
EXTENDS ControllerRun, TLC

AllPending == [h \in Hosts |-> Reps]
NonePending == [h \in Hosts |-> 0]
OnePending == [NonePending EXCEPT ![CHOOSE h \in Hosts : TRUE] = Reps]

\* The full pipeline, one that skips what follows a playbook, and one of the
\* workloads alone, which no stop file reaches.
Full == [f \in DOMAIN (CHOOSE c \in ConfigFields : TRUE) |-> TRUE]
NoneAfter == [Full EXCEPT !.plugin_teardown = FALSE, !.run_collect = FALSE]
NoneAround == [Full EXCEPT !.run_setup = FALSE, !.run_teardown = FALSE,
                           !.plugin_setup = FALSE, !.stop_file = FALSE]
SomeConfigs == {Full, NoneAfter, NoneAround}

\* A resumed run of which one host owes a repetition of the second workload
\* too, and one of which the first workload is done.
LongRun == <<AllPending, OnePending>>
ShortRun == <<NonePending, AllPending>>
ResumedRun == {LongRun, ShortRun}

\* The stop file, which may appear at any moment, is kept to the short run.
FileOnShortRun == cfg.stop_file <=> pending = ShortRun

\* The workloads alone, on a journal that is fresh.
Plain == {NoneAround}
FreshRun == [1 .. Workloads -> {AllPending}]
=============================================================================
