---------------------------- MODULE MCGuiWindow ----------------------------
EXTENDS GuiWindow

\* Bound: the sections are used before the first run, and a run is started with
\* the default configuration in all of them and everything selected.  A run
\* reads nothing of them but that there is something to start.
StartsAlike ==
  /\ started > 0 => UNCHANGED <<configs, choice>>
  /\ started' > started =>
       /\ {setup, shown, current} = {1} /\ selected = Workload
       /\ \A v \in Catalogued : listed[v] = 1
=============================================================================
