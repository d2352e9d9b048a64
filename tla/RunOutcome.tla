----------------------------- MODULE RunOutcome -----------------------------
(***************************************************************************)
(* What a benchmark run promises its caller, the client that provisioned   *)
(* the nodes: while it works, hosts may run repetitions; once it is        *)
(* stopping none starts; it closes with one verdict, to destroy the nodes  *)
(* or to keep them for inspection, and destroys after a stop only when     *)
(* every host acknowledged it.                                             *)
(***************************************************************************)
CONSTANT Hosts

VARIABLES
  phase,    \* "working", "stopping" or "closed"
  busy,     \* hosts whose current repetition the run attends
  acks,     \* hosts that acknowledged the stop
  verdict   \* "none", "keep" or "destroy"

vars == <<phase, busy, acks, verdict>>

Init == phase = "working" /\ busy = {} /\ acks = {} /\ verdict = "none"

Work(h) ==
  /\ phase = "working" /\ busy' = busy \cup {h}
  /\ UNCHANGED <<phase, acks, verdict>>

\* Repetitions end one by one, or all at once when their playbook is killed.
Release ==
  /\ busy' \in SUBSET busy
  /\ UNCHANGED <<phase, acks, verdict>>

BeginStop ==
  /\ phase = "working" /\ phase' = "stopping"
  /\ UNCHANGED <<busy, acks, verdict>>

\* An acknowledgement already on its way may arrive after the run has closed.
Acknowledge(h) ==
  /\ phase # "working" /\ acks' = acks \cup {h}
  /\ UNCHANGED <<phase, busy, verdict>>

Close ==
  /\ phase # "closed" /\ phase' = "closed" /\ busy = {}
  /\ \/ verdict' = "keep"
     \/ verdict' = "destroy" /\ (phase = "stopping" => acks = Hosts)
  /\ UNCHANGED <<busy, acks>>

Next ==
  \/ \E h \in Hosts : Work(h) \/ Acknowledge(h)
  \/ Release \/ BeginStop \/ Close

Spec == Init /\ [][Next]_vars
=============================================================================
