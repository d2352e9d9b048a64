-------------------------- MODULE RunSessionProofs --------------------------
(***************************************************************************)
(* The nodes of a run: a failed provisioning leaves none of its own but    *)
(* one that a launch made before it raised, and no node is destroyed under *)
(* a run that may be using it, proved for any number of nodes, of          *)
(* resumptions and of Ctrl-C, at any point.                                *)
(***************************************************************************)
EXTENDS RunSession, SequenceTheorems, TLAPS

Idling == Provisioning \cup {"prepare", "check", "enter"}

\* The nodes of this process that are known to it are those up to the one at
\* hand, and so are its key files.
NodesUpTo(k) == \A n \in Node : vm[n] = proc /\ n # half => n <= k
KeysUpTo(k) == \A n \in Node : keys[n] = proc => n <= k
OwnUpTo(k) == NodesUpTo(k) /\ KeysUpTo(k)

(***************************************************************************)
(* What the invariants need of the types: idx is a node from the first key *)
(* on, and no node is of a later process.                                  *)
(***************************************************************************)
NodeTypes ==
  /\ proc \in Process /\ idx \in 0 .. Nodes /\ half \in 0 .. Nodes
  /\ vm \in [Node -> 0 .. proc] /\ keys \in [Node -> 0 .. proc]
  /\ pc \in {"keygen", "launch", "fallback", "reach", "undo"} => idx \in Node

(***************************************************************************)
(* The invariant behind FailedProvisionRollsBack: while nodes are made or  *)
(* undone, those of this process, and its keys, are the ones idx has       *)
(* passed.  The node of a launch that raised is none of them.              *)
(***************************************************************************)
NodeInv ==
  /\ pc = "begin" => OwnUpTo(0)
  /\ pc = "keygen" => OwnUpTo(idx - 1)
  /\ pc \in {"launch", "fallback"} => NodesUpTo(idx - 1) /\ KeysUpTo(idx)
  /\ pc \in {"reach", "undo", "rollback"} => OwnUpTo(idx)
  /\ pc \in {"begin", "keygen", "launch", "reach"} => half = 0
  /\ pc = "fallback" => half = 0 \/ (half = idx /\ vm[idx] = proc)
  /\ unprovisioned => pc = "over" /\ OwnUpTo(0)

\* The invariant behind NotUnderRun: the worker is idle until the loop begins,
\* and a result is that of a worker that is done.
WorkerInv ==
  /\ pc \in Idling => worker = "idle" /\ result = "none"
  /\ result # "none" => worker = "done"

NodesInv == NodeTypes /\ NodeInv

-----------------------------------------------------------------------------
(* Nodes *)

LEMMA NodesInit == Init => NodesInv
BY NodesAssumption, BoundsAssumption
   DEF Init, NodesInv, NodeTypes, NodeInv, OwnUpTo, NodesUpTo, KeysUpTo, Node, Process, Nowhere

\* What a removal leaves.
LEMMA RemovedNodes ==
  ASSUME NEW k \in Nat, NEW f \in [Node -> 0 .. k], NEW n
  PROVE  /\ Removed(f, n) \in [Node -> 0 .. k]
         /\ \A m \in Node : Removed(f, n)[m] = f[m] \/ Removed(f, n)[m] = 0
         /\ n \in Node => Removed(f, n)[n] = 0
<1>1. 0 \in 0 .. k
  OBVIOUS
<1>2. Removed(f, n) \in [Node -> 0 .. k]
  BY <1>1 DEF Removed
<1>3. \A m \in Node : Removed(f, n)[m] = IF m = n THEN 0 ELSE f[m]
  BY DEF Removed
<1> QED
  BY <1>2, <1>3

\* NodeTypes of the next state, from that of what provisioning writes.
LEMMA NodeTypesNext ==
  ASSUME NodeTypes, proc' = proc, idx' \in 0 .. Nodes, half' \in 0 .. Nodes,
         vm' \in [Node -> 0 .. proc], keys' \in [Node -> 0 .. proc],
         pc' \in {"keygen", "launch", "fallback", "reach", "undo"} => idx' \in Node
  PROVE  NodeTypes'
BY DEF NodeTypes

\* A step that makes no node and is past provisioning, or ends it.
LEMMA NodesKept ==
  ASSUME NodesInv, proc' = proc, idx' = idx, half' = half,
         vm' = vm \/ (pc \notin Provisioning /\ \E n \in Node : vm' = Removed(vm, n)),
         keys' = keys \/ \E n \in Node : keys' = Removed(keys, n),
         unprovisioned' = unprovisioned,
         pc' = pc \/ (~unprovisioned /\ pc' \notin Provisioning)
  PROVE  NodesInv'
<1>0. /\ proc \in Nat \ {0} /\ Node \subseteq Nat
      /\ vm \in [Node -> 0 .. proc] /\ keys \in [Node -> 0 .. proc]
  BY BoundsAssumption, NodesAssumption DEF NodesInv, NodeTypes, Process, Node
<1>1. vm' \in [Node -> 0 .. proc] /\ \A n \in Node : vm'[n] = vm[n] \/ vm'[n] = 0
  <2>1. CASE vm' = vm
    BY <1>0, <2>1
  <2>2. ASSUME NEW n \in Node, vm' = Removed(vm, n)
        PROVE  vm' \in [Node -> 0 .. proc] /\ \A m \in Node : vm'[m] = vm[m] \/ vm'[m] = 0
    <3>1. proc \in Nat
      BY <1>0
    <3>2. /\ Removed(vm, n) \in [Node -> 0 .. proc]
          /\ \A m \in Node : Removed(vm, n)[m] = vm[m] \/ Removed(vm, n)[m] = 0
      BY <1>0, <3>1, RemovedNodes
    <3> QED
      BY <2>2, <3>2
  <2> QED
    BY <2>1, <2>2
<1>2. keys' \in [Node -> 0 .. proc] /\ \A n \in Node : keys'[n] = keys[n] \/ keys'[n] = 0
  <2>1. CASE keys' = keys
    BY <1>0, <2>1
  <2>2. ASSUME NEW n \in Node, keys' = Removed(keys, n)
        PROVE  keys' \in [Node -> 0 .. proc] /\ \A m \in Node : keys'[m] = keys[m] \/ keys'[m] = 0
    <3>1. proc \in Nat
      BY <1>0
    <3>2. /\ Removed(keys, n) \in [Node -> 0 .. proc]
          /\ \A m \in Node : Removed(keys, n)[m] = keys[m] \/ Removed(keys, n)[m] = 0
      BY <1>0, <3>1, RemovedNodes
    <3> QED
      BY <2>2, <3>2
  <2> QED
    BY <2>1, <2>2
<1>3. NodeTypes'
  BY <1>1, <1>2 DEF NodesInv, NodeTypes, Provisioning
<1>4. /\ NodesUpTo(0) => NodesUpTo(0)'
      /\ NodesUpTo(idx) => NodesUpTo(idx)'
      /\ NodesUpTo(idx - 1) => NodesUpTo(idx - 1)'
  BY <1>0, <1>1 DEF NodesUpTo
<1>5. /\ KeysUpTo(0) => KeysUpTo(0)'
      /\ KeysUpTo(idx) => KeysUpTo(idx)'
      /\ KeysUpTo(idx - 1) => KeysUpTo(idx - 1)'
  BY <1>0, <1>2 DEF KeysUpTo
<1>6. NodeInv'
  BY <1>4, <1>5 DEF NodesInv, NodeInv, OwnUpTo, Provisioning
<1> QED
  BY <1>3, <1>6 DEF NodesInv

\* What both launches do: they make the node at hand or none, and if they raise
\* the node is half made.
LEMMA LaunchKinds ==
  ASSUME NodesInv, NEW p \in {"fallback", "undo"}, pc \in {"launch", "fallback"}, Launch(p)
  PROVE  NodesInv'
<1>0. /\ proc \in Nat \ {0} /\ Node \subseteq Nat /\ Node = 1 .. Nodes /\ Nodes \in Nat
      /\ vm \in [Node -> 0 .. proc] /\ keys \in [Node -> 0 .. proc] /\ idx \in Node
  BY BoundsAssumption, NodesAssumption DEF NodesInv, NodeTypes, Process, Node
<1>1. NodesUpTo(idx - 1) /\ KeysUpTo(idx) /\ ~unprovisioned
  BY DEF NodesInv, NodeInv
<1>2. half = 0 \/ (half = idx /\ vm[idx] # 0)
  BY <1>0 DEF NodesInv, NodeInv
<1>3. UNCHANGED <<proc, keys, idx, unprovisioned>>
  BY DEF Launch, process
<1>4. CASE vm[idx] = 0 /\ vm' = [vm EXCEPT ![idx] = proc] /\ pc' = "reach" /\ half' = half
  <2>1. /\ vm' \in [Node -> 0 .. proc] /\ half' = 0
        /\ \A n \in Node : n # idx => vm'[n] = vm[n]
    BY <1>0, <1>2, <1>4
  <2>2. NodesUpTo(idx)'
    BY <1>0, <1>1, <1>2, <1>3, <1>4, <2>1 DEF NodesUpTo
  <2> QED
    BY <1>0, <1>1, <1>3, <1>4, <2>1, <2>2 DEF NodesInv, NodeTypes, NodeInv, OwnUpTo, KeysUpTo
<1>5. CASE vm[idx] = 0 /\ vm' = [vm EXCEPT ![idx] = proc] /\ pc' = p /\ half' = idx
  <2>1. /\ vm' \in [Node -> 0 .. proc] /\ vm'[idx] = proc
        /\ \A n \in Node : n # idx => vm'[n] = vm[n]
    BY <1>0, <1>5
  <2>2. NodesUpTo(idx)'
    BY <1>0, <1>1, <1>2, <1>3, <1>5, <2>1 DEF NodesUpTo
  <2>3. NodesUpTo(idx - 1)'
    BY <1>0, <1>1, <1>2, <1>3, <1>5, <2>1 DEF NodesUpTo
  <2> QED
    BY <1>0, <1>1, <1>3, <1>5, <2>1, <2>2, <2>3
       DEF NodesInv, NodeTypes, NodeInv, OwnUpTo, KeysUpTo
<1>6. CASE vm' = vm /\ pc' = p /\ half' = half
  <2>1. NodesUpTo(idx)' /\ NodesUpTo(idx - 1)'
    BY <1>0, <1>1, <1>3, <1>6 DEF NodesUpTo
  <2>2. half' = 0 \/ (half' = idx' /\ vm'[idx'] = proc')
    BY <1>3, <1>6 DEF NodesInv, NodeInv
  <2> QED
    BY <1>0, <1>1, <1>3, <1>6, <2>1, <2>2 DEF NodesInv, NodeTypes, NodeInv, OwnUpTo, KeysUpTo
<1> QED
  BY <1>4, <1>5, <1>6 DEF Launch, GoTo

\* What provisioning does, action by action.
LEMMA NodesProvision ==
  NodesInv /\ (Begin \/ Keygen \/ LaunchNode \/ Fallback \/ Reach \/ Undo \/ Rollback) => NodesInv'
<1> SUFFICES ASSUME NodesInv,
                    Begin \/ Keygen \/ LaunchNode \/ Fallback \/ Reach \/ Undo \/ Rollback
             PROVE  NodesInv'
  OBVIOUS
<1>0. /\ proc \in Nat \ {0} /\ Nodes \in Nat \ {0} /\ Node = 1 .. Nodes
      /\ vm \in [Node -> 0 .. proc] /\ keys \in [Node -> 0 .. proc]
      /\ idx \in 0 .. Nodes /\ half \in 0 .. Nodes
  BY NodesAssumption, BoundsAssumption DEF NodesInv, NodeTypes, Process, Node
<1>1. CASE Begin
  <2>1. /\ pc = "begin" /\ UNCHANGED <<proc, vm, keys, unprovisioned, half>>
        /\ \/ pc' \in {"over", "prepare"} /\ idx' = idx
           \/ pc' = "keygen" /\ idx' = 1
    BY <1>1 DEF Begin, GoTo, process, world, failure
  <2> QED
    BY <1>0, <2>1 DEF NodesInv, NodeTypes, NodeInv, OwnUpTo, NodesUpTo, KeysUpTo
<1>2. CASE Keygen
  <2>1. /\ pc = "keygen" /\ UNCHANGED <<proc, vm, unprovisioned, idx, half>>
        /\ \/ keys' = [keys EXCEPT ![idx] = proc] /\ pc' = "launch"
           \/ keys' = keys /\ pc' = "undo"
    BY <1>2 DEF Keygen, GoTo, process, failure
  <2>2. idx \in Node /\ NodesUpTo(idx - 1) /\ KeysUpTo(idx - 1) /\ ~unprovisioned /\ half = 0
    BY <2>1 DEF NodesInv, NodeTypes, NodeInv, OwnUpTo
  <2>3. keys' \in [Node -> 0 .. proc] /\ \A n \in Node : n # idx => keys'[n] = keys[n]
    BY <1>0, <2>1
  <2>4. KeysUpTo(idx)'
    BY <1>0, <2>1, <2>2, <2>3 DEF KeysUpTo
  <2>5. NodesUpTo(idx)' /\ NodesUpTo(idx - 1)'
    BY <1>0, <2>1, <2>2 DEF NodesUpTo
  <2> QED
    BY <1>0, <2>1, <2>2, <2>3, <2>4, <2>5 DEF NodesInv, NodeTypes, NodeInv, OwnUpTo
<1>3. CASE LaunchNode \/ Fallback
  BY <1>3, LaunchKinds DEF LaunchNode, Fallback
<1>4. CASE Reach
  <2>1. /\ pc = "reach" /\ UNCHANGED <<proc, keys, unprovisioned, half>>
        /\ \/ vm' = vm /\ pc' = "keygen" /\ idx < Nodes /\ idx' = idx + 1
           \/ vm' = vm /\ pc' \in {"prepare", "undo"} /\ idx' = idx
           \/ vm' = Removed(vm, idx) /\ pc' = "undo" /\ idx' = idx
    BY <1>4 DEF Reach, GoTo, Removed, process, failure
  <2>2. idx \in Node /\ NodesUpTo(idx) /\ KeysUpTo(idx) /\ ~unprovisioned /\ half = 0
    BY <2>1 DEF NodesInv, NodeTypes, NodeInv, OwnUpTo
  <2>3. vm' \in [Node -> 0 .. proc] /\ \A n \in Node : vm'[n] = vm[n] \/ vm'[n] = 0
    <3>1. CASE vm' = vm
      BY <1>0, <3>1
    <3>2. CASE vm' = Removed(vm, idx)
      <4>1. proc \in Nat
        BY <1>0
      <4>2. /\ Removed(vm, idx) \in [Node -> 0 .. proc]
            /\ \A n \in Node : Removed(vm, idx)[n] = vm[n] \/ Removed(vm, idx)[n] = 0
        BY <1>0, <4>1, RemovedNodes
      <4> QED
        BY <3>2, <4>2
    <3> QED
      BY <2>1, <3>1, <3>2
  <2>4. \A n \in Node : /\ vm'[n] = proc' /\ n # half' => n <= idx
                        /\ keys'[n] = proc' => n <= idx
    BY <1>0, <2>1, <2>2, <2>3 DEF NodesUpTo, KeysUpTo
  <2>5. idx' \in Node /\ (pc' = "keygen" => idx' - 1 = idx)
    BY <1>0, <2>1, <2>2
  <2>6. NodeTypes'
    BY <1>0, <2>1, <2>3, <2>5, NodeTypesNext DEF NodesInv
  <2>7. NodeInv'
    <3>1. ASSUME pc' = "keygen" PROVE NodesUpTo(idx - 1)' /\ KeysUpTo(idx - 1)'
      <4>1. idx' - 1 = idx
        BY <2>5, <3>1
      <4> QED
        BY <1>0, <2>4, <2>5, <4>1 DEF NodesUpTo, KeysUpTo
    <3>2. ASSUME pc' = "undo" PROVE NodesUpTo(idx)' /\ KeysUpTo(idx)'
      <4>1. idx' = idx
        BY <2>1, <3>2
      <4> QED
        BY <1>0, <2>4, <2>5, <4>1 DEF NodesUpTo, KeysUpTo
    <3> QED
      BY <2>1, <2>2, <3>1, <3>2 DEF NodeInv, OwnUpTo
  <2> QED
    BY <2>6, <2>7 DEF NodesInv
<1>5. CASE Undo
  <2>1. /\ pc = "undo" /\ pc' = "rollback" /\ idx' = idx - 1 /\ UNCHANGED <<proc, unprovisioned, half>>
        /\ keys' = Removed(keys, idx)
        /\ vm' = IF vm[idx] = proc /\ half # idx THEN Removed(vm, idx) ELSE vm
    BY <1>5 DEF Undo, GoTo, process, failure
  <2>2. idx \in Node /\ NodesUpTo(idx) /\ KeysUpTo(idx) /\ ~unprovisioned
    BY <2>1 DEF NodesInv, NodeTypes, NodeInv, OwnUpTo
  <2>3. /\ vm' \in [Node -> 0 .. proc] /\ \A n \in Node : vm'[n] = vm[n] \/ vm'[n] = 0
        /\ vm'[idx] # proc \/ half = idx
    <3>1. proc \in Nat /\ 0 # proc /\ vm \in [Node -> 0 .. proc] /\ idx \in Node
      BY <1>0, <2>2
    <3>2. /\ Removed(vm, idx) \in [Node -> 0 .. proc]
          /\ \A n \in Node : Removed(vm, idx)[n] = vm[n] \/ Removed(vm, idx)[n] = 0
          /\ Removed(vm, idx)[idx] = 0
      BY <3>1, RemovedNodes
    <3> QED
      BY <2>1, <3>1, <3>2
  <2>4. /\ keys' \in [Node -> 0 .. proc] /\ \A n \in Node : keys'[n] = keys[n] \/ keys'[n] = 0
        /\ keys'[idx] # proc
    <3>1. proc \in Nat /\ 0 # proc /\ keys \in [Node -> 0 .. proc] /\ idx \in Node
      BY <1>0, <2>2
    <3>2. /\ Removed(keys, idx) \in [Node -> 0 .. proc]
          /\ \A n \in Node : Removed(keys, idx)[n] = keys[n] \/ Removed(keys, idx)[n] = 0
          /\ Removed(keys, idx)[idx] = 0
      BY <3>1, RemovedNodes
    <3> QED
      BY <2>1, <3>1, <3>2
  <2>5. NodesUpTo(idx)'
    <3>1. idx' = idx - 1 /\ proc' = proc /\ half' = half /\ proc # 0
      BY <1>0, <2>1
    <3>2. SUFFICES ASSUME NEW n \in Node, vm'[n] = proc, n # half PROVE n <= idx - 1
      BY <3>1 DEF NodesUpTo
    <3>3. n # idx /\ vm[n] = proc
      BY <2>3, <3>1, <3>2
    <3>4. n <= idx
      BY <2>2, <3>2, <3>3 DEF NodesUpTo
    <3>5. n \in Nat /\ idx \in Nat
      BY <1>0, <3>2
    <3> QED
      BY <3>3, <3>4, <3>5
  <2>6. KeysUpTo(idx)'
    <3>1. idx' = idx - 1 /\ proc' = proc /\ proc # 0
      BY <1>0, <2>1
    <3>2. SUFFICES ASSUME NEW n \in Node, keys'[n] = proc PROVE n <= idx - 1
      BY <3>1 DEF KeysUpTo
    <3>3. n # idx /\ keys[n] = proc
      BY <2>4, <3>1, <3>2
    <3>4. n <= idx
      BY <2>2, <3>3 DEF KeysUpTo
    <3>5. n \in Nat /\ idx \in Nat
      BY <1>0, <3>2
    <3> QED
      BY <3>3, <3>4, <3>5
  <2> QED
    <3>0. idx' \in 0 .. Nodes /\ pc' = "rollback"
      BY <1>0, <2>1, <2>2
    <3>1. NodeTypes'
      BY <1>0, <2>1, <2>3, <2>4, <3>0, NodeTypesNext DEF NodesInv
    <3>2. NodeInv'
      BY <2>1, <2>2, <2>5, <2>6 DEF NodeInv, OwnUpTo
    <3> QED
      BY <3>1, <3>2 DEF NodesInv
<1>6. CASE Rollback /\ idx > 0
  <2>1. /\ pc = "rollback" /\ idx' = idx - 1 /\ UNCHANGED <<proc, pc, unprovisioned, half>>
        /\ vm' = Removed(vm, idx) /\ keys' = Removed(keys, idx)
    BY <1>6 DEF Rollback, process
  <2>2. idx \in Node /\ NodesUpTo(idx) /\ KeysUpTo(idx) /\ ~unprovisioned
    BY <1>0, <1>6, <2>1 DEF NodesInv, NodeInv, OwnUpTo
  <2>3. /\ vm' \in [Node -> 0 .. proc] /\ \A n \in Node : vm'[n] = vm[n] \/ vm'[n] = 0
        /\ vm'[idx] # proc
    <3>1. proc \in Nat /\ 0 # proc /\ vm \in [Node -> 0 .. proc] /\ idx \in Node
      BY <1>0, <2>2
    <3>2. /\ Removed(vm, idx) \in [Node -> 0 .. proc]
          /\ \A n \in Node : Removed(vm, idx)[n] = vm[n] \/ Removed(vm, idx)[n] = 0
          /\ Removed(vm, idx)[idx] = 0
      BY <3>1, RemovedNodes
    <3> QED
      BY <2>1, <3>1, <3>2
  <2>4. /\ keys' \in [Node -> 0 .. proc] /\ \A n \in Node : keys'[n] = keys[n] \/ keys'[n] = 0
        /\ keys'[idx] # proc
    <3>1. proc \in Nat /\ 0 # proc /\ keys \in [Node -> 0 .. proc] /\ idx \in Node
      BY <1>0, <2>2
    <3>2. /\ Removed(keys, idx) \in [Node -> 0 .. proc]
          /\ \A n \in Node : Removed(keys, idx)[n] = keys[n] \/ Removed(keys, idx)[n] = 0
          /\ Removed(keys, idx)[idx] = 0
      BY <3>1, RemovedNodes
    <3> QED
      BY <2>1, <3>1, <3>2
  <2>5. NodesUpTo(idx)'
    <3>1. idx' = idx - 1 /\ proc' = proc /\ half' = half /\ proc # 0
      BY <1>0, <2>1
    <3>2. SUFFICES ASSUME NEW n \in Node, vm'[n] = proc, n # half PROVE n <= idx - 1
      BY <3>1 DEF NodesUpTo
    <3>3. n # idx /\ vm[n] = proc
      BY <2>3, <3>1, <3>2
    <3>4. n <= idx
      BY <2>2, <3>2, <3>3 DEF NodesUpTo
    <3>5. n \in Nat /\ idx \in Nat
      BY <1>0, <3>2
    <3> QED
      BY <3>3, <3>4, <3>5
  <2>6. KeysUpTo(idx)'
    <3>1. idx' = idx - 1 /\ proc' = proc /\ proc # 0
      BY <1>0, <2>1
    <3>2. SUFFICES ASSUME NEW n \in Node, keys'[n] = proc PROVE n <= idx - 1
      BY <3>1 DEF KeysUpTo
    <3>3. n # idx /\ keys[n] = proc
      BY <2>4, <3>1, <3>2
    <3>4. n <= idx
      BY <2>2, <3>3 DEF KeysUpTo
    <3>5. n \in Nat /\ idx \in Nat
      BY <1>0, <3>2
    <3> QED
      BY <3>3, <3>4, <3>5
  <2> QED
    <3>0. idx' \in 0 .. Nodes /\ pc' = "rollback"
      BY <1>0, <2>1, <2>2
    <3>1. NodeTypes'
      BY <1>0, <2>1, <2>3, <2>4, <3>0, NodeTypesNext DEF NodesInv
    <3>2. NodeInv'
      BY <2>1, <2>2, <2>5, <2>6 DEF NodeInv, OwnUpTo
    <3> QED
      BY <3>1, <3>2 DEF NodesInv
<1>7. CASE Rollback /\ idx = 0
  <2>1. pc = "rollback" /\ pc' = "over" /\ UNCHANGED <<proc, vm, keys, idx, half>>
    BY <1>0, <1>7 DEF Rollback, GoTo, process
  <2>2. NodesUpTo(0) /\ KeysUpTo(0)
    BY <1>7, <2>1 DEF NodesInv, NodeInv, OwnUpTo
  <2>3. NodesUpTo(0)' /\ KeysUpTo(0)'
    BY <2>1, <2>2 DEF NodesUpTo, KeysUpTo
  <2> QED
    BY <1>0, <2>1, <2>3 DEF NodesInv, NodeTypes, NodeInv, OwnUpTo
<1> QED
  BY <1>0, <1>1, <1>2, <1>3, <1>4, <1>5, <1>6, <1>7 DEF Rollback

\* From the session on, nodes only go.
LEMMA NodesLoop ==
  NodesInv /\ (Prepare \/ Check \/ Enter \/ Drain \/ Wait \/ Leave \/ Complete \/ Close \/ Cleanup
                \/ Press \/ TimerFires \/ TimerResets \/ WorkerMoves \/ Worker \/ LoseNode
                \/ UNCHANGED vars)
    => NodesInv'
<1> DEFINE Kept == /\ UNCHANGED <<proc, idx, unprovisioned, half>>
                   /\ vm' = vm \/ (pc \notin Provisioning /\ \E n \in Node : vm' = Removed(vm, n))
                   /\ keys' = keys \/ \E n \in Node : keys' = Removed(keys, n)
                   /\ pc' = pc \/ (pc # "over" /\ pc' \notin Provisioning)
<1>1. Prepare \/ Check \/ Enter \/ Drain \/ Wait \/ Leave => Kept
  BY DEF Prepare, Check, Enter, Drain, Wait, Leave, GoTo, Provisioning, world, process, failure
<1>2. Complete \/ Close \/ Cleanup => Kept
  BY DEF Complete, Close, Cleanup, GoTo, Provisioning, world, process, failure
<1>3. Press => Kept
  <2> SUFFICES ASSUME Press PROVE Kept
    OBVIOUS
  <2>1. /\ pc # "over" /\ UNCHANGED <<proc, idx, unprovisioned, half, vm, keys>>
        /\ pc' = pc \/ pc' = Interrupted
    BY DEF Press, GoTo, world, process, failure
  <2> QED
    BY <2>1 DEF Interrupted, Provisioning
<1>4. TimerFires \/ TimerResets \/ WorkerMoves \/ Worker \/ UNCHANGED vars => Kept
  BY DEF TimerFires, TimerResets, WorkerMoves, Worker, WorkerReturns, WorkerFinalizes, WorkerFails,
         vars, world, process, main, failure
<1>5. LoseNode => Kept
  BY DEF LoseNode, process, main, failure, Provisioning
<1>6. NodesInv /\ Kept => NodesInv'
  <2>1. NodesInv => ~unprovisioned \/ pc = "over"
    BY DEF NodesInv, NodeInv
  <2> QED
    BY <2>1, NodesKept
<1> QED
  BY <1>1, <1>2, <1>3, <1>4, <1>5, <1>6

\* The nodes of the process before are not those of the next.
LEMMA NodesResume == NodesInv /\ Resume => NodesInv'
<1> SUFFICES ASSUME NodesInv, Resume PROVE NodesInv'
  OBVIOUS
<1>1. /\ proc < Processes /\ proc' = proc + 1 /\ vm' = vm /\ keys' = keys
      /\ pc' = "begin" /\ idx' = 0 /\ unprovisioned' = FALSE /\ half' = 0
  BY DEF Resume, world
<1>2. /\ proc \in Nat \ {0} /\ proc' \in Process /\ Nodes \in Nat
      /\ vm \in [Node -> 0 .. proc] /\ keys \in [Node -> 0 .. proc]
  BY <1>1, NodesAssumption, BoundsAssumption DEF NodesInv, NodeTypes, Process
<1>3. /\ vm' \in [Node -> 0 .. proc'] /\ \A n \in Node : vm'[n] # proc'
  BY <1>1, <1>2
<1>4. /\ keys' \in [Node -> 0 .. proc'] /\ \A n \in Node : keys'[n] # proc'
  BY <1>1, <1>2
<1> QED
  BY <1>1, <1>2, <1>3, <1>4 DEF NodesInv, NodeTypes, NodeInv, OwnUpTo, NodesUpTo, KeysUpTo

LEMMA NodesStep == NodesInv /\ [Next]_vars => NodesInv'
BY NodesProvision, NodesLoop, NodesResume DEF Next, Main, Finished

LEMMA NodesAlways == Spec => []NodesInv
BY NodesInit, NodesStep, PTL DEF Spec

\* A provisioner that raised has left no key files of its own and no node but one
\* that a launch made and raised, wherever it failed (docker.py, multipass.py).
THEOREM FailureRollsBack == Spec => []FailedProvisionRollsBack
<1>1. NodesInv => FailedProvisionRollsBack
  BY NodesAssumption
     DEF NodesInv, NodeInv, OwnUpTo, NodesUpTo, KeysUpTo, FailedProvisionRollsBack, Node
<1> QED
  BY <1>1, NodesAlways, PTL

-----------------------------------------------------------------------------
(* The worker thread *)

LEMMA WorkerInit == Init => WorkerInv
BY DEF Init, WorkerInv

LEMMA WorkerStep == WorkerInv /\ [Next]_vars => WorkerInv'
<1> SUFFICES ASSUME WorkerInv, [Next]_vars PROVE WorkerInv'
  OBVIOUS
<1> USE DEF WorkerInv, Idling, Provisioning
<1>1. CASE Begin \/ Keygen \/ LaunchNode \/ Fallback \/ Reach \/ Undo \/ Rollback
  BY <1>1 DEF Begin, Keygen, LaunchNode, Fallback, Launch, Reach, Undo, Rollback, GoTo, controller
<1>2. CASE Prepare \/ Check \/ Enter
  BY <1>2 DEF Prepare, Check, Enter, GoTo, controller
<1>3. CASE Drain \/ Wait \/ Leave
  BY <1>3 DEF Drain, Wait, Leave, GoTo, controller
<1>4. CASE Complete \/ Close \/ Cleanup
  BY <1>4 DEF Complete, Close, Cleanup, GoTo, controller
<1>5. CASE Press
  BY <1>5 DEF Press, Interrupted, Handled, GoTo, controller
<1>6. CASE TimerFires \/ TimerResets
  BY <1>6 DEF TimerFires, TimerResets, main, controller
<1>7. CASE WorkerMoves \/ Worker
  BY <1>7 DEF WorkerMoves, Worker, WorkerReturns, WorkerFinalizes, WorkerFails, main
<1>8. CASE LoseNode
  BY <1>8 DEF LoseNode, main, controller
<1>9. CASE Resume
  BY <1>9 DEF Resume
<1>10. CASE UNCHANGED vars
  BY <1>10 DEF vars, main, controller
<1> QED
  BY <1>1, <1>2, <1>3, <1>4, <1>5, <1>6, <1>7, <1>8, <1>9, <1>10 DEF Next, Main, Finished

\* Until a process is over, its nodes go while none is used.
LEMMA GoUnused ==
  NodesInv /\ WorkerInv /\ [Next]_vars
    => [\A n \in Node : vm[n] = proc /\ vm'[n] = 0 /\ pc # "over"
          => worker \in {"idle", "done"}]_vars
<1> SUFFICES ASSUME NodesInv, WorkerInv, [Next]_vars,
                    NEW n \in Node, vm[n] = proc, vm'[n] = 0, pc # "over"
             PROVE  worker \in {"idle", "done"}
  OBVIOUS
<1>1. vm' # vm
  BY BoundsAssumption DEF NodesInv, NodeTypes, Process
<1>2. CASE pc \in Provisioning
  BY <1>2 DEF WorkerInv, Idling
<1>3. CASE Cleanup
  BY <1>1, <1>3 DEF Cleanup, WorkerInv
<1>4. CASE pc \notin Provisioning /\ ~Cleanup
  <2>1. ~(Begin \/ Keygen \/ LaunchNode \/ Fallback \/ Reach \/ Undo \/ Rollback)
    BY <1>4 DEF Begin, Keygen, LaunchNode, Fallback, Launch, Reach, Undo, Rollback, Provisioning
  <2>2. ~(Prepare \/ Check \/ Enter \/ Drain \/ Wait \/ Leave \/ Complete \/ Close)
    BY <1>1 DEF Prepare, Check, Enter, Drain, Wait, Leave, Complete, Close, world
  <2>3. ~(Press \/ TimerFires \/ TimerResets \/ WorkerMoves \/ Worker)
    BY <1>1 DEF Press, TimerFires, TimerResets, WorkerMoves, Worker, WorkerReturns,
                WorkerFinalizes, WorkerFails, world
  <2>4. ~(LoseNode \/ Resume \/ UNCHANGED vars)
    BY <1>1 DEF LoseNode, Resume, vars, world
  <2> QED
    BY <1>4, <2>1, <2>2, <2>3, <2>4 DEF Next, Main, Finished
<1> QED
  BY <1>2, <1>3, <1>4

\* No node of a process is destroyed while its run may be using it.
THEOREM NoNodeUnderRun == Spec => NotUnderRun
<1>1. Spec => []WorkerInv
  BY WorkerInit, WorkerStep, PTL DEF Spec
<1> QED
  BY <1>1, NodesAlways, GoUnused, PTL DEF Spec, NotUnderRun

-----------------------------------------------------------------------------
(* Types *)

\* What the types need besides: nodes are made in the modes that provision, and
\* what is queued was pressed.
TypeInv ==
  /\ TypeOK
  /\ pc \in {"keygen", "launch", "fallback", "reach", "undo", "rollback"} => mode # "remote"
  /\ Len(queue) <= presses

\* The targets of a move are states.
LEMMA MovesToStates == \A s \in States, t \in States : Moved(s, t) \in States
BY DEF Moved

LEMMA TypesInit == Init => TypeInv
<1> SUFFICES ASSUME Init PROVE TypeInv
  OBVIOUS
<1>1. queue \in Seq({"warn", "stop"}) /\ Len(queue) = 0 /\ presses = 0
  BY DEF Init
<1>2. WorldTypes
  BY DEF Init, WorldTypes, Maybe, Nowhere
<1>3. MainTypes
  <2>1. proc \in Process /\ idx \in 0 .. Nodes
    BY NodesAssumption, BoundsAssumption DEF Init, Process
  <2> QED
    BY <2>1 DEF Init, MainTypes, Maybe, Points, Provisioning, Verdict
<1>4. CtrlCTypes
  <2>1. presses \in 0 .. Presses /\ Len(queue) <= Presses
    BY <1>1, BoundsAssumption
  <2> QED
    BY <1>1, <2>1 DEF Init, CtrlCTypes
<1>5. ControllerTypes
  BY DEF Init, ControllerTypes, States, Verdict
<1>6. pc = "begin"
  BY DEF Init
<1> QED
  BY <1>1, <1>2, <1>3, <1>4, <1>5, <1>6 DEF TypeInv, TypeOK

\* Provisioning writes the world and the main thread's place.
LEMMA TypesProvision ==
  TypeInv /\ NodesInv /\ NodesInv' /\ (Begin \/ Keygen \/ LaunchNode \/ Fallback \/ Reach \/ Undo \/ Rollback)
    => TypeInv'
<1> SUFFICES ASSUME TypeInv, NodesInv, NodesInv',
                    Begin \/ Keygen \/ LaunchNode \/ Fallback \/ Reach \/ Undo \/ Rollback
             PROVE  TypeInv'
  OBVIOUS
<1>1. UNCHANGED <<mode, proc, dump, pending, hosts, result, sm, queue, presses, timer, clearing,
                  state, token, worker, summary>>
  BY DEF Begin, Keygen, LaunchNode, Fallback, Launch, Reach, Undo, Rollback, process, world, ctrlc, controller
<1>2. CtrlCTypes' /\ ControllerTypes' /\ Len(queue') <= presses'
  BY <1>1 DEF TypeInv, TypeOK, CtrlCTypes, ControllerTypes
<1>3. /\ pc' \in Points /\ unprovisioned' \in BOOLEAN
      /\ idx' \in 0 .. Nodes /\ half' \in 0 .. Nodes
  BY DEF Begin, Keygen, LaunchNode, Fallback, Launch, Reach, Undo, Rollback, GoTo, Points, Provisioning, NodesInv,
         NodeTypes, TypeInv, TypeOK, MainTypes, failure
<1>4. MainTypes'
  BY <1>1, <1>3 DEF TypeInv, TypeOK, MainTypes
<1>5. pc' \in {"keygen", "launch", "fallback", "reach", "undo", "rollback"} => mode' # "remote"
  BY <1>1 DEF TypeInv, Begin, Keygen, LaunchNode, Fallback, Launch, Reach, Undo, Rollback, GoTo
<1>6. ASSUME Begin PROVE WorldTypes'
  BY <1>1, <1>6 DEF Begin, world, TypeInv, TypeOK, WorldTypes
<1>7. ASSUME ~Begin PROVE WorldTypes'
  <2>1. mode # "remote" /\ mode' # "remote"
    BY <1>1, <1>7 DEF TypeInv, Keygen, LaunchNode, Fallback, Reach, Undo, Rollback
  <2>0. proc \in Maybe /\ 0 \in Maybe
    BY DEF Maybe, TypeInv, TypeOK, MainTypes
  <2>2. /\ vm' = vm \/ \E n \in Maybe : vm' = [vm EXCEPT ![idx] = n]
        /\ keys' = keys \/ \E n \in Maybe : keys' = [keys EXCEPT ![idx] = n]
        /\ \/ injected' = injected \/ injected' = [injected EXCEPT ![idx] = 0]
           \/ injected' = [injected EXCEPT ![idx] = keys[idx]] /\ idx \in Node
    <3>1. CASE Keygen \/ LaunchNode \/ Fallback
      BY <2>0, <3>1 DEF Keygen, LaunchNode, Fallback, Launch
    <3>2. CASE Reach
      BY <2>0, <3>2 DEF Reach, NodesInv, NodeTypes
    <3>3. CASE Undo \/ Rollback
      BY <2>0, <3>3 DEF Undo, Rollback, Removed
    <3> QED
      BY <1>7, <3>1, <3>2, <3>3
  <2>3. vm' \in [Node -> Maybe] /\ keys' \in [Node -> Maybe]
    BY <2>2 DEF TypeInv, TypeOK, WorldTypes
  <2>4. injected' \in [Node -> Maybe]
    BY <2>2 DEF TypeInv, TypeOK, WorldTypes, Maybe
  <2> QED
    BY <1>1, <2>1, <2>3, <2>4 DEF TypeInv, TypeOK, WorldTypes
<1> QED
  BY <1>2, <1>4, <1>5, <1>6, <1>7 DEF TypeInv, TypeOK

\* Of the world, the session writes its journal and removes nodes.
LEMMA WorldKept ==
  ASSUME TypeInv, mode' = mode, injected' = injected, dump' \in Maybe, pending' \in BOOLEAN,
         \/ UNCHANGED <<vm, keys>>
         \/ \E n \in Node : vm' = Removed(vm, n) /\ keys' \in {keys, Removed(keys, n)}
  PROVE  WorldTypes'
<1>1. /\ vm' \in [Node -> Maybe] /\ keys' \in [Node -> Maybe]
      /\ \A n \in Node : vm'[n] \in {vm[n], 0} /\ keys'[n] \in {keys[n], 0}
  BY DEF TypeInv, TypeOK, WorldTypes, Removed, Maybe
<1> QED
  BY <1>1 DEF TypeInv, TypeOK, WorldTypes

LEMMA TypesSession ==
  TypeInv /\ (Prepare \/ Check \/ Enter \/ Drain \/ Wait \/ Leave \/ Complete \/ Close \/ Cleanup)
    => TypeInv'
<1> SUFFICES ASSUME TypeInv,
                    Prepare \/ Check \/ Enter \/ Drain \/ Wait \/ Leave \/ Complete \/ Close \/ Cleanup
             PROVE  TypeInv'
  OBVIOUS
<1>1. /\ UNCHANGED <<mode, proc, idx, unprovisioned, half, injected, presses, clearing, summary>>
      /\ \/ UNCHANGED <<vm, keys>>
         \/ \E n \in Node : vm' = Removed(vm, n) /\ keys' \in {keys, Removed(keys, n)}
  BY DEF Prepare, Check, Enter, Drain, Wait, Leave, Complete, Close, Cleanup, process, world, ctrlc,
         controller, failure
<1>2. dump' \in Maybe /\ pending' \in BOOLEAN /\ hosts' \in Maybe /\ result' \in Verdict
  BY DEF Prepare, Check, Enter, Drain, Wait, Leave, Complete, Close, Cleanup, process, world, ctrlc,
         controller, TypeInv, TypeOK, WorldTypes, MainTypes, ControllerTypes, Maybe
<1>3. pc' \in Points /\ pc' \notin Provisioning
  BY DEF Prepare, Check, Enter, Drain, Wait, Leave, Complete, Close, Cleanup, GoTo, Points, Handled,
         Provisioning
<1>4. WorldTypes'
  BY <1>1, <1>2, WorldKept
<1>5. MainTypes'
  BY <1>1, <1>2, <1>3 DEF TypeInv, TypeOK, MainTypes
<1>6. queue' = queue \/ (queue # <<>> /\ queue' = Tail(queue))
  BY DEF Prepare, Check, Enter, Drain, Wait, Leave, Complete, Close, Cleanup, ctrlc
<1>7. queue' \in Seq({"warn", "stop"}) /\ Len(queue') <= Len(queue) /\ Len(queue) \in Nat
  BY <1>6, HeadTailProperties, LenProperties DEF TypeInv, TypeOK, CtrlCTypes
<1>8. sm' \in {sm, "finished"} /\ timer' \in BOOLEAN
  BY DEF Prepare, Check, Enter, Drain, Wait, Leave, Complete, Close, Cleanup, ctrlc, TypeInv, TypeOK,
         CtrlCTypes
<1>9. CtrlCTypes' /\ Len(queue') <= presses'
  BY <1>1, <1>7, <1>8, BoundsAssumption DEF TypeInv, TypeOK, CtrlCTypes
<1>10. /\ state' = state \/ state' = Armed(state)
       /\ token' \in {token, TRUE} /\ worker' \in {worker, "running"}
  BY DEF Prepare, Check, Enter, Drain, Wait, Leave, Complete, Close, Cleanup, controller
<1>11. state' \in States
  BY <1>10, MovesToStates DEF Armed, States, TypeInv, TypeOK, ControllerTypes
<1>12. ControllerTypes'
  BY <1>1, <1>10, <1>11 DEF TypeInv, TypeOK, ControllerTypes
<1> QED
  BY <1>3, <1>4, <1>5, <1>9, <1>12 DEF TypeInv, TypeOK, Provisioning

LEMMA TypesPress == TypeInv /\ (Press \/ TimerFires \/ TimerResets) => TypeInv'
<1> SUFFICES ASSUME TypeInv, Press \/ TimerFires \/ TimerResets PROVE TypeInv'
  OBVIOUS
<1>1. UNCHANGED <<mode, proc, vm, keys, injected, dump, pending, idx, hosts, unprovisioned, half, state,
                  token, worker, summary>>
  BY DEF Press, TimerFires, TimerResets, process, world, main, controller, failure
<1>2. WorldTypes' /\ ControllerTypes'
  BY <1>1 DEF TypeInv, TypeOK, WorldTypes, ControllerTypes
<1>3. /\ result' \in {result, "none"}
      /\ pc' = pc \/ pc' \in {"over", "cleanup", "leave", "close"}
  BY DEF Press, TimerFires, TimerResets, main, GoTo, Interrupted
<1>4. MainTypes'
  BY <1>1, <1>3 DEF TypeInv, TypeOK, MainTypes, Verdict, Points, Handled
<1>5. pc' \in {"keygen", "launch", "fallback", "reach", "undo", "rollback"} => mode' # "remote"
  BY <1>1, <1>3 DEF TypeInv
<1>6. CASE Press
  <2>1. /\ presses < Presses /\ presses' = presses + 1 /\ UNCHANGED <<timer, clearing>>
        /\ sm' \in {sm, "stop_armed", "stopping"}
        /\ queue' = queue \/ \E e \in {"warn", "stop"} : queue' = Append(queue, e)
    BY <1>6 DEF Press, OnSigint
  <2>2. queue' \in Seq({"warn", "stop"}) /\ Len(queue') <= Len(queue) + 1 /\ Len(queue) \in Nat
    BY <2>1, AppendProperties, LenProperties DEF TypeInv, TypeOK, CtrlCTypes
  <2>3. CtrlCTypes' /\ Len(queue') <= presses'
    BY <2>1, <2>2, BoundsAssumption DEF TypeInv, TypeOK, CtrlCTypes
  <2> QED
    BY <1>2, <1>4, <1>5, <2>3 DEF TypeInv, TypeOK
<1>7. CASE TimerFires \/ TimerResets
  <2>1. /\ UNCHANGED <<queue, presses>> /\ sm' \in {sm, "running"}
        /\ timer' \in {timer, FALSE} /\ clearing' \in BOOLEAN
    BY <1>7 DEF TimerFires, TimerResets
  <2>2. CtrlCTypes' /\ Len(queue') <= presses'
    BY <2>1 DEF TypeInv, TypeOK, CtrlCTypes
  <2> QED
    BY <1>2, <1>4, <1>5, <2>2 DEF TypeInv, TypeOK
<1> QED
  BY <1>6, <1>7

LEMMA TypesWorker == TypeInv /\ (WorkerMoves \/ Worker) => TypeInv'
<1> SUFFICES ASSUME TypeInv, WorkerMoves \/ Worker PROVE TypeInv'
  OBVIOUS
<1>1. UNCHANGED <<mode, proc, vm, keys, injected, dump, pc, idx, hosts, result, unprovisioned, half, sm,
                  queue, presses, timer, clearing, token>>
  BY DEF WorkerMoves, Worker, WorkerReturns, WorkerFinalizes, WorkerFails, process, world, main, failure,
         ctrlc
<1>2. /\ state' \in Seen \cup {state, "aborted", "failed", "finished"} /\ pending' \in BOOLEAN
      /\ summary' \in {summary, "destroy", "keep"} /\ worker' \in {worker, "returned", "done", "raised"}
  BY DEF WorkerMoves, Worker, WorkerReturns, WorkerFinalizes, WorkerFails, Verdicted, world, TypeInv,
         TypeOK, WorldTypes
<1>3. state' \in States
  BY <1>2 DEF TypeInv, TypeOK, ControllerTypes, States, Seen
<1> QED
  BY <1>1, <1>2, <1>3
     DEF TypeInv, TypeOK, WorldTypes, MainTypes, CtrlCTypes, ControllerTypes, Verdict

LEMMA TypesResume == TypeInv /\ (LoseNode \/ Resume) => TypeInv'
<1> SUFFICES ASSUME TypeInv, LoseNode \/ Resume PROVE TypeInv'
  OBVIOUS
<1>1. CASE LoseNode
  <2>1. /\ UNCHANGED <<mode, proc, keys, injected, dump, pending, pc, idx, hosts, result,
                       unprovisioned, half, sm, queue, presses, timer, clearing, state, token, worker,
                       summary>>
        /\ \E n \in Node : vm' = Removed(vm, n)
    BY <1>1 DEF LoseNode, process, main, failure, ctrlc, controller
  <2>2. WorldTypes'
    BY <2>1, WorldKept DEF TypeInv, TypeOK, WorldTypes
  <2> QED
    BY <2>1, <2>2 DEF TypeInv, TypeOK, MainTypes, CtrlCTypes, ControllerTypes
<1>2. CASE Resume
  <2>1. /\ proc < Processes /\ proc' = proc + 1
        /\ UNCHANGED <<mode, vm, keys, injected, dump, pending>>
        /\ pc' = "begin" /\ idx' = 0 /\ hosts' = 0 /\ result' = "none" /\ unprovisioned' = FALSE /\ half' = 0
        /\ sm' = "running" /\ queue' = <<>> /\ presses' = 0 /\ timer' = FALSE /\ clearing' = FALSE
        /\ state' = "init" /\ token' = FALSE /\ worker' = "idle" /\ summary' = "none"
    BY <1>2 DEF Resume, world
  <2>2. WorldTypes'
    BY <2>1 DEF TypeInv, TypeOK, WorldTypes
  <2>3. MainTypes'
    <3>1. proc' \in Process
      BY <2>1, BoundsAssumption DEF TypeInv, TypeOK, MainTypes, Process
    <3>2. mode' \in Modes /\ idx' \in 0 .. Nodes /\ half' \in 0 .. Nodes
      BY <2>1, NodesAssumption DEF TypeInv, TypeOK, MainTypes
    <3> QED
      BY <2>1, <3>1, <3>2 DEF MainTypes, Points, Provisioning, Maybe, Verdict
  <2>4. queue' \in Seq({"warn", "stop"}) /\ Len(queue') = 0
    BY <2>1
  <2>5. CtrlCTypes' /\ Len(queue') <= presses'
    <3>1. presses' \in 0 .. Presses /\ Len(queue') <= Presses /\ Len(queue') <= presses'
      BY <2>1, <2>4, BoundsAssumption
    <3> QED
      BY <2>1, <2>4, <3>1 DEF CtrlCTypes
  <2>6. ControllerTypes'
    BY <2>1 DEF ControllerTypes, States, Verdict
  <2> QED
    BY <2>1, <2>2, <2>3, <2>5, <2>6 DEF TypeInv, TypeOK
<1> QED
  BY <1>1, <1>2

LEMMA TypesStep == TypeInv /\ NodesInv /\ NodesInv' /\ [Next]_vars => TypeInv'
<1> SUFFICES ASSUME TypeInv, NodesInv, NodesInv', [Next]_vars PROVE TypeInv'
  OBVIOUS
<1>1. CASE UNCHANGED vars
  BY <1>1 DEF vars, process, world, main, failure, ctrlc, controller, TypeInv, TypeOK, WorldTypes, MainTypes,
              CtrlCTypes, ControllerTypes
<1> QED
  BY <1>1, TypesProvision, TypesSession, TypesPress, TypesWorker, TypesResume DEF Next, Main, Finished

\* Type correctness, for any nodes, resumptions and Ctrl-C.
THEOREM Typing == Spec => []TypeOK
<1>1. Spec => []TypeInv
  BY TypesInit, TypesStep, NodesAlways, PTL DEF Spec
<1> QED
  BY <1>1, PTL DEF TypeInv
=============================================================================
