--------------------------- MODULE FaasSweepProofs ---------------------------
(***************************************************************************)
(* What a sweep indexes is measured, and a sweep of dfaas that is called a *)
(* success is complete, proved for any functions, rates, iterations and    *)
(* repetitions, and for processes that die and are resumed at any point.   *)
(* First, that there is a plan: the configurations are finitely many, and  *)
(* Before puts them in line.                                               *)
(***************************************************************************)
EXTENDS FaasSweep, FiniteSetTheorems, SequenceTheorems, NaturalsInduction, WellFoundedInduction,
        TLAPS

-----------------------------------------------------------------------------
(* The plan *)

\* Every nonempty set of numbers has a smallest one.
LEMMA Smallest == ASSUME NEW S \in SUBSET Nat, S # {} PROVE \E m \in S : \A k \in S : m <= k
<1> DEFINE Less == OpToRel(<, Nat)
<1>1. \A i, j \in Nat : <<i, j>> \in Less <=> i < j
  BY DEF OpToRel
<1>2. IsWellFoundedOn(Less, Nat)
  BY NatLessThanWellFounded
<1> HIDE DEF Less
<1>3. PICK m \in S : \A k \in S : ~(<<k, m>> \in Less)
  BY <1>2, WFMin
<1>4. ASSUME NEW k \in S PROVE m <= k
  <2>1. ~(k < m)
    BY <1>1, <1>3
  <2> QED BY <2>1
<1> QED BY <1>4

\* The first difference is what it is called, and nothing else is.
LEMMA FirstIsFirst ==
  ASSUME NEW differ \in SUBSET Nat, differ # {}
  PROVE  /\ FirstDifference(differ) \in differ
         /\ \A g \in differ : FirstDifference(differ) <= g
BY Smallest DEF FirstDifference

\* A member that none precedes is the first difference.
LEMMA OnlyFirst ==
  ASSUME NEW differ \in SUBSET Nat, NEW f \in differ, \A g \in differ : f <= g
  PROVE  FirstDifference(differ) = f
<1>1. FirstDifference(differ) \in differ /\ FirstDifference(differ) <= f
  BY FirstIsFirst
<1>2. f <= FirstDifference(differ) /\ FirstDifference(differ) \in Nat /\ f \in Nat
  BY <1>1
<1> QED BY <1>1, <1>2

\* A configuration is a function from some of the names to rates.
LEMMA Shape ==
  ASSUME NEW c \in Configurations
  PROVE  /\ DOMAIN c \in SUBSET Functions /\ DOMAIN c \in SUBSET Nat
         /\ c \in [DOMAIN c -> Rates] /\ \A f \in DOMAIN c : c[f] \in Nat
         /\ Cardinality(DOMAIN c) \in Nat
<1>1. PICK names \in Combinations : c \in [names -> Rates]
  BY DEF Configurations
<1>2. DOMAIN c = names /\ names \in SUBSET Functions
  BY <1>1 DEF Combinations
<1>3. Cardinality(DOMAIN c) \in Nat
  BY <1>2, SweepAssumption, FS_Subset, FS_CardinalityType
<1> QED BY <1>1, <1>2, <1>3, SweepAssumption

\* The functions whose rates differ.
Differing(c, d) == {f \in DOMAIN c : c[f] # d[f]}

\* Configurations of the same functions that are not the same differ in a rate.
LEMMA SomeRateDiffers ==
  ASSUME NEW c \in Configurations, NEW d \in Configurations, DOMAIN c = DOMAIN d, c # d
  PROVE  Differing(c, d) # {}
<1>1. c \in [DOMAIN c -> Rates] /\ d \in [DOMAIN c -> Rates]
  BY Shape
<1> QED BY <1>1 DEF Differing

\* Before without FirstDifference: by the first rate that differs, ...
LEMMA BeforeByRate ==
  ASSUME NEW c \in Configurations, NEW d \in Configurations, DOMAIN c = DOMAIN d
  PROVE  Before(c, d) <=> \E f \in DOMAIN c : c[f] < d[f] /\ \A g \in DOMAIN c : g < f => c[g] = d[g]
<1> DEFINE differ == Differing(c, d)
           first == FirstDifference(differ)
<1>1. differ \in SUBSET Nat /\ \A g \in DOMAIN c : c[g] \in Nat /\ d[g] \in Nat /\ g \in Nat
  BY Shape DEF Differing
<1>2. Before(c, d) <=> differ # {} /\ c[first] < d[first]
  BY DEF Before, Differing
<1>3. ASSUME Before(c, d)
      PROVE  \E f \in DOMAIN c : c[f] < d[f] /\ \A g \in DOMAIN c : g < f => c[g] = d[g]
  <2>1. first \in differ /\ \A g \in differ : first <= g
    BY <1>1, <1>2, <1>3, FirstIsFirst
  <2>2. ASSUME NEW g \in DOMAIN c, g < first PROVE c[g] = d[g]
    <3>1. first \in Nat /\ g \in Nat
      BY <1>1, <2>1
    <3>2. ~(first <= g)
      BY <2>2, <3>1
    <3>3. g \notin differ
      BY <2>1, <3>2
    <3> QED BY <3>3 DEF Differing
  <2>3. first \in DOMAIN c
    BY <2>1 DEF Differing
  <2> QED BY <1>2, <1>3, <2>2, <2>3
<1>4. ASSUME NEW f \in DOMAIN c, c[f] < d[f], \A g \in DOMAIN c : g < f => c[g] = d[g]
      PROVE  Before(c, d)
  <2>1. f \in differ
    BY <1>1, <1>4 DEF Differing
  <2>2. \A g \in differ : f <= g
    BY <1>1, <1>4 DEF Differing
  <2>3. first = f
    BY <1>1, <2>1, <2>2, OnlyFirst
  <2> QED BY <1>2, <1>4, <2>1, <2>3
<1> QED BY <1>3, <1>4

\* ... by the first name that only one of them has, ...
LEMMA BeforeByName ==
  ASSUME NEW c \in Configurations, NEW d \in Configurations, DOMAIN c # DOMAIN d,
         Cardinality(DOMAIN c) = Cardinality(DOMAIN d)
  PROVE  Before(c, d) <=> \E f \in DOMAIN c \ DOMAIN d :
                            \A g \in Nat : g < f => (g \in DOMAIN c <=> g \in DOMAIN d)
<1> DEFINE differ == SymDiff(DOMAIN c, DOMAIN d)
           first == FirstDifference(differ)
<1>1. DOMAIN c \in SUBSET Nat /\ DOMAIN d \in SUBSET Nat /\ differ \in SUBSET Nat /\ differ # {}
  BY Shape DEF SymDiff
<1>2. Before(c, d) <=> first \in DOMAIN c
  BY Shape DEF Before
<1>3. \A f : f \in differ <=> (f \in DOMAIN c \ DOMAIN d \/ f \in DOMAIN d \ DOMAIN c)
  BY DEF SymDiff
<1>4. first \in differ /\ \A g \in differ : first <= g
  BY <1>1, FirstIsFirst
<1>5. ASSUME first \in DOMAIN c
      PROVE  \E f \in DOMAIN c \ DOMAIN d : \A g \in Nat : g < f => (g \in DOMAIN c <=> g \in DOMAIN d)
  <2>1. first \in DOMAIN c \ DOMAIN d
    BY <1>3, <1>4, <1>5
  <2>2. \A g \in Nat : g < first => g \notin differ
    BY <1>1, <1>4
  <2> QED BY <1>3, <2>1, <2>2
<1>6. ASSUME NEW f \in DOMAIN c \ DOMAIN d,
             \A g \in Nat : g < f => (g \in DOMAIN c <=> g \in DOMAIN d)
      PROVE  first \in DOMAIN c
  <2>1. f \in differ /\ \A g \in differ : f <= g
    BY <1>1, <1>3, <1>6
  <2> QED BY <1>1, <2>1, OnlyFirst
<1> QED BY <1>2, <1>5, <1>6

\* ... and by the number of functions.
LEMMA BeforeOther ==
  ASSUME NEW c \in Configurations, NEW d \in Configurations,
         Cardinality(DOMAIN c) # Cardinality(DOMAIN d)
  PROVE  Before(c, d) <=> Cardinality(DOMAIN c) < Cardinality(DOMAIN d)
BY DEF Before

\* Before is a strict total order of the configurations.
LEMMA BeforeIrreflexive == ASSUME NEW c \in Configurations PROVE ~Before(c, c)
BY DEF Before

LEMMA BeforeTotal ==
  ASSUME NEW c \in Configurations, NEW d \in Configurations, c # d
  PROVE  Before(c, d) \/ Before(d, c)
<1>1. CASE DOMAIN c = DOMAIN d
  <2> DEFINE first == FirstDifference(Differing(c, d))
  <2>1. Differing(c, d) \in SUBSET Nat /\ Differing(c, d) # {}
    BY <1>1, SomeRateDiffers, Shape DEF Differing
  <2>2. first \in Differing(c, d)
    BY <2>1, FirstIsFirst
  <2>3. Differing(d, c) = Differing(c, d)
    BY <1>1 DEF Differing
  <2>4. c[first] \in Nat /\ d[first] \in Nat /\ c[first] # d[first]
    BY <1>1, <2>2, Shape DEF Differing
  <2>5. c[first] < d[first] \/ d[first] < c[first]
    BY <2>4
  <2> QED BY <1>1, <2>1, <2>3, <2>5 DEF Before, Differing
<1>2. CASE DOMAIN c # DOMAIN d /\ Cardinality(DOMAIN c) = Cardinality(DOMAIN d)
  <2> DEFINE differ == SymDiff(DOMAIN c, DOMAIN d)
  <2>1. differ \in SUBSET Nat /\ differ # {} /\ differ = SymDiff(DOMAIN d, DOMAIN c)
    BY <1>2, Shape DEF SymDiff
  <2>2. FirstDifference(differ) \in differ
    BY <2>1, FirstIsFirst
  <2>3. FirstDifference(differ) \in DOMAIN c \/ FirstDifference(differ) \in DOMAIN d
    BY <2>2 DEF SymDiff
  <2> HIDE DEF differ
  <2> QED BY <1>2, <2>1, <2>3 DEF Before, differ
<1>3. CASE Cardinality(DOMAIN c) # Cardinality(DOMAIN d)
  BY <1>3, BeforeOther, Shape
<1> QED BY <1>1, <1>2, <1>3

LEMMA BeforeTransitive ==
  ASSUME NEW c \in Configurations, NEW d \in Configurations, NEW e \in Configurations,
         Before(c, d), Before(d, e)
  PROVE  Before(c, e)
<1>0. /\ Cardinality(DOMAIN c) \in Nat /\ Cardinality(DOMAIN d) \in Nat /\ Cardinality(DOMAIN e) \in Nat
      /\ DOMAIN c \in SUBSET Nat /\ DOMAIN d \in SUBSET Nat /\ DOMAIN e \in SUBSET Nat
  BY Shape
<1>1. Cardinality(DOMAIN c) <= Cardinality(DOMAIN d) /\ Cardinality(DOMAIN d) <= Cardinality(DOMAIN e)
  BY <1>0, BeforeOther
<1>2. CASE Cardinality(DOMAIN c) # Cardinality(DOMAIN e)
  BY <1>0, <1>1, <1>2, BeforeOther
<1>3. CASE Cardinality(DOMAIN c) = Cardinality(DOMAIN e)
  <2>1. Cardinality(DOMAIN c) = Cardinality(DOMAIN d) /\ Cardinality(DOMAIN d) = Cardinality(DOMAIN e)
    BY <1>0, <1>1, <1>3
  <2>2. CASE DOMAIN c = DOMAIN d /\ DOMAIN d = DOMAIN e
    <3>1. PICK f \in DOMAIN c : c[f] < d[f] /\ \A g \in DOMAIN c : g < f => c[g] = d[g]
      BY <2>2, BeforeByRate
    <3>2. PICK h \in DOMAIN c : d[h] < e[h] /\ \A g \in DOMAIN c : g < h => d[g] = e[g]
      BY <2>2, BeforeByRate
    <3>3. \A g \in DOMAIN c : g \in Nat /\ c[g] \in Nat /\ d[g] \in Nat /\ e[g] \in Nat
      BY <2>2, Shape
    <3>4. PICK m \in DOMAIN c : m = IF f <= h THEN f ELSE h
      OBVIOUS
    <3>5. c[m] < e[m] /\ \A g \in DOMAIN c : g < m => c[g] = e[g]
      BY <3>1, <3>2, <3>3, <3>4
    <3> QED BY <2>2, <3>5, BeforeByRate
  <2>3. CASE DOMAIN c = DOMAIN d /\ DOMAIN d # DOMAIN e
    BY <2>1, <2>3 DEF Before
  <2>4. CASE DOMAIN c # DOMAIN d /\ DOMAIN d = DOMAIN e
    BY <2>1, <2>4 DEF Before
  <2>5. CASE DOMAIN c # DOMAIN d /\ DOMAIN d # DOMAIN e
    <3>1. PICK f \in DOMAIN c \ DOMAIN d : \A g \in Nat : g < f => (g \in DOMAIN c <=> g \in DOMAIN d)
      BY <2>1, <2>5, BeforeByName
    <3>2. PICK h \in DOMAIN d \ DOMAIN e : \A g \in Nat : g < h => (g \in DOMAIN d <=> g \in DOMAIN e)
      BY <2>1, <2>5, BeforeByName
    <3>3. PICK m \in Nat : m = IF f <= h THEN f ELSE h
      BY <1>0
    <3>4. f \in Nat /\ h \in Nat /\ f # h
      BY <1>0, <3>1, <3>2
    <3>5. m \in DOMAIN c \ DOMAIN e /\ \A g \in Nat : g < m => (g \in DOMAIN c <=> g \in DOMAIN e)
      BY <3>1, <3>2, <3>3, <3>4
    <3> QED BY <2>1, <3>5, BeforeByName
  <2> QED BY <2>2, <2>3, <2>4, <2>5
<1> QED BY <1>2, <1>3

\* The graph of a configuration is a set of pairs, of which there are finitely many.
Graph(c) == {<<f, c[f]>> : f \in DOMAIN c}

LEMMA FiniteConfigurations == IsFiniteSet(Configurations)
<1> DEFINE graphs == [c \in Configurations |-> Graph(c)]
           all == SUBSET (Functions \X Rates)
<1>1. IsFiniteSet(all)
  BY SweepAssumption, FS_Product, FS_SUBSET
<1>2. ASSUME NEW c \in Configurations PROVE Graph(c) \in all
  BY Shape DEF Graph
<1>3. ASSUME NEW c \in Configurations, NEW d \in Configurations, Graph(c) = Graph(d) PROVE c = d
  <2>1. \A f \in DOMAIN c : <<f, c[f]>> \in Graph(d)
    BY <1>3 DEF Graph
  <2>2. \A f \in DOMAIN c : f \in DOMAIN d /\ c[f] = d[f]
    BY <2>1 DEF Graph
  <2>3. \A f \in DOMAIN d : <<f, d[f]>> \in Graph(c)
    BY <1>3 DEF Graph
  <2>4. \A f \in DOMAIN d : f \in DOMAIN c
    BY <2>3 DEF Graph
  <2>5. DOMAIN c = DOMAIN d
    BY <2>2, <2>4
  <2>6. c \in [DOMAIN c -> Rates] /\ d \in [DOMAIN c -> Rates]
    BY <2>5, Shape
  <2> QED BY <2>2, <2>6
<1>4. graphs \in [Configurations -> all]
  BY <1>2
<1>5. \A c, d \in DOMAIN graphs : graphs[c] = graphs[d] => c = d
  BY <1>3
<1>6. graphs \in Injection(Configurations, all)
  BY <1>4, <1>5 DEF Injection, IsInjective
<1> HIDE DEF graphs, all
<1> QED BY <1>1, <1>6, FS_Injection

\* What comes before a configuration decides its rank.
EarlierIn(set, c) == {d \in set : Before(d, c)}

\* A set of configurations can be listed in order: each has its rank.
LEMMA Listable ==
  ASSUME NEW set \in SUBSET Configurations
  PROVE  \E plan \in [1 .. Cardinality(set) -> set] :
           \A i, j \in DOMAIN plan : i < j => Before(plan[i], plan[j])
<1> DEFINE n == Cardinality(set)
           rank == [c \in set |-> Cardinality(EarlierIn(set, c)) + 1]
<1>1. IsFiniteSet(set) /\ n \in Nat
  BY FiniteConfigurations, FS_Subset, FS_CardinalityType
<1>2. ASSUME NEW c \in set PROVE rank[c] \in 1 .. n
  <2>1. EarlierIn(set, c) \subseteq set \ {c}
    BY BeforeIrreflexive DEF EarlierIn
  <2>2. IsFiniteSet(set \ {c}) /\ Cardinality(set \ {c}) = n - 1
    BY <1>1, FS_RemoveElement
  <2>3. IsFiniteSet(EarlierIn(set, c)) /\ Cardinality(EarlierIn(set, c)) <= n - 1
    BY <2>1, <2>2, FS_Subset
  <2>4. Cardinality(EarlierIn(set, c)) \in Nat
    BY <2>3, FS_CardinalityType
  <2> QED BY <1>1, <2>3, <2>4
<1>3. ASSUME NEW c \in set, NEW d \in set, Before(c, d) PROVE rank[c] < rank[d]
  <2>1. EarlierIn(set, c) \subseteq EarlierIn(set, d)
    BY <1>3, BeforeTransitive DEF EarlierIn
  <2>2. c \in EarlierIn(set, d) /\ c \notin EarlierIn(set, c)
    BY <1>3, BeforeIrreflexive DEF EarlierIn
  <2>3. IsFiniteSet(EarlierIn(set, c)) /\ IsFiniteSet(EarlierIn(set, d))
    BY <1>1, FS_Subset DEF EarlierIn
  <2>4. /\ Cardinality(EarlierIn(set, c)) <= Cardinality(EarlierIn(set, d))
        /\ Cardinality(EarlierIn(set, c)) # Cardinality(EarlierIn(set, d))
    BY <2>1, <2>2, <2>3, FS_Subset
  <2>5. Cardinality(EarlierIn(set, c)) \in Nat /\ Cardinality(EarlierIn(set, d)) \in Nat
    BY <2>3, FS_CardinalityType
  <2> QED BY <2>4, <2>5
<1>4. \A c, d \in set : c # d => rank[c] # rank[d]
  <2> SUFFICES ASSUME NEW c \in set, NEW d \in set, c # d PROVE rank[c] # rank[d]
    OBVIOUS
  <2>1. rank[c] \in Int /\ rank[d] \in Int
    BY <1>2
  <2>2. rank[c] < rank[d] \/ rank[d] < rank[c]
    BY <1>3, BeforeTotal
  <2> HIDE DEF rank
  <2> QED BY <2>1, <2>2
<1>5. rank \in Injection(set, 1 .. n)
  <2>1. rank \in [set -> 1 .. n]
    BY <1>2
  <2> HIDE DEF rank
  <2> QED BY <1>4, <2>1 DEF Injection, IsInjective
<1> HIDE DEF rank
<1>6. rank \in Surjection(set, 1 .. n)
  <2>1. IsFiniteSet(1 .. n) /\ Cardinality(1 .. n) = n
    BY <1>1, FS_Interval
  <2> QED BY <1>5, <2>1, FS_Injection
<1>7. \A i \in 1 .. n : \E c \in set : rank[c] = i
  BY <1>6 DEF Surjection
<1> DEFINE plan == [i \in 1 .. n |-> CHOOSE c \in set : rank[c] = i]
<1>8. \A i \in 1 .. n : plan[i] \in set /\ rank[plan[i]] = i
  BY <1>7
<1>9. plan \in [1 .. n -> set]
  BY <1>7
<1>10. ASSUME NEW i \in 1 .. n, NEW j \in 1 .. n, i < j PROVE Before(plan[i], plan[j])
  <2>1. plan[i] \in set /\ plan[j] \in set /\ rank[plan[i]] = i /\ rank[plan[j]] = j
    BY <1>8
  <2> HIDE DEF plan
  <2>2. plan[i] # plan[j] /\ ~Before(plan[j], plan[i])
    BY <2>1, <1>3, <1>10, <1>1
  <2> QED BY <2>1, <2>2, BeforeTotal
<1> HIDE DEF plan
<1>11. \A i, j \in DOMAIN plan : i < j => Before(plan[i], plan[j])
  BY <1>9, <1>10
<1> QED BY <1>9, <1>11

\* The plan of a set lists it, all of it and nothing twice, in order.
LEMMA PlannedLists ==
  ASSUME NEW set \in SUBSET Configurations
  PROVE  /\ Planned(set) \in Seq(set) /\ Len(Planned(set)) = Cardinality(set)
         /\ \A c \in set : \E i \in 1 .. Len(Planned(set)) : Planned(set)[i] = c
         /\ \A i, j \in 1 .. Len(Planned(set)) : i < j => Before(Planned(set)[i], Planned(set)[j])
<1> DEFINE n == Cardinality(set)
           plan == Planned(set)
<1>1. IsFiniteSet(set) /\ n \in Nat
  BY FiniteConfigurations, FS_Subset, FS_CardinalityType
<1>2. /\ plan \in [1 .. n -> set]
      /\ \A i, j \in DOMAIN plan : i < j => Before(plan[i], plan[j])
  BY Listable DEF Planned
<1> HIDE DEF plan
<1>3. plan \in Seq(set) /\ Len(plan) = n
  BY <1>1, <1>2, SeqDef
<1>4. \A i, j \in 1 .. n : plan[i] = plan[j] => i = j
  <2> SUFFICES ASSUME NEW i \in 1 .. n, NEW j \in 1 .. n, i < j PROVE plan[i] # plan[j]
    OBVIOUS
  <2> QED BY <1>2, BeforeIrreflexive
<1>5. plan \in Injection(1 .. n, set)
  BY <1>2, <1>4 DEF Injection, IsInjective
<1>6. IsFiniteSet(1 .. n) /\ Cardinality(1 .. n) = n
  BY <1>1, FS_Interval
<1>7. plan \in Surjection(1 .. n, set)
  BY <1>1, <1>5, <1>6, FS_Injection
<1>8. \A c \in set : \E i \in 1 .. n : plan[i] = c
  BY <1>7 DEF Surjection
<1>9. \A i, j \in 1 .. n : i < j => Before(plan[i], plan[j])
  BY <1>2
<1> QED BY <1>3, <1>8, <1>9 DEF plan

\* What dominates a configuration comes after it, so that an overload is found
\* before what it spares would be measured (iter_configurations, dominates).
THEOREM SparedComeLater ==
  ASSUME NEW i \in 1 .. Len(Plan), NEW j \in 1 .. Len(Plan), Dominates(Plan[i], Plan[j])
  PROVE  i < j
<1> DEFINE c == Plan[i]
           d == Plan[j]
<1>1. Plan \in Seq(Configurations) /\ \A k, l \in 1 .. Len(Plan) : k < l => Before(Plan[k], Plan[l])
  BY PlannedLists DEF Plan
<1>2. c \in Configurations /\ d \in Configurations /\ i \in Nat /\ j \in Nat
  BY <1>1, ElementOfSeq
<1>3. /\ DOMAIN c = DOMAIN d /\ \A f \in DOMAIN c : d[f] >= c[f]
      /\ \E f \in DOMAIN c : d[f] > c[f]
  BY DEF Dominates
<1>4. \A f \in DOMAIN c : c[f] \in Nat /\ d[f] \in Nat
  BY <1>2, <1>3, Shape
<1>5. ~Before(d, c)
  <2>1. ASSUME Before(d, c) PROVE FALSE
    <3>1. PICK f \in DOMAIN d : d[f] < c[f]
      BY <1>2, <1>3, <2>1, BeforeByRate
    <3> QED BY <1>3, <1>4, <3>1
  <2> QED BY <2>1
<1>6. c # d
  BY <1>3, <1>4
<1>7. ~(j < i) /\ i # j
  BY <1>1, <1>5, <1>6
<1> QED BY <1>2, <1>7

-----------------------------------------------------------------------------
(* Types *)

(***************************************************************************)
(* The invariant behind TypeOK: while a configuration is at hand it is at  *)
(* the head of what is left, and no more of its iterations have been       *)
(* overloaded than have been made.                                         *)
(***************************************************************************)
TypesInv ==
  /\ TypeOK /\ overloads \in Nat /\ waited \in Nat
  /\ at \in {"cooldown", "k6"} => left # <<>> /\ overloads < iteration

LEMMA TypesInit == Init => TypesInv
<1> SUFFICES ASSUME Init PROVE TypesInv
  OBVIOUS
<1>1. Len(Plan) \in Nat
  BY PlannedLists, LenProperties DEF Plan
<1>2. <<>> \in Seq(Configurations) /\ Len(<<>>) = 0
  BY EmptySeq
<1>3. NoResult \in Entry
  BY DEF NoResult, Entry
<1>4. /\ result \in Entry /\ entries \in [Rep -> Entry] /\ rep \in Rep
  BY <1>3, SweepAssumption DEF Init, Rep
<1>5. /\ iteration \in 1 .. Iterations /\ overloads \in Nat /\ overloads < Iterations + 1
      /\ waited \in Nat /\ waited <= MaxWait /\ processes \in 0 .. Processes
  BY SweepAssumption DEF Init
<1>6. left \in Seq(Configurations) /\ Len(left) <= Len(Plan)
  BY <1>1, <1>2 DEF Init
<1> QED
  BY <1>4, <1>5, <1>6 DEF Init, TypesInv, TypeOK

\* What remains of the plan is no longer than the plan.
LEMMA LeftShrinks ==
  ASSUME TypesInv, left # <<>>
  PROVE  /\ Current \in Configurations
         /\ Tail(left) \in Seq(Configurations) /\ Len(Tail(left)) <= Len(Plan)
<1>1. left \in Seq(Configurations) /\ Len(left) <= Len(Plan) /\ Len(Plan) \in Nat
  BY PlannedLists, LenProperties DEF TypesInv, TypeOK, Plan
<1>2. Len(Tail(left)) = Len(left) - 1 /\ Len(left) \in Nat
  BY <1>1, HeadTailProperties, LenProperties
<1> QED
  BY <1>1, <1>2, HeadTailProperties DEF Current

LEMMA TypesStep == TypesInv /\ [Next]_vars => TypesInv'
<1> SUFFICES ASSUME TypesInv, [Next]_vars PROVE TypesInv'
  OBVIOUS
<1> USE SweepAssumption DEF process, sweep, config, disk, history
<1>0. /\ left \in Seq(Configurations) /\ Len(left) <= Len(Plan)
      /\ iteration \in 1 .. Iterations /\ overloads \in Nat /\ waited \in 0 .. MaxWait
  BY DEF TypesInv, TypeOK
<1>1. CASE Start
  <2>1. left' \in Seq(Configurations) /\ Len(left') <= Len(Plan)
    <3>1. Len(Plan) \in Nat
      BY PlannedLists, LenProperties DEF Plan
    <3> QED
      BY <1>1, <3>1, EmptySeq DEF Start
  <2>2. result' \in Entry /\ entries' \in [Rep -> Entry] /\ rep' \in Rep
    BY <1>1 DEF Start, TypesInv, TypeOK, NoResult, Entry
  <2>3. processes' \in 0 .. Processes
    BY <1>1 DEF Start, TypesInv, TypeOK
  <2> QED
    BY <1>1, <2>1, <2>2, <2>3 DEF Start, TypesInv, TypeOK
<1>2. CASE Prepare
  <2>1. left' \in Seq(Configurations) /\ Len(left') <= Len(Plan)
    <3>1. CASE variant = "dfaas"
      BY <1>2, <3>1, PlannedLists, LenProperties DEF Prepare, Plan
    <3>2. CASE variant # "dfaas"
      <4> DEFINE new == Configurations \ (csv \cup seen)
      <4>1. new \in SUBSET Configurations /\ left' = Planned(new)
        BY <1>2, <3>2 DEF Prepare, Proposed
      <4>2. left' \in Seq(new) /\ Len(left') = Cardinality(new) /\ Len(Plan) = Cardinality(Configurations)
        BY <4>1, PlannedLists DEF Plan
      <4>3. Cardinality(new) <= Cardinality(Configurations)
        BY <4>1, FiniteConfigurations, FS_Subset
      <4> HIDE DEF new
      <4>4. left' \in Seq(Configurations)
        BY <4>1, <4>2, SeqDef
      <4> QED BY <4>2, <4>3, <4>4
    <3> QED BY <3>1, <3>2
  <2> QED
    BY <1>2, <2>1 DEF Prepare, TypesInv, TypeOK
<1>3. CASE Skip
  BY <1>3, LeftShrinks DEF Skip, TypesInv, TypeOK
<1>4. CASE Begin
  BY <1>4 DEF Begin, TypesInv, TypeOK
<1>5. CASE Cooldown
  <2>1. CASE Idle
    BY <1>5, <2>1 DEF Cooldown, Idle, TypesInv, TypeOK
  <2>2. CASE Sleeps \/ SleepsWhole
    <3>1. waited' \in 0 .. MaxWait
      BY <1>0, <2>2 DEF Sleeps, SleepsWhole, Smaller
    <3> QED
      BY <1>0, <1>5, <2>2, <3>1 DEF Cooldown, Sleeps, SleepsWhole, TypesInv, TypeOK
  <2>3. CASE ConfigFails /\ UNCHANGED waited
    BY <1>5, <2>3, LeftShrinks DEF Cooldown, ConfigFails, TypesInv, TypeOK
  <2> QED
    BY <1>5, <2>1, <2>2, <2>3 DEF Cooldown
<1>6. CASE K6Fails
  BY <1>6, LeftShrinks DEF K6Fails, ConfigFails, TypesInv, TypeOK
<1>7. ASSUME NEW overloaded \in BOOLEAN, Measure(overloaded) PROVE TypesInv'
  <2>1. left # <<>> /\ overloads < iteration
    BY <1>7 DEF Measure, TypesInv
  <2>2. Current \in Configurations /\ Tail(left) \in Seq(Configurations) /\ Len(Tail(left)) <= Len(Plan)
    BY <2>1, LeftShrinks
  <2>3. overloads' \in Nat /\ overloads' <= iteration
    BY <1>0, <1>7, <2>1 DEF Measure
  <2>4. /\ seen' \subseteq Configurations
        /\ measured' \subseteq Configurations \X (1 .. Iterations)
    BY <1>0, <1>7, <2>2 DEF Measure, Ingest, TypesInv, TypeOK
  <2>5. CASE iteration < Iterations
    BY <1>0, <1>7, <2>1, <2>3, <2>4, <2>5 DEF Measure, TypesInv, TypeOK
  <2>6. CASE ~(iteration < Iterations)
    <3>1. /\ at' = "config" /\ left' = Tail(left) /\ index' \subseteq Configurations
          /\ over' \subseteq Configurations /\ spared' \subseteq Configurations
      BY <1>7, <2>2, <2>6 DEF Measure, TypesInv, TypeOK
    <3> QED
      BY <1>0, <1>7, <2>2, <2>3, <2>4, <2>6, <3>1 DEF Measure, TypesInv, TypeOK
  <2> QED
    BY <2>5, <2>6
<1>8. CASE Build
  BY <1>8 DEF Build, TypesInv, TypeOK, Entry
<1>9. CASE Abort
  BY <1>9 DEF Abort, TypesInv, TypeOK
<1>10. CASE Persist
  BY <1>10 DEF Persist, TypesInv, TypeOK
<1>11. CASE StoppedFirst
  BY <1>11 DEF StoppedFirst, TypesInv, TypeOK
<1>12. CASE ExportOpen
  BY <1>12 DEF ExportOpen, TypesInv, TypeOK
<1>13. CASE ExportWrite
  BY <1>13, SMTT(30) DEF ExportWrite, TypesInv, TypeOK, Entry
<1>14. CASE Crash
  BY <1>14, SMTT(30) DEF Crash, TypesInv, TypeOK
<1>15. CASE Finished \/ UNCHANGED vars
  BY <1>15 DEF Finished, vars, TypesInv, TypeOK
<1> QED
  BY <1>1, <1>2, <1>3, <1>4, <1>5, <1>6, <1>7, <1>8, <1>9, <1>10, <1>11, <1>12, <1>13, <1>14,
     <1>15 DEF Next

\* The sweep stays inside its plan and its iterations: what is left is never
\* more than the plan, and a cooldown never waits longer than it may, by
\* whichever of the two ways the plugins count.
THEOREM Typing == Spec => []TypeOK
<1>1. TypesInv => TypeOK
  BY DEF TypesInv
<1> QED
  BY <1>1, TypesInit, TypesStep, PTL DEF Spec

-----------------------------------------------------------------------------
(* The index *)

Working == {"config", "cooldown", "k6"}

\* All of a set have been measured.
AllMeasured(set) == \A c \in set : Measured(c)

(***************************************************************************)
(* The invariant behind IndexedIsMeasured.  The configuration at hand has  *)
(* its iterations so far; what is indexed anywhere, in the result of the   *)
(* generator too, has them all.                                            *)
(***************************************************************************)
IndexInv ==
  /\ iteration \in 1 .. Iterations
  /\ at \in {"cooldown", "k6"} => \A i \in 1 .. iteration - 1 : <<Current, i>> \in measured
  /\ AllMeasured(index) /\ AllMeasured(indexed) /\ AllMeasured(csv)
  /\ AllMeasured(result.index)
  /\ entries = [r \in Rep |-> entries[r]]
  /\ \A r \in Rep : AllMeasured(entries[r].index)

\* What has been measured once stays measured.
LEMMA MeasuredStays ==
  ASSUME measured \subseteq measured', NEW c, Measured(c)
  PROVE  Measured(c)'
BY DEF Measured

LEMMA IndexInit == Init => IndexInv
<1> SUFFICES ASSUME Init PROVE IndexInv
  OBVIOUS
<1> QED
  BY SweepAssumption DEF Init, IndexInv, AllMeasured, NoResult

\* Steps that leave the measurements and every index alone.
LEMMA IndexIdle ==
  ASSUME IndexInv,
         measured' = measured, index' = index, indexed' = indexed, csv' = csv,
         result' = result, entries' = entries, iteration' = iteration,
         at' \in {"cooldown", "k6"} => at \in {"cooldown", "k6"} /\ left' = left
  PROVE  IndexInv'
BY DEF IndexInv, AllMeasured, Measured, Current

LEMMA IndexStep == IndexInv /\ [Next]_vars => IndexInv'
<1> SUFFICES ASSUME IndexInv, [Next]_vars PROVE IndexInv'
  OBVIOUS
<1> USE SweepAssumption
<1>1. CASE Start
  BY <1>1 DEF Start, IndexInv, AllMeasured, Measured, NoResult, config, disk, history
<1>2. CASE Prepare
  BY <1>2 DEF Prepare, IndexInv, AllMeasured, Measured, process, config, disk, history
<1>3. CASE Skip
  BY <1>3 DEF Skip, IndexInv, AllMeasured, Measured, process, config, disk, history
<1>4. CASE Begin
  BY <1>4 DEF Begin, IndexInv, AllMeasured, Measured, Current, process, sweep, disk, history
<1>5. CASE Cooldown
  <2>1. /\ UNCHANGED <<measured, index, indexed, csv, result, entries, iteration>>
        /\ at' \in {"cooldown", "k6"} => at \in {"cooldown", "k6"} /\ left' = left
    BY <1>5 DEF Cooldown, Idle, Sleeps, SleepsWhole, ConfigFails, sweep, history
  <2> QED
    BY <2>1, IndexIdle
<1>6. CASE K6Fails
  BY <1>6, IndexIdle DEF K6Fails, ConfigFails, config, history
<1>7. ASSUME NEW overloaded \in BOOLEAN, Measure(overloaded) PROVE IndexInv'
  <2>1. /\ measured' = measured \cup {<<Current, iteration>>}
        /\ UNCHANGED <<indexed, result, entries, csv>> /\ at = "k6"
    BY <1>7 DEF Measure
  <2>2. \A c : Measured(c) => Measured(c)'
    BY <2>1, MeasuredStays
  <2>3. AllMeasured(indexed)' /\ AllMeasured(csv)' /\ AllMeasured(result.index)'
    BY <2>1, <2>2 DEF IndexInv, AllMeasured
  <2>4. /\ entries' = [r \in Rep |-> entries'[r]]
        /\ \A r \in Rep : AllMeasured(entries[r].index)'
    BY <2>1, <2>2 DEF IndexInv, AllMeasured
  <2>5. \A i \in 1 .. iteration : <<Current, i>> \in measured'
    BY <2>1 DEF IndexInv
  <2>6. CASE iteration < Iterations
    <3>1. iteration' = iteration + 1 /\ left' = left /\ index' = index /\ at' = "cooldown"
      BY <1>7, <2>6 DEF Measure
    <3>2. AllMeasured(index)'
      BY <3>1, <2>2 DEF IndexInv, AllMeasured
    <3>3. \A i \in 1 .. iteration' - 1 : <<Current, i>>' \in measured'
      BY <3>1, <2>5 DEF IndexInv, Current
    <3>4. iteration' \in 1 .. Iterations
      BY <3>1, <2>6 DEF IndexInv
    <3> QED
      BY <2>3, <2>4, <3>2, <3>3, <3>4 DEF IndexInv
  <2>7. CASE ~(iteration < Iterations)
    <3>1. iteration' = iteration /\ index' = index \cup {Current} /\ at' = "config"
      BY <1>7, <2>7 DEF Measure
    <3>2. iteration = Iterations
      BY <2>7 DEF IndexInv
    <3>3. AllMeasured(index)'
      BY <3>1, <2>2, <2>5, <3>2 DEF IndexInv, AllMeasured, Measured
    <3> QED
      BY <2>3, <2>4, <3>1, <3>3 DEF IndexInv
  <2> QED
    BY <2>6, <2>7
<1>8. CASE Build
  BY <1>8 DEF Build, IndexInv, AllMeasured, Measured, process, sweep, config, disk, history
<1>9. CASE Abort
  BY <1>9, IndexIdle DEF Abort, process, sweep, config, disk, history
<1>10. CASE Persist
  BY <1>10 DEF Persist, IndexInv, AllMeasured, Measured, process, sweep, config, history
<1>11. CASE StoppedFirst
  BY <1>11, IndexIdle DEF StoppedFirst, process, sweep, config, disk, history
<1>12. CASE ExportOpen
  BY <1>12 DEF ExportOpen, IndexInv, AllMeasured, Measured, process, sweep, config, history
<1>13. CASE ExportWrite
  BY <1>13 DEF ExportWrite, IndexInv, AllMeasured, Measured, process, sweep, config, history
<1>14. CASE Crash
  BY <1>14, IndexIdle DEF Crash, process, sweep, config, disk, history
<1>15. CASE Finished
  BY <1>15, IndexIdle DEF Finished, vars, sweep, config, disk, history
<1>16. CASE UNCHANGED vars
  BY <1>16, IndexIdle DEF vars, sweep, config, disk, history
<1> QED
  BY <1>1, <1>2, <1>3, <1>4, <1>5, <1>6, <1>7, <1>8, <1>9, <1>10, <1>11, <1>12, <1>13, <1>14,
     <1>15, <1>16 DEF Next

LEMMA IndexAlways == Spec => []IndexInv
BY IndexInit, IndexStep, PTL DEF Spec

\* What the next process skips because it is indexed has been measured with all
\* its iterations, however processes fail, die and are resumed.
THEOREM IndexSound == Spec => []IndexedIsMeasured
<1>1. IndexInv => IndexedIsMeasured
  BY DEF IndexInv, IndexedIsMeasured, AllMeasured
<1> QED
  BY <1>1, IndexAlways, PTL

-----------------------------------------------------------------------------
(* The success of a sweep *)

Accounted(c) == Measured(c) \/ \E o \in spared : Dominates(o, c)
ToCome(c) == \E i \in 1 .. Len(left) : left[i] = c

(***************************************************************************)
(* The invariant behind SuccessIsComplete: while no failure is recorded, a *)
(* configuration is still to come or accounted for.                        *)
(***************************************************************************)
SuccessInv ==
  /\ over \subseteq spared
  /\ left \in Seq(Configurations)
  /\ at \in {"cooldown", "k6"} => left # <<>>
  /\ at \in Working /\ ~failed => \A c \in Configurations : ToCome(c) \/ Accounted(c)
  /\ result.ok => \A c \in Configurations : Accounted(c)
  /\ \A r \in Rep : entries[r].ok => \A c \in Configurations : Accounted(c)

DfaasInv == variant = "dfaas" => SuccessInv

LEMMA AccountedStays ==
  ASSUME measured \subseteq measured', spared \subseteq spared', NEW c, Accounted(c)
  PROVE  Accounted(c)'
BY MeasuredStays DEF Accounted

LEMMA SuccessInit == Init => DfaasInv
BY EmptySeq DEF Init, DfaasInv, SuccessInv, Working, NoResult

\* The configuration at hand is dropped from what is to come.
LEMMA NextToCome ==
  ASSUME left \in Seq(Configurations), left # <<>>, left' = Tail(left)
  PROVE  /\ left' \in Seq(Configurations)
         /\ Current \in Configurations
         /\ \A c : ToCome(c) => c = Current \/ ToCome(c)'
<1>1. left' \in Seq(Configurations) /\ Current \in Configurations
  BY HeadTailProperties DEF Current
<1>2. ASSUME NEW i \in 1 .. Len(left), left[i] # Current PROVE \E j \in 1 .. Len(left)' : left'[j] = left[i]
  <2>1. i # 1
    BY <1>2 DEF Current
  <2>2. i - 1 \in 1 .. Len(left') /\ left'[i - 1] = left[i]
    BY <2>1, HeadTailProperties, LenProperties
  <2> QED
    BY <2>2
<1> QED
  BY <1>1, <1>2 DEF ToCome
\* Steps that leave what is to come, the verdicts and the histories alone.
LEMMA SuccessIdle ==
  ASSUME SuccessInv,
         measured \subseteq measured', spared' = spared, over' = over, left' = left,
         failed' = failed, result' = result, entries' = entries,
         at' \in Working => at \in Working,
         at' \in {"cooldown", "k6"} => left # <<>>
  PROVE  SuccessInv'
<1>1. \A c : Accounted(c) => Accounted(c)'
  BY AccountedStays
<1> QED
  BY <1>1 DEF SuccessInv, ToCome

\* Steps that pass over the configuration at hand, accounted for or failed.
LEMMA SuccessDrop ==
  ASSUME SuccessInv, NEW c, c = Current, failed' \/ Accounted(c)',
         at \in Working, left # <<>>, left' = Tail(left), at' = "config",
         measured \subseteq measured', spared \subseteq spared', over' \subseteq spared',
         failed => failed', result' = result, entries' = entries
  PROVE  SuccessInv'
<1>1. \A d : Accounted(d) => Accounted(d)'
  BY AccountedStays
<1>2. left' \in Seq(Configurations) /\ \A d : ToCome(d) => d = c \/ ToCome(d)'
  BY NextToCome DEF SuccessInv
<1>3. ~failed' => \A d \in Configurations : ToCome(d)' \/ Accounted(d)'
  BY <1>1, <1>2 DEF SuccessInv
<1> QED
  BY <1>1, <1>2, <1>3 DEF SuccessInv

LEMMA SuccessStep == IndexInv /\ IndexInv' /\ DfaasInv /\ [Next]_vars => DfaasInv'
<1> SUFFICES ASSUME IndexInv, IndexInv', DfaasInv, [Next]_vars, variant' = "dfaas"
             PROVE  SuccessInv'
  BY DEF DfaasInv
<1>0. variant = "dfaas" /\ SuccessInv
  <2>1. variant' = variant
    BY DEF Next, vars, process, Start, Prepare, Skip, Begin, Cooldown, K6Fails, Measure, Build,
           Abort, Persist, StoppedFirst, ExportOpen, ExportWrite, Crash, Finished
  <2> QED
    BY <2>1 DEF DfaasInv
<1>1. CASE Start
  BY <1>0, <1>1, EmptySeq
  DEF Start, SuccessInv, Working, NoResult, config, disk, history, Accounted, Measured
<1>2. CASE Prepare
  <2>1. left' = Plan /\ over' = over /\ at' = "config"
        /\ UNCHANGED <<result, entries, measured, spared>>
    BY <1>0, <1>2 DEF Prepare, disk, history
  <2>2. Plan \in Seq(Configurations) /\ \A c \in Configurations : \E i \in 1 .. Len(Plan) : Plan[i] = c
    BY PlannedLists DEF Plan
  <2> QED
    BY <1>0, <2>1, <2>2 DEF SuccessInv, ToCome, Accounted, Measured
<1>3. CASE Skip
  <2>1. PICK c : c = Current
    OBVIOUS
  <2>2. Accounted(c)
    BY <1>0, <1>3, <2>1 DEF Skip, SkipReason, IndexInv, AllMeasured, SuccessInv, Accounted
  <2>3. Accounted(c)'
    BY <1>3, <2>2, AccountedStays DEF Skip, history
  <2> QED
    BY <1>0, <1>3, <2>1, <2>3, SuccessDrop
    DEF Skip, SuccessInv, Working, config, disk, history
<1>4. CASE Begin
  BY <1>0, <1>4, SuccessIdle DEF Begin, process, sweep, disk, history, Working
<1>5. CASE Cooldown
  <2>1. at = "cooldown" /\ entries' = entries
    BY <1>5 DEF Cooldown
  <2>2. CASE Idle \/ Sleeps
    BY <1>0, <2>1, <2>2, SuccessIdle DEF Idle, Sleeps, sweep, history, Working, SuccessInv
  <2>3. CASE ConfigFails
    <3>1. PICK c : c = Current
      OBVIOUS
    <3> QED
      BY <1>0, <2>1, <2>3, <3>1, SuccessDrop DEF ConfigFails, history, Working, SuccessInv
  <2> QED
    BY <1>0, <1>5, <2>2, <2>3 DEF Cooldown
<1>6. CASE K6Fails
  <2>1. PICK c : c = Current
    OBVIOUS
  <2> QED
    BY <1>0, <1>6, <2>1, SuccessDrop
    DEF K6Fails, ConfigFails, history, Working, SuccessInv
<1>7. ASSUME NEW overloaded \in BOOLEAN, Measure(overloaded) PROVE SuccessInv'
  <2>1. /\ measured \subseteq measured' /\ at = "k6" /\ left # <<>>
        /\ UNCHANGED <<failed, result, entries>>
    BY <1>0, <1>7 DEF Measure, SuccessInv
  <2>2. CASE iteration < Iterations
    <3>1. at' = "cooldown" /\ UNCHANGED <<left, over, spared>>
      BY <1>7, <2>2 DEF Measure
    <3> QED
      BY <1>0, <2>1, <3>1, SuccessIdle DEF Working
  <2>3. CASE ~(iteration < Iterations)
    <3>1. PICK c : c = Current
      OBVIOUS
    <3>2. /\ at' = "config" /\ left' = Tail(left) /\ index' = index \cup {c}
          /\ \E found : over' = over \cup found /\ spared' = spared \cup found
      BY <1>7, <2>3, <3>1 DEF Measure
    <3>3. Accounted(c)'
      BY <3>2 DEF IndexInv, AllMeasured, Accounted
    <3>4. over' \subseteq spared' /\ spared \subseteq spared'
      BY <1>0, <3>2 DEF SuccessInv
    <3> QED
      BY <1>0, <2>1, <3>1, <3>2, <3>3, <3>4, SuccessDrop DEF Working
  <2> QED
    BY <2>2, <2>3
<1>8. CASE Build
  <2>1. /\ at = "config" /\ left = <<>> /\ at' = "built"
        /\ result'.ok = ~failed
        /\ UNCHANGED <<left, over, failed, entries, measured, spared>>
    BY <1>8 DEF Build, sweep, disk, history
  <2>2. \A c \in Configurations : ~ToCome(c)
    BY <2>1, EmptySeq DEF ToCome
  <2>3. ~failed => \A c \in Configurations : Accounted(c)'
    BY <1>0, <2>1, <2>2 DEF SuccessInv, Working, Accounted, Measured
  <2>4. \A c \in Configurations : Accounted(c) => Accounted(c)'
    BY <2>1 DEF Accounted, Measured
  <2>5. result'.ok => \A c \in Configurations : Accounted(c)'
    BY <2>1, <2>3
  <2> QED
    BY <1>0, <2>1, <2>4, <2>5 DEF SuccessInv, Working
<1>9. CASE Abort
  BY <1>0, <1>9, SuccessIdle DEF Abort, process, sweep, config, disk, history, Working
<1>10. CASE Persist
  BY <1>0, <1>10 DEF Persist, IndexInv, SuccessInv, Working, Accounted, Measured, process, sweep,
                     config, history
<1>11. CASE StoppedFirst
  BY <1>0, <1>11, SuccessIdle DEF StoppedFirst, process, sweep, config, disk, history, Working
<1>12. CASE ExportOpen
  BY <1>0, <1>12, SuccessIdle DEF ExportOpen, process, sweep, config, history, Working
<1>13. CASE ExportWrite
  BY <1>0, <1>13, SuccessIdle DEF ExportWrite, process, sweep, config, history, Working
<1>14. CASE Crash
  BY <1>0, <1>14, SuccessIdle DEF Crash, process, sweep, config, disk, history, Working
<1>15. CASE Finished
  BY <1>0, <1>15, SuccessIdle DEF Finished, vars, process, sweep, config, disk, history, Working
<1>16. CASE UNCHANGED vars
  BY <1>0, <1>16 DEF vars, process, sweep, config, disk, history, SuccessInv, ToCome, Accounted,
                     Measured
<1> QED
  BY <1>1, <1>2, <1>3, <1>4, <1>5, <1>6, <1>7, <1>8, <1>9, <1>10, <1>11, <1>12, <1>13, <1>14,
     <1>15, <1>16 DEF Next

\* A repetition of dfaas that is called a success has left nothing of the plan
\* out, wherever earlier processes failed or died.
THEOREM SuccessSound == Spec => []SuccessIsComplete
<1>1. DfaasInv => SuccessIsComplete
  BY DEF DfaasInv, SuccessInv, SuccessIsComplete, Accounted
<1>2. Init => DfaasInv
  BY SuccessInit
<1>3. IndexInv /\ IndexInv' /\ DfaasInv /\ [Next]_vars => DfaasInv'
  BY SuccessStep
<1> QED
  BY <1>1, <1>2, <1>3, IndexAlways, PTL DEF Spec
=============================================================================
