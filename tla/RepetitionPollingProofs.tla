----------------------- MODULE RepetitionPollingProofs -----------------------
(***************************************************************************)
(* Theorems about RepetitionPolling, for any number of repetitions in any  *)
(* plays of any tasks: what the role relays, what it may report done, and  *)
(* what it launches after a failure, whatever the runners do meanwhile.    *)
(***************************************************************************)
EXTENDS RepetitionPolling, SequenceTheorems, NaturalsInduction, WellFoundedInduction, TLAPS

Writes == Tokens \cup StatusWrites

\* TypeOK leaves the domain of todo open.
Shaped == TypeOK /\ todo \in [Job -> Seq(Writes)]

-----------------------------------------------------------------------------
(* Lemmas on the operators *)

\* The text of an event, the newline that ends it and what is written to the
\* status file are told apart.
LEMMA TokenKinds ==
  /\ Newline \in Tokens
  /\ \A j \in Job, s \in {"running"} \cup Final, last \in BOOLEAN :
       /\ Event(j, s, last) \in Tokens \ {Newline}
       /\ Event(j, s, last).job = j /\ Event(j, s, last).last = last
  /\ \A x \in StatusWrites : x \notin Tokens /\ x.status \in {"empty", "0", "1"}
<1>1. ASSUME NEW j \in Job, NEW s \in {"running"} \cup Final, NEW last \in BOOLEAN
      PROVE  Event(j, s, last) \in Tokens \ {Newline}
  BY DEF Tokens, Newline, Event, Final
<1>2. ASSUME NEW x \in StatusWrites PROVE x \notin Tokens /\ x.status \in {"empty", "0", "1"}
  BY DEF StatusWrites, Tokens, Newline, Event, Final
<1>3. Newline \in Tokens
  BY DEF Tokens
<1>4. \A j \in Job, s \in {"running"} \cup Final, last \in BOOLEAN :
        Event(j, s, last).job = j /\ Event(j, s, last).last = last
  BY DEF Event
<1> QED BY <1>1, <1>2, <1>3, <1>4

\* What an event and its newline are, as a sequence.
LEMMA PairShape ==
  ASSUME NEW S, NEW a \in S, NEW b \in S
  PROVE  /\ <<a, b>> \in Seq(S) /\ Len(<<a, b>>) = 2
         /\ <<a, b>>[1] = a /\ <<a, b>>[2] = b
  OBVIOUS

\* Four writes in two pairs.
LEMMA PairOfPairs ==
  ASSUME NEW S, NEW s \in Seq(S), NEW t \in Seq(S), Len(s) = 2
  PROVE  /\ s \o t \in Seq(S) /\ Len(s \o t) = Len(t) + 2
         /\ (s \o t)[1] = s[1] /\ (s \o t)[2] = s[2]
         /\ \A p \in 1 .. Len(t) : (s \o t)[p + 2] = t[p]
<1>1. /\ s \o t \in Seq(S) /\ Len(s \o t) = Len(s) + Len(t) /\ Len(t) \in Nat
      /\ \A i \in 1 .. Len(s) + Len(t) : (s \o t)[i] = IF i <= Len(s) THEN s[i] ELSE t[i - Len(s)]
  <2>1. Len(t) \in Nat
    OBVIOUS
  <2> QED BY <2>1, ConcatProperties
<1>2. ASSUME NEW p \in 1 .. Len(t) PROVE (s \o t)[p + 2] = t[p]
  <2>1. p + 2 \in 1 .. Len(s) + Len(t) /\ ~(p + 2 <= Len(s)) /\ p + 2 - Len(s) = p
    BY <1>1
  <2> QED BY <1>1, <2>1
<1> QED BY <1>1, <1>2

\* A set of numbers that is not empty has a smallest one.
LEMMA Smallest == ASSUME NEW S \in SUBSET Nat, S # {} PROVE \E m \in S : \A k \in S : m <= k
<1> DEFINE Less == OpToRel(<, Nat)
<1>1. \A i, j \in Nat : <<i, j>> \in Less <=> i < j
  BY DEF OpToRel
<1>2. IsWellFoundedOn(Less, Nat)
  BY NatLessThanWellFounded
<1> HIDE DEF Less
<1>3. PICK m \in S : \A k \in S : ~(<<k, m>> \in Less)
  BY <1>2, WFMin
<1>4. ASSUME NEW k \in S PROVE m <= k
  <2>1. ~(k < m)
    BY <1>1, <1>3
  <2> QED BY <2>1
<1> QED BY <1>4

\* The offset moves to the last newline of the stream, when one has come.
LEMMA OffsetMoves ==
  ASSUME stream \in Seq(Tokens), offset \in 0 .. Len(stream)
  PROVE  /\ NewOffset \in offset .. Len(stream)
         /\ Complete(offset) => /\ NewOffset > offset /\ stream[NewOffset] = Newline
                                /\ ~Complete(NewOffset)
<1>1. CASE ~Complete(offset)
  BY <1>1 DEF NewOffset
<1>2. CASE Complete(offset)
  <2> DEFINE S == {Len(stream) - i : i \in {i \in offset + 1 .. Len(stream) : stream[i] = Newline}}
  <2>1. S \in SUBSET Nat /\ S # {}
    BY <1>2 DEF Complete
  <2>2. PICK m \in S : \A k \in S : m <= k
    BY <2>1, Smallest
  <2>3. PICK n \in offset + 1 .. Len(stream) : stream[n] = Newline /\ m = Len(stream) - n
    BY <2>2
  <2>4. ~Complete(n)
    <3> SUFFICES ASSUME NEW i \in n + 1 .. Len(stream), stream[i] = Newline PROVE FALSE
      BY DEF Complete
    <3>1. i \in offset + 1 .. Len(stream) /\ i > n /\ Len(stream) - i \in S
      BY <2>3
    <3>2. m <= Len(stream) - i
      BY <2>2, <3>1
    <3> HIDE DEF S
    <3> QED BY <2>3, <3>1, <3>2
  <2>5. NewOffset \in offset + 1 .. Len(stream) /\ stream[NewOffset] = Newline
        /\ ~Complete(NewOffset)
    BY <1>2, <2>3, <2>4 DEF NewOffset
  <2> QED BY <2>5
<1> QED BY <1>1, <1>2

\* Every complete line after the offset lies below the new one.
LEMMA LinesBelow ==
  ASSUME stream \in Seq(Tokens), offset \in 0 .. Len(stream)
  PROVE  Lines = {i \in offset + 1 .. NewOffset : LineStart(i)}
<1>1. ASSUME NEW i \in Lines PROVE i < NewOffset
  <2>1. PICK n \in i + 1 .. Len(stream) : stream[n] = Newline
    BY DEF Lines, Complete
  <2>2. i \in offset + 1 .. Len(stream) /\ Complete(offset)
    BY <2>1 DEF Lines, Complete
  <2>3. ~(n > NewOffset)
    BY <2>1, <2>2, OffsetMoves DEF Complete
  <2> QED BY <2>1, <2>2, <2>3, OffsetMoves
<1>2. ASSUME NEW i \in offset + 1 .. NewOffset, LineStart(i) PROVE i \in Lines
  <2>1. Complete(offset) /\ stream[NewOffset] = Newline /\ stream[i] # Newline
    BY <1>2, OffsetMoves DEF LineStart, NewOffset
  <2>2. NewOffset \in i + 1 .. Len(stream)
    BY <2>1, OffsetMoves
  <2> QED BY <1>2, <2>1, <2>2, OffsetMoves DEF Lines, Complete
<1> QED BY <1>1, <1>2, OffsetMoves DEF Lines

\* The host returns at the first repetition of a play that is not the one it left.
NextJob == CHOOSE k \in LaterPlays : \A i \in LaterPlays : k <= i

\* There is a first one whenever there is one.
LEMMA NextJobIsFirst ==
  ASSUME LaterPlays # {} PROVE NextJob \in LaterPlays /\ \A i \in LaterPlays : NextJob <= i
<1>1. LaterPlays \in SUBSET Nat
  BY JobsAssumption DEF LaterPlays, Job
<1>2. \E k \in LaterPlays : \A i \in LaterPlays : k <= i
  BY <1>1, Smallest
<1> QED BY <1>2 DEF NextJob

-----------------------------------------------------------------------------
(* What a runner writes *)

\* A runner's last writes, counted from the end of what it has queued: the
\* status, after a write that empties its file, after the event of
\* async_localrunner, after the one of LocalRunner if there is any.
Rc(fs) == IF fs = "done" THEN "0" ELSE "1"

FromEnd(j, so, fs, d) ==
  CASE d = 1 -> [job |-> Nobody, status |-> Rc(fs), last |-> FALSE]
    [] d = 2 -> [job |-> Nobody, status |-> "empty", last |-> FALSE]
    [] d = 4 -> Event(j, fs, TRUE)
    [] d = 6 -> Event(j, so, FALSE)
    [] OTHER -> Newline

Script(j, so, fs, t, n) ==
  Len(t) = n /\ \A p \in 1 .. n : t[p] = FromEnd(j, so, fs, n - p + 1)

Outcomes == {"done", "failed"}

\* async_localrunner ends every runner with such a script.
LEMMA EpilogueShape ==
  ASSUME NEW j \in Job, NEW so \in Final, NEW s \in Final \cup {"raised"}
  PROVE  \E fs \in Outcomes :
           Epilogue(j, s) \in Seq(Writes) /\ Script(j, so, fs, Epilogue(j, s), 4)
<1> DEFINE fs == IF s = "done" THEN "done" ELSE "failed"
           e1 == [job |-> Nobody, status |-> "empty", last |-> FALSE]
           e2 == [job |-> Nobody, status |-> Rc(fs), last |-> FALSE]
<1>1. Event(j, fs, TRUE) \in Writes /\ Newline \in Writes /\ e1 \in Writes /\ e2 \in Writes
  BY TokenKinds DEF Writes, StatusWrites, Rc, Final
<1>2. Say(j, fs, TRUE) \in Seq(Writes) /\ Len(Say(j, fs, TRUE)) = 2
      /\ Say(j, fs, TRUE)[1] = Event(j, fs, TRUE) /\ Say(j, fs, TRUE)[2] = Newline
  BY <1>1, PairShape DEF Say
<1>3. WriteStatus(Rc(fs)) \in Seq(Writes) /\ Len(WriteStatus(Rc(fs))) = 2
      /\ WriteStatus(Rc(fs))[1] = e1 /\ WriteStatus(Rc(fs))[2] = e2
  BY <1>1, PairShape DEF WriteStatus
<1>4. Epilogue(j, s) = Say(j, fs, TRUE) \o WriteStatus(Rc(fs))
  BY DEF Epilogue, Rc
<1>d. /\ e1 = [job |-> Nobody, status |-> "empty", last |-> FALSE]
      /\ e2 = [job |-> Nobody, status |-> Rc(fs), last |-> FALSE]
  OBVIOUS
<1>7. fs \in Outcomes
  BY DEF Outcomes
<1> HIDE DEF fs, e1, e2
<1>5. Epilogue(j, s) \in Seq(Writes) /\ Len(Epilogue(j, s)) = 4
      /\ Epilogue(j, s)[1] = Event(j, fs, TRUE) /\ Epilogue(j, s)[2] = Newline
      /\ Epilogue(j, s)[3] = e1 /\ Epilogue(j, s)[4] = e2
  <2>1. PICK a \in Seq(Writes), b \in Seq(Writes) :
          /\ Len(a) = 2 /\ a[1] = Event(j, fs, TRUE) /\ a[2] = Newline
          /\ Len(b) = 2 /\ b[1] = e1 /\ b[2] = e2
          /\ Epilogue(j, s) = a \o b
    BY <1>2, <1>3, <1>4
  <2>0. Len(a) = 2
    BY <2>1
  <2>2. /\ a \o b \in Seq(Writes) /\ Len(a \o b) = Len(b) + 2
        /\ (a \o b)[1] = a[1] /\ (a \o b)[2] = a[2]
        /\ \A p \in 1 .. Len(b) : (a \o b)[p + 2] = b[p]
    BY <2>0, PairOfPairs
  <2>3. (a \o b)[1 + 2] = b[1] /\ (a \o b)[2 + 2] = b[2]
    BY <2>1, <2>2
  <2>4. 1 + 2 = 3 /\ 2 + 2 = 4
    OBVIOUS
  <2> QED BY <2>1, <2>2, <2>3, <2>4
<1>6. ASSUME NEW p \in 1 .. 4 PROVE Epilogue(j, s)[p] = FromEnd(j, so, fs, 4 - p + 1)
  <2>1. FromEnd(j, so, fs, 4) = Event(j, fs, TRUE) /\ FromEnd(j, so, fs, 3) = Newline
        /\ FromEnd(j, so, fs, 2) = e1 /\ FromEnd(j, so, fs, 1) = e2
    BY <1>d DEF FromEnd
  <2>2. \/ p = 1 /\ 4 - p + 1 = 4
        \/ p = 2 /\ 4 - p + 1 = 3
        \/ p = 3 /\ 4 - p + 1 = 2
        \/ p = 4 /\ 4 - p + 1 = 1
    OBVIOUS
  <2> QED BY <1>5, <2>1, <2>2 DEF Newline
<1> QED BY <1>5, <1>6, <1>7 DEF Script

\* So does LocalRunner's own report before it.
LEMMA ReportShape ==
  ASSUME NEW j \in Job, NEW so \in Final, NEW s \in Final \cup {"raised"}
  PROVE  LET t == Say(j, so, FALSE) \o Epilogue(j, s)
         IN \E fs \in Outcomes : t \in Seq(Writes) /\ Script(j, so, fs, t, 6)
<1> DEFINE t == Say(j, so, FALSE) \o Epilogue(j, s)
           e == Epilogue(j, s)
<1>1. PICK fs \in Outcomes : e \in Seq(Writes) /\ Len(e) = 4 /\ Script(j, so, fs, e, 4)
  BY EpilogueShape DEF Script
<1>2. Say(j, so, FALSE) \in Seq(Writes) /\ Len(Say(j, so, FALSE)) = 2
      /\ Say(j, so, FALSE)[1] = Event(j, so, FALSE) /\ Say(j, so, FALSE)[2] = Newline
  <2>1. Event(j, so, FALSE) \in Writes /\ Newline \in Writes
    BY TokenKinds DEF Writes
  <2> QED BY <2>1, PairShape DEF Say
<1> HIDE DEF e
<1>3. t \in Seq(Writes) /\ Len(t) = 6 /\ t[1] = Event(j, so, FALSE) /\ t[2] = Newline
      /\ \A p \in 1 .. 4 : t[p + 2] = e[p]
  <2>1. PICK a \in Seq(Writes), f \in Seq(Writes) :
          /\ Len(a) = 2 /\ a[1] = Event(j, so, FALSE) /\ a[2] = Newline
          /\ Len(f) = 4 /\ f = e /\ t = a \o f
    BY <1>1, <1>2 DEF e
  <2> HIDE DEF t
  <2>2. Len(a) = 2
    BY <2>1
  <2>3. /\ a \o f \in Seq(Writes) /\ Len(a \o f) = Len(f) + 2
        /\ (a \o f)[1] = a[1] /\ (a \o f)[2] = a[2]
        /\ \A p \in 1 .. Len(f) : (a \o f)[p + 2] = f[p]
    BY <2>2, PairOfPairs
  <2>4. t \in Seq(Writes) /\ Len(t) = 6
    <3>1. t = a \o f /\ Len(f) = 4
      BY <2>1
    <3>2. a \o f \in Seq(Writes) /\ Len(a \o f) = Len(f) + 2
      BY <2>3
    <3>3. t \in Seq(Writes) /\ Len(t) = Len(f) + 2
      BY <3>1, <3>2
    <3> QED BY <3>1, <3>3
  <2>5. t[1] = Event(j, so, FALSE) /\ t[2] = Newline
    BY <2>1, <2>3
  <2>6. \A p \in 1 .. 4 : t[p + 2] = e[p]
    BY <2>1, <2>3
  <2> QED BY <2>4, <2>5, <2>6
<1> HIDE DEF t
<1>4. ASSUME NEW p \in 1 .. 6 PROVE t[p] = FromEnd(j, so, fs, 6 - p + 1)
  <2>1. FromEnd(j, so, fs, 6) = Event(j, so, FALSE) /\ FromEnd(j, so, fs, 5) = Newline
    BY DEF FromEnd
  <2>2. CASE p > 2
    <3>1. p - 2 \in 1 .. 4 /\ (p - 2) + 2 = p /\ 4 - (p - 2) + 1 = 6 - p + 1
      BY <2>2
    <3>2. e[p - 2] = FromEnd(j, so, fs, 4 - (p - 2) + 1)
      BY <1>1, <3>1 DEF Script
    <3> QED BY <1>3, <3>1, <3>2
  <2>3. \/ p = 1 /\ 6 - p + 1 = 6
        \/ p = 2 /\ 6 - p + 1 = 5
        \/ p > 2
    OBVIOUS
  <2> QED BY <1>3, <2>1, <2>2, <2>3
<1>5. Script(j, so, fs, t, 6)
  BY <1>3, <1>4 DEF Script
<1>6. \E g \in Outcomes : t \in Seq(Writes) /\ Script(j, so, g, t, 6)
  BY <1>1, <1>3, <1>5
<1> QED BY <1>6 DEF t

\* What an outcome queues: the event of LocalRunner, and the end.
Conclusion(j, s, last) ==
  (IF s = "raised" THEN <<>> ELSE Say(j, s, FALSE)) \o Epilogue(j, last)

\* It is such a script too.
LEMMA OutcomeShape ==
  ASSUME NEW j \in Job, NEW s \in Final \cup {"raised"}, NEW last \in {s, "raised"}
  PROVE  /\ Conclusion(j, s, last) \in Seq(Writes)
         /\ \E so \in Final, fs \in Outcomes, n \in {4, 6} :
              Script(j, so, fs, Conclusion(j, s, last), n)
<1>0. last \in Final \cup {"raised"}
  OBVIOUS
<1>1. CASE s = "raised"
  <2> DEFINE e == Epilogue(j, last)
  <2>1. PICK fs \in Outcomes : e \in Seq(Writes) /\ Script(j, "done", fs, e, 4)
    BY <1>0, EpilogueShape DEF Final
  <2>2. <<>> \o e = e
    BY <2>1, ConcatEmptySeq
  <2> HIDE DEF e
  <2>3. "done" \in Final
    BY DEF Final
  <2>4. Conclusion(j, s, last) = e
    BY <1>1, <2>2 DEF Conclusion, e
  <2> QED BY <2>1, <2>3, <2>4
<1>2. CASE s # "raised"
  <2>1. s \in Final
    BY <1>2
  <2>2. Conclusion(j, s, last) = Say(j, s, FALSE) \o Epilogue(j, last)
    BY <1>2 DEF Conclusion
  <2> QED BY <1>0, <2>1, <2>2, ReportShape
<1> QED BY <1>1, <1>2

\* A write takes the first of what is queued, and leaves a script.
LEMMA ScriptShrinks ==
  ASSUME NEW j \in Job, NEW t \in Seq(Writes), t # <<>>, NEW so, NEW fs, NEW n \in 0 .. 6,
         Script(j, so, fs, t, n)
  PROVE  n \in 1 .. 6 /\ Script(j, so, fs, Tail(t), n - 1) /\ Head(t) = FromEnd(j, so, fs, n)
<1>1. Len(t) = n /\ n # 0 /\ n - 1 \in Nat
  BY EmptySeq DEF Script
<1>2. Len(Tail(t)) = n - 1 /\ Head(t) = t[1]
      /\ \A i \in 1 .. n - 1 : Tail(t)[i] = t[i + 1]
  BY <1>1, HeadTailProperties
<1>3. ASSUME NEW p \in 1 .. n - 1 PROVE Tail(t)[p] = FromEnd(j, so, fs, n - 1 - p + 1)
  <2>1. p + 1 \in 1 .. n /\ n - 1 - p + 1 = n - (p + 1) + 1
    BY <1>1
  <2> QED BY <1>2, <2>1 DEF Script
<1>4. t[1] = FromEnd(j, so, fs, n - 1 + 1) /\ n - 1 + 1 = n
  BY <1>1 DEF Script
<1> QED BY <1>1, <1>2, <1>3, <1>4 DEF Script

-----------------------------------------------------------------------------
(* Types *)

\* Every step keeps the shape of a state.
LEMMA Shapes == Spec => []Shaped
<1>1. Init => Shaped
  <2> SUFFICES ASSUME Init PROVE Shaped
    OBVIOUS
  <2>1. <<>> \in Seq(Tokens) /\ <<>> \in Seq(Writes) /\ Len(<<>>) = 0
    OBVIOUS
  <2>2. todo = [j \in Job |-> <<>>] /\ \A j \in Job : todo[j] = <<>>
    BY DEF Init
  <2>3. todo \in [Job -> Seq(Writes)] /\ \A j \in Job : todo[j] \in Seq(Tokens \cup StatusWrites)
    BY <2>1, <2>2 DEF Writes
  <2>4. pc \in RolePoints /\ job \in 1 .. Jobs + 1 /\ (pc # "end" => job \in Job)
    BY JobsAssumption DEF Init, RolePoints, Job
  <2>5. stream \in Seq(Tokens) /\ offset \in 0 .. Len(stream) /\ base \in 0 .. offset
        /\ relayed \subseteq 1 .. offset
    BY <2>1 DEF Init
  <2> QED
    BY <2>3, <2>4, <2>5 DEF Init, Shaped, TypeOK, Reasons, Phases, NoStatus
<1>2. Shaped /\ [Next]_vars => Shaped'
  <2> SUFFICES ASSUME Shaped, [Next]_vars PROVE Shaped'
    OBVIOUS
  <2>0. /\ Jobs \in Nat /\ Job = 1 .. Jobs /\ Len(stream) \in Nat
        /\ offset \in 0 .. Len(stream) /\ offset \in Nat /\ base \in 0 .. offset
        /\ stream \in Seq(Tokens) /\ job \in 1 .. Jobs + 1 /\ job \in Nat
        /\ todo \in [Job -> Seq(Writes)] /\ \A q \in Job : todo[q] \in Seq(Tokens \cup StatusWrites)
    BY JobsAssumption DEF Shaped, TypeOK, Job, Writes
  <2>m. /\ <<>> \in Seq(Writes)
        /\ \A j \in Job, v \in Seq(Writes) : [todo EXCEPT ![j] = v] \in [Job -> Seq(Writes)]
        /\ \A j \in Job, v \in Phases : [proc EXCEPT ![j] = v] \in [Job -> Phases]
    BY <2>0 DEF Shaped, TypeOK
  <2> USE DEF Shaped, TypeOK, roleSide, files, runners, Writes
  <2>1. CASE Start
    BY <2>1, <2>0 DEF Start, RolePoints
  <2>2. CASE Clean
    BY <2>2, <2>0 DEF Clean, RolePoints, NoStatus, Reasons
  <2>3. CASE Launch
    BY <2>3, <2>0 DEF Launch, RolePoints, Phases
  <2>4. CASE WaitPid
    BY <2>4, <2>0 DEF WaitPid, Step, RolePoints
  <2>5. CASE Look
    BY <2>5, <2>0 DEF Look, Step, RolePoints
  <2>6. CASE LookAtProcess
    BY <2>6, <2>0 DEF LookAtProcess, RolePoints, Reasons, Alive
  <2>7. CASE Decide
    BY <2>7, <2>0 DEF Decide, RolePoints, Reasons, Alive
  <2>8. CASE ReadStream
    <3>1. NewOffset \in offset .. Len(stream) /\ Lines \subseteq 1 .. NewOffset
      BY <2>0, OffsetMoves, LinesBelow
    <3> QED BY <2>8, <2>0, <3>1 DEF ReadStream, RolePoints, Reasons
  <2>9. CASE Settle
    <3>1. todo' \in [Job -> Seq(Writes)] /\ proc' \in [Job -> Phases] /\ told' \subseteq Job
      <4>1. pid # Nobody => pid \in Job
        BY <2>0
      <4>2. "dead" \in Phases
        BY DEF Phases
      <4> HIDE DEF Writes
      <4>3. told \subseteq Job /\ proc \in [Job -> Phases]
        OBVIOUS
      <4>4. \/ UNCHANGED runners
            \/ pid # Nobody /\ told' = told \cup {pid} /\ UNCHANGED <<proc, todo>>
            \/ pid # Nobody /\ proc' = [proc EXCEPT ![pid] = "dead"]
               /\ todo' = [todo EXCEPT ![pid] = <<>>] /\ UNCHANGED told
        BY <2>9 DEF Settle
      <4> HIDE DEF Shaped, TypeOK
      <4>5. CASE UNCHANGED runners
        BY <2>0, <4>3, <4>5
      <4>6. CASE pid # Nobody /\ told' = told \cup {pid} /\ UNCHANGED <<proc, todo>>
        BY <2>0, <4>1, <4>3, <4>6
      <4>7. CASE /\ pid # Nobody /\ proc' = [proc EXCEPT ![pid] = "dead"]
                 /\ todo' = [todo EXCEPT ![pid] = <<>>] /\ UNCHANGED told
        BY <2>0, <2>m, <4>1, <4>2, <4>3, <4>7
      <4> QED BY <4>4, <4>5, <4>6, <4>7
    <3> QED BY <2>9, <2>0, <3>1 DEF Settle, Step, RolePoints
  <2>10. CASE Load
    BY <2>10, <2>0 DEF Load, Step, RolePoints
  <2>11. CASE Collect
    <3>1. job \in Job
      BY <2>11 DEF Collect
    <3>2. reported' \in [Job -> {"none", "running", "done", "failed"}]
      BY <2>11, <3>1 DEF Collect, Step
    <3>3. pc' \in RolePoints /\ job' \in 1 .. Jobs + 1 /\ (pc' # "end" => job' \in Job)
      BY <2>11, <2>0, <3>1 DEF Collect, Step, GoTo, RolePoints
    <3> QED BY <2>11, <2>0, <3>2, <3>3 DEF Collect, Step
  <2>12. CASE Rescue
    BY <2>12, <2>0 DEF Rescue, RolePoints
  <2>13. CASE StopPlaybook
    BY <2>13, <2>0 DEF StopPlaybook, Step, RolePoints
  <2>14. CASE NextPlay
    <3>1. job' \in 1 .. Jobs + 1 /\ pc' = IF job' > Jobs THEN "end" ELSE "start"
      BY <2>14, <2>0, NextJobIsFirst DEF NextPlay, GoTo, NextJob, LaterPlays
    <3> QED BY <2>14, <2>0, <3>1 DEF NextPlay, RolePoints
  <2>15. CASE TimePasses
    BY <2>15, <2>0 DEF TimePasses, RolePoints
  <2>16. CASE LoseHost
    <3>1. pc' \in RolePoints /\ job \in Job
      BY <2>16 DEF LoseHost, Step, RolePoints, Active
    <3> QED BY <2>16, <2>0, <3>1 DEF LoseHost, Step
  <2>17. CASE KillPlay
    <3>1. pc' \in RolePoints /\ job \in Job
      BY <2>17 DEF KillPlay, Step, RolePoints, Active
    <3> QED BY <2>17, <2>0, <3>1 DEF KillPlay, Step
  <2>18. CASE TouchStop
    BY <2>18, <2>0 DEF TouchStop, RolePoints
  <2>19. ASSUME NEW j \in Job, Fork(j) PROVE Shaped'
    BY <2>19, <2>0 DEF Fork, Phases
  <2>20. ASSUME NEW j \in Job, SeeStop(j) PROVE Shaped'
    BY <2>20, <2>0 DEF SeeStop
  <2>21. ASSUME NEW j \in Job, Begin(j) PROVE Shaped'
    <3>1. todo'[j] \in Seq(Writes) /\ todo' = [todo EXCEPT ![j] = todo'[j]]
      <4>1. Say(j, "running", FALSE) \in Seq(Writes)
        <5>1. Event(j, "running", FALSE) \in Writes /\ Newline \in Writes
          BY TokenKinds
        <5> QED BY <5>1, PairShape DEF Say
      <4>2. Say(j, "stopped", FALSE) \o Epilogue(j, "stopped") \in Seq(Writes)
        BY ReportShape DEF Final
      <4>3. Epilogue(j, "raised") \in Seq(Writes)
        BY EpilogueShape DEF Final
      <4> HIDE DEF Writes
      <4> QED BY <2>21, <2>0, <4>1, <4>2, <4>3 DEF Begin
    <3>2. proc' \in [Job -> Phases]
      BY <2>21, <2>m DEF Begin, Phases
    <3>3. todo' \in [Job -> Seq(Writes)]
      BY <2>0, <2>m, <3>1
    <3> QED BY <2>21, <2>0, <3>2, <3>3 DEF Begin
  <2>22. ASSUME NEW j \in Job, Write(j) PROVE Shaped'
    <3>1. /\ Head(todo[j]) \in Writes /\ Tail(todo[j]) \in Seq(Writes)
      BY <2>22, <2>0, HeadTailProperties DEF Write
    <3>2. todo' \in [Job -> Seq(Writes)]
      BY <2>22, <2>0, <2>m, <3>1 DEF Write
    <3>3. CASE Head(todo[j]) \in Tokens
      <4>1. stream' \in Seq(Tokens) /\ Len(stream') = Len(stream) + 1
        <5>1. stream' = Append(stream, Head(todo[j]))
          BY <2>22, <3>3 DEF Write
        <5> HIDE DEF Writes
        <5> QED BY <2>0, <3>3, <5>1, AppendProperties
      <4> QED BY <2>22, <2>0, <3>2, <3>3, <4>1, SMTT(60) DEF Write
    <3>4. CASE Head(todo[j]) \notin Tokens
      <4>1. Head(todo[j]).status \in {"empty", "0", "1"}
        BY <3>1, <3>4, TokenKinds
      <4> QED BY <2>22, <2>0, <3>2, <3>4, <4>1, SMTT(60) DEF Write
    <3> QED BY <3>3, <3>4
  <2>23. ASSUME NEW j \in Job, Exit(j) PROVE Shaped'
    BY <2>23, <2>0 DEF Exit, Phases
  <2>24. ASSUME NEW j \in Job, Crash(j) PROVE Shaped'
    <3>1. todo' \in [Job -> Seq(Writes)] /\ proc' \in [Job -> Phases]
      BY <2>24, <2>0, <2>m DEF Crash, Phases
    <3> QED BY <2>24, <2>0, <3>1 DEF Crash
  <2>25. ASSUME NEW j \in Job, NEW s \in Final \cup {"raised"}, Outcome(j, s) PROVE Shaped'
    <3>1. \E last \in {s, "raised"} : todo' = [todo EXCEPT ![j] = Conclusion(j, s, last)]
      BY <2>25 DEF Outcome, Conclusion
    <3>2. todo' \in [Job -> Seq(Writes)]
      <4> HIDE DEF Writes
      <4>1. PICK last \in {s, "raised"} : todo' = [todo EXCEPT ![j] = Conclusion(j, s, last)]
        BY <3>1
      <4>2. Conclusion(j, s, last) \in Seq(Writes)
        BY OutcomeShape
      <4> QED BY <2>m, <4>1, <4>2
    <3>3. proc' \in [Job -> Phases]
      BY <2>25, <2>m DEF Outcome, Phases
    <3> QED BY <2>25, <2>0, <3>2, <3>3 DEF Outcome
  <2>26. CASE UNCHANGED vars
    BY <2>26, <2>0 DEF vars
<2> QED BY <2>1, <2>2, <2>3, <2>4, <2>5, <2>6, <2>7, <2>8, <2>9, <2>10, <2>11, <2>12, <2>13,
       <2>14, <2>15, <2>16, <2>17, <2>18, <2>19, <2>20, <2>21, <2>22, <2>23, <2>24, <2>25,
       <2>26 DEF Next, Role, Runner, Over
<1> QED BY <1>1, <1>2, PTL DEF Spec

\* TypeOK holds of every run, and a runner queues nothing but tokens and writes
\* of the status (async_localrunner.py).
THEOREM Typing == Spec => []TypeOK
BY Shapes, PTL DEF Shaped

-----------------------------------------------------------------------------
(* What a step can do *)

\* No repetition is at hand, or the judgement has already gone against it.
Away == {"start", "rescue", "stopping", "leave", "end"}

Judging == {"wait_pid", "poll", "poll_alive", "poll_decide", "poll_read", "settle", "load",
            "collect"}

\* The role goes on with its tasks, and touches neither files nor runners.
Moves ==
  /\ UNCHANGED <<stream, status, pid, proc, todo, base, crowded>>
  /\ \/ pc' \in Away
     \/ pc' = pc /\ job' = job
     \/ pc \in Judging /\ pc' \in Judging /\ job' = job
  /\ pc' = "collect" => pc = "collect" \/ status.rc = "0"

\* A step belongs to the role, most of whose tasks only move it, or to a runner.
LEMMA StepKinds ==
  [Next]_vars => Start \/ Clean \/ Launch \/ Settle \/ Moves \/ \E j \in Job : Runner(j)
<1> DEFINE Kind == Start \/ Clean \/ Launch \/ Settle \/ Moves \/ \E j \in Job : Runner(j)
<1> SUFFICES ASSUME [Next]_vars PROVE Kind
  OBVIOUS
<1> USE DEF roleSide, files, runners, Away, Judging
<1>1. CASE Start
  BY <1>1 DEF Start
<1>2. CASE Clean
  BY <1>2 DEF Clean
<1>3. CASE Launch
  BY <1>3 DEF Launch
<1>4. CASE WaitPid
  BY <1>4 DEF WaitPid, Step, Moves
<1>5. CASE Look
  BY <1>5 DEF Look, Step, Moves
<1>6. CASE LookAtProcess
  BY <1>6 DEF LookAtProcess, Moves
<1>7. CASE Decide
  BY <1>7 DEF Decide, Moves
<1>8. CASE ReadStream
  BY <1>8 DEF ReadStream, Moves
<1>9. CASE Settle
  BY <1>9 DEF Settle, Step
<1>10. CASE Load
  BY <1>10 DEF Load, Step, Moves
<1>11. CASE Collect
  BY <1>11 DEF Collect, Step, GoTo, Moves
<1>12. CASE Rescue
  BY <1>12 DEF Rescue, Moves
<1>13. CASE StopPlaybook
  BY <1>13 DEF StopPlaybook, Step, Moves
<1>14. CASE NextPlay
  BY <1>14 DEF NextPlay, GoTo, Moves
<1>15. CASE TimePasses
  BY <1>15 DEF TimePasses, Moves
<1>16. CASE LoseHost
  BY <1>16 DEF LoseHost, Step, Moves, Active
<1>17. CASE KillPlay
  BY <1>17 DEF KillPlay, Step, Moves, Active
<1>18. CASE TouchStop
  BY <1>18 DEF TouchStop, Moves, Active
<1>19. CASE UNCHANGED vars
  BY <1>19 DEF vars, Moves
<1> QED BY <1>1, <1>2, <1>3, <1>4, <1>5, <1>6, <1>7, <1>8, <1>9, <1>10, <1>11, <1>12, <1>13,
     <1>14, <1>15, <1>16, <1>17, <1>18, <1>19 DEF Next, Role, Over

\* A runner's step is that of a live process, and leaves the role and the other
\* runners alone; only a write reaches the stream and the status file.
LEMMA RunnerStep ==
  ASSUME NEW j \in Job, Runner(j), proc \in [Job -> Phases], todo \in [Job -> Seq(Writes)]
  PROVE  /\ Alive(j) /\ UNCHANGED roleSide
         /\ \A k \in Job : k # j => proc'[k] = proc[k] /\ todo'[k] = todo[k]
         /\ pid' = pid \/ (pid' = j /\ proc[j] = "forked")
         /\ Write(j) \/ UNCHANGED <<stream, status>>
<1> USE DEF files, runners, Alive
<1>1. CASE Fork(j)
  BY <1>1 DEF Fork
<1>2. CASE SeeStop(j)
  <2>1. UNCHANGED <<roleSide, stream, files, proc, todo>> /\ Alive(j)
    BY <1>2 DEF SeeStop
  <2> QED BY <2>1
<1>3. CASE Begin(j)
  BY <1>3 DEF Begin
<1>4. CASE Write(j)
  BY <1>4 DEF Write
<1>5. CASE Exit(j)
  BY <1>5 DEF Exit
<1>6. CASE Crash(j)
  BY <1>6 DEF Crash
<1>7. ASSUME NEW s \in Final \cup {"raised"}, Outcome(j, s)
      PROVE  /\ Alive(j) /\ UNCHANGED <<roleSide, files, stream>>
             /\ \A k \in Job : k # j => proc'[k] = proc[k] /\ todo'[k] = todo[k]
  BY <1>7 DEF Outcome
<1> QED BY <1>1, <1>2, <1>3, <1>4, <1>5, <1>6, <1>7 DEF Runner

\* A write takes the first of what the runner has queued.
LEMMA WriteStep ==
  ASSUME Shaped, NEW j \in Job, Write(j)
  PROVE  /\ proc[j] \in {"working", "ending"} /\ proc' = proc /\ todo[j] # <<>>
         /\ todo' = [todo EXCEPT ![j] = Tail(todo[j])] /\ UNCHANGED <<roleSide, pid>>
         /\ \/ /\ Head(todo[j]) \in Tokens /\ stream' = Append(stream, Head(todo[j]))
               /\ Len(stream') = Len(stream) + 1 /\ stream'[Len(stream) + 1] = Head(todo[j])
               /\ UNCHANGED status
            \/ /\ Head(todo[j]) \in StatusWrites /\ UNCHANGED stream
               /\ status'.rc = Head(todo[j]).status /\ status'.rc \in {"empty", "0", "1"}
<1>1. todo[j] \in Seq(Writes) /\ todo[j] # <<>> /\ Head(todo[j]) \in Writes /\ stream \in Seq(Tokens)
  BY HeadTailProperties DEF Shaped, TypeOK, Write
<1>2. CASE Head(todo[j]) \in Tokens
  <2>1. stream' = Append(stream, Head(todo[j])) /\ UNCHANGED status
    BY <1>2 DEF Write
  <2>2. Len(stream') = Len(stream) + 1 /\ stream'[Len(stream) + 1] = Head(todo[j])
    BY <1>1, <1>2, <2>1, AppendProperties
  <2> QED BY <1>1, <1>2, <2>1, <2>2 DEF Write
<1>3. CASE Head(todo[j]) \notin Tokens
  <2>1. Head(todo[j]) \in StatusWrites /\ Head(todo[j]).status \in {"empty", "0", "1"}
    BY <1>1, <1>3, TokenKinds DEF Writes
  <2> QED BY <1>1, <1>3, <2>1 DEF Write
<1> QED BY <1>2, <1>3

\* The stream only ever grows.
LEMMA StreamGrows ==
  ASSUME Shaped, [Next]_vars
  PROVE  /\ Len(stream) \in Nat /\ Len(stream') \in Nat /\ Len(stream') >= Len(stream)
         /\ \A i \in 1 .. Len(stream) : stream'[i] = stream[i]
<1>1. stream \in Seq(Tokens) /\ Len(stream) \in Nat
  BY DEF Shaped, TypeOK
<1>2. CASE UNCHANGED stream
  BY <1>1, <1>2
<1>3. ASSUME NEW j \in Job, Write(j)
      PROVE  /\ Len(stream') \in Nat /\ Len(stream') >= Len(stream)
             /\ \A i \in 1 .. Len(stream) : stream'[i] = stream[i]
  <2>1. CASE Head(todo[j]) \in Tokens
    <3>1. stream' = Append(stream, Head(todo[j])) /\ Len(stream') = Len(stream) + 1
      BY <1>3, <2>1, WriteStep, TokenKinds
    <3> QED BY <1>1, <2>1, <3>1, AppendProperties
  <2>2. CASE Head(todo[j]) \notin Tokens
    BY <1>1, <1>3, <2>2, WriteStep
  <2> QED BY <2>1, <2>2
<1>4. UNCHANGED stream \/ \E j \in Job : Write(j)
  BY StepKinds, RunnerStep DEF Start, Clean, Launch, Settle, Moves, Shaped, TypeOK
<1> QED BY <1>1, <1>2, <1>3, <1>4

-----------------------------------------------------------------------------
(* The relay *)

\* The offset only passes lines that have been relayed, wherever the stream ends
\* when it is read: the next read starts where the last newline was
\* (stream_events_step.yml).
THEOREM NothingIsSkipped == Spec => []NothingSkipped
<1>1. Init => NothingSkipped
  BY DEF Init, NothingSkipped
<1>2. Shaped /\ NothingSkipped /\ [Next]_vars => NothingSkipped'
  <2> SUFFICES ASSUME Shaped, NothingSkipped, [Next]_vars PROVE NothingSkipped'
    OBVIOUS
  <2>0. stream \in Seq(Tokens) /\ offset \in 0 .. Len(stream) /\ base \in 0 .. offset
        /\ Len(stream) \in Nat
    BY DEF Shaped, TypeOK
  <2>1. CASE Start
    <3>1. base' = Len(stream) /\ offset' = Len(stream)
      BY <2>1 DEF Start
    <3>2. base' + 1 .. offset' = {}
      BY <2>0, <3>1
    <3> QED BY <3>2 DEF NothingSkipped
  <2>2. CASE ReadStream
    <3> SUFFICES ASSUME NEW i \in base + 1 .. NewOffset, stream[i] # Newline,
                        i = base + 1 \/ stream[i - 1] = Newline
                 PROVE  i \in relayed \cup Lines
      BY <2>2 DEF ReadStream, NothingSkipped
    <3>1. CASE i <= offset
      BY <2>0, <3>1 DEF NothingSkipped
    <3>2. CASE i > offset
      <4>1. i \in offset + 1 .. NewOffset /\ LineStart(i)
        BY <2>0, <3>2, OffsetMoves DEF LineStart
      <4> QED BY <2>0, <4>1, LinesBelow
    <3> QED BY <2>0, <3>1, <3>2, OffsetMoves
  <2>3. CASE UNCHANGED <<offset, base, relayed>>
    <3> SUFFICES ASSUME NEW i \in base + 1 .. offset, stream'[i] # Newline,
                        i = base + 1 \/ stream'[i - 1] = Newline
                 PROVE  i \in relayed
      BY <2>3 DEF NothingSkipped
    <3>1. i \in 1 .. Len(stream) /\ (i # base + 1 => i - 1 \in 1 .. Len(stream))
      BY <2>0
    <3>2. stream'[i] = stream[i] /\ (i # base + 1 => stream'[i - 1] = stream[i - 1])
      BY <3>1, StreamGrows
    <3> QED BY <3>2 DEF NothingSkipped
  <2>4. Start \/ ReadStream \/ UNCHANGED <<offset, base, relayed>>
    <3>1. CASE Start
      BY <3>1 DEF Start, roleSide
    <3>2. CASE Clean
      BY <3>2 DEF Clean, roleSide
    <3>3. CASE Launch
      BY <3>3 DEF Launch, roleSide
    <3>4. CASE WaitPid
      BY <3>4 DEF WaitPid, Step, roleSide
    <3>5. CASE Look
      BY <3>5 DEF Look, Step, roleSide
    <3>6. CASE LookAtProcess
      BY <3>6 DEF LookAtProcess, roleSide
    <3>7. CASE Decide
      BY <3>7 DEF Decide, roleSide
    <3>8. CASE ReadStream
      BY <3>8 DEF ReadStream, roleSide
    <3>9. CASE Settle
      BY <3>9 DEF Settle, Step, roleSide
    <3>10. CASE Load
      BY <3>10 DEF Load, Step, roleSide
    <3>11. CASE Collect
      BY <3>11 DEF Collect, Step, GoTo, roleSide
    <3>12. CASE Rescue
      BY <3>12 DEF Rescue, roleSide
    <3>13. CASE StopPlaybook
      BY <3>13 DEF StopPlaybook, Step, roleSide
    <3>14. CASE NextPlay
      BY <3>14 DEF NextPlay, GoTo, roleSide
    <3>15. CASE TimePasses
      BY <3>15 DEF TimePasses, roleSide
    <3>16. CASE LoseHost
      BY <3>16 DEF LoseHost, Step, roleSide
    <3>17. CASE KillPlay
      BY <3>17 DEF KillPlay, Step, roleSide
    <3>18. CASE TouchStop
      BY <3>18 DEF TouchStop, roleSide
    <3>19. ASSUME NEW j \in Job, Fork(j)
           PROVE  Start \/ ReadStream \/ UNCHANGED <<offset, base, relayed>>
      BY <3>19 DEF Fork, roleSide
    <3>20. ASSUME NEW j \in Job, SeeStop(j)
           PROVE  Start \/ ReadStream \/ UNCHANGED <<offset, base, relayed>>
      BY <3>20 DEF SeeStop, roleSide
    <3>21. ASSUME NEW j \in Job, Begin(j)
           PROVE  Start \/ ReadStream \/ UNCHANGED <<offset, base, relayed>>
      BY <3>21 DEF Begin, roleSide
    <3>22. ASSUME NEW j \in Job, Write(j)
           PROVE  Start \/ ReadStream \/ UNCHANGED <<offset, base, relayed>>
      BY <3>22 DEF Write, roleSide
    <3>23. ASSUME NEW j \in Job, Exit(j)
           PROVE  Start \/ ReadStream \/ UNCHANGED <<offset, base, relayed>>
      BY <3>23 DEF Exit, roleSide
    <3>24. ASSUME NEW j \in Job, Crash(j)
           PROVE  Start \/ ReadStream \/ UNCHANGED <<offset, base, relayed>>
      BY <3>24 DEF Crash, roleSide
    <3>25. ASSUME NEW j \in Job, NEW s \in Final \cup {"raised"}, Outcome(j, s)
           PROVE  Start \/ ReadStream \/ UNCHANGED <<offset, base, relayed>>
      BY <3>25 DEF Outcome, roleSide
    <3>26. CASE UNCHANGED vars
      BY <3>26 DEF vars, roleSide
<3> QED BY <3>1, <3>2, <3>3, <3>4, <3>5, <3>6, <3>7, <3>8, <3>9, <3>10, <3>11, <3>12, <3>13,
         <3>14, <3>15, <3>16, <3>17, <3>18, <3>19, <3>20, <3>21, <3>22, <3>23, <3>24, <3>25,
         <3>26 DEF Next, Role, Runner, Over
  <2> QED BY <2>1, <2>2, <2>3, <2>4
<1> QED BY <1>1, <1>2, Shapes, PTL DEF Spec

-----------------------------------------------------------------------------
(* The course of a play *)

\* What comes after the repetition at hand has not begun, and a repetition that
\* failed is the last its play has tried.
PlayInv ==
  /\ \A k \in Job : k > job \/ (k = job /\ pc \in {"start", "clean", "launch"}) => proc[k] = "none"
  /\ \A k \in Job : k > job => reported[k] = "none"
  /\ Active /\ pc # "start" => reported[job] = "running"
  /\ Active => \A j \in Job : j < job /\ PlayOf[j] = PlayOf[job] => reported[j] # "failed"

\* A pass of the poll finds the status file again before it reads.
LookInv ==
  /\ pc \in {"launch", "wait_pid", "poll", "poll_alive", "poll_decide"} => looked # "status"
  /\ pc = "poll_read" /\ looked = "status" => status.rc # "absent"

\* Both are kept by every step.
LEMMA PlayInvariant == Spec => [](PlayInv /\ LookInv)
<1>1. Init => PlayInv /\ LookInv
  <2> SUFFICES ASSUME Init PROVE PlayInv /\ LookInv
    OBVIOUS
  <2>1. \A k \in Job : proc[k] = "none" /\ reported[k] = "none"
    BY DEF Init
  <2>2. job = 1 /\ looked = "none" /\ (pc = "start" \/ pc = "end")
    BY DEF Init
  <2>3. \A k \in Job : ~(k < 1)
    BY JobsAssumption DEF Job
  <2>4. PlayInv
    BY <2>1, <2>2, <2>3 DEF PlayInv, Active
  <2>5. LookInv
    BY <2>2 DEF LookInv
  <2> QED BY <2>4, <2>5
<1>2. Shaped /\ PlayInv /\ LookInv /\ [Next]_vars => (PlayInv /\ LookInv)'
  <2> SUFFICES ASSUME Shaped, PlayInv, LookInv, [Next]_vars PROVE (PlayInv /\ LookInv)'
    OBVIOUS
  <2>0. /\ Jobs \in Nat /\ Job = 1 .. Jobs /\ job \in 1 .. Jobs + 1 /\ (pc # "end" => job \in Job)
        /\ proc \in [Job -> Phases] /\ reported \in [Job -> {"none", "running", "done", "failed"}]
        /\ looked \in Reasons
    BY JobsAssumption DEF Shaped, TypeOK, Job
  <2> USE DEF PlayInv, LookInv, roleSide, files, runners, Active
  <2>1. CASE Start
    BY <2>1, <2>0 DEF Start
  <2>2. CASE Clean
    BY <2>2, <2>0 DEF Clean
  <2>3. CASE Launch
    BY <2>3, <2>0 DEF Launch
  <2>4. CASE WaitPid
    BY <2>4, <2>0 DEF WaitPid, Step
  <2>5. CASE Look
    BY <2>5, <2>0 DEF Look, Step
  <2>6. CASE LookAtProcess
    BY <2>6, <2>0 DEF LookAtProcess
  <2>7. CASE Decide
    BY <2>7, <2>0 DEF Decide, Reasons
  <2>8. CASE ReadStream
    BY <2>8, <2>0 DEF ReadStream
  <2>9. CASE Settle
    <3>1. \A k \in Job : proc[k] = "none" => proc'[k] = "none"
      <4>1. \/ UNCHANGED proc
            \/ proc[pid] # "none" /\ proc' = [proc EXCEPT ![pid] = "dead"]
        BY <2>9 DEF Settle, Alive
      <4> QED BY <2>0, <4>1
    <3>2. pc = "settle" /\ pc' = "load" /\ UNCHANGED <<job, reported, looked, status>>
      BY <2>9 DEF Settle, Step
    <3> QED BY <2>0, <3>1, <3>2
  <2>10. CASE Load
    BY <2>10, <2>0 DEF Load, Step
  <2>11. CASE Collect
    <3>1. CASE Step("rescue") /\ UNCHANGED <<stream, files, runners>>
      BY <2>11, <2>0, <3>1 DEF Step, Collect
    <3>2. CASE /\ reported' = [reported EXCEPT ![job] = "done"] /\ GoTo(job + 1)
               /\ UNCHANGED <<looked, status, proc>>
      <4>1. job \in Job /\ job' = job + 1 /\ pc' \in {"start", "end"} /\ pc = "collect"
        BY <2>11, <2>0, <3>2 DEF Collect, GoTo
      <4>2. ASSUME NEW j \in Job, j < job + 1, PlayOf[j] = PlayOf[job + 1], job + 1 \in Job
            PROVE  reported'[j] # "failed"
        <5>1. CASE j = job
          BY <2>0, <3>2, <5>1
        <5>2. CASE j # job
          <6>1. PlayOf[j] <= PlayOf[job] /\ PlayOf[job] <= PlayOf[job + 1]
                /\ PlayOf[j] \in Nat /\ PlayOf[job] \in Nat /\ PlayOf[job + 1] \in Nat
            BY <2>0, <4>1, <4>2, <5>2, PlayAssumption
          <6>2. j < job /\ PlayOf[j] = PlayOf[job]
            BY <2>0, <4>1, <4>2, <5>2, <6>1
          <6> QED BY <2>0, <3>2, <4>1, <5>2, <6>2
        <5> QED BY <5>1, <5>2
      <4>3. pc' # "end" => job + 1 \in Job
        BY <2>0, <3>2, <4>1 DEF GoTo
      <4>4. \A k \in Job : k > job' => reported'[k] = "none" /\ proc'[k] = "none"
        BY <2>0, <3>2, <4>1
      <4>5. \A k \in Job : k = job' => proc'[k] = "none"
        BY <2>0, <3>2, <4>1
      <4> QED BY <3>2, <4>1, <4>2, <4>3, <4>4, <4>5
    <3> QED BY <2>11, <3>1, <3>2 DEF Collect
  <2>12. CASE Rescue
    BY <2>12, <2>0 DEF Rescue
  <2>13. CASE StopPlaybook
    BY <2>13, <2>0 DEF StopPlaybook, Step
  <2>14. CASE NextPlay
    <3>1. CASE LaterPlays = {}
      <4>1. job' = Jobs + 1 /\ pc' = "end"
        BY <2>14, <2>0, <3>1 DEF NextPlay, GoTo
      <4> QED BY <2>14, <2>0, <4>1 DEF NextPlay
    <3>2. CASE LaterPlays # {}
      <4>1. NextJob \in LaterPlays /\ \A i \in LaterPlays : NextJob <= i
        BY <3>2, NextJobIsFirst
      <4>2. NextJob \in Job /\ NextJob > job /\ PlayOf[NextJob] # PlayOf[job] /\ job \in Job
        BY <2>14, <2>0, <4>1 DEF LaterPlays, NextPlay
      <4>3. job' = NextJob /\ pc' = "start" /\ UNCHANGED <<proc, reported, looked, status>>
        BY <2>14, <2>0, <3>2, <4>2 DEF NextPlay, GoTo, NextJob
      <4>4. ASSUME NEW j \in Job, j < NextJob, PlayOf[j] = PlayOf[NextJob] PROVE FALSE
        <5>1. CASE j > job
          BY <2>0, <4>1, <4>2, <4>4, <5>1 DEF LaterPlays
        <5>2. CASE j <= job
          <6>1. PlayOf[j] <= PlayOf[job] /\ PlayOf[job] <= PlayOf[NextJob]
                /\ PlayOf[j] \in Nat /\ PlayOf[job] \in Nat
            BY <2>0, <4>2, <5>2, PlayAssumption
          <6> QED BY <4>2, <4>4, <6>1, PlayAssumption
        <5> QED BY <2>0, <5>1, <5>2
      <4> QED BY <2>0, <4>2, <4>3, <4>4
    <3> QED BY <3>1, <3>2
  <2>15. CASE TimePasses
    BY <2>15, <2>0 DEF TimePasses
  <2>16. CASE LoseHost
    BY <2>16, <2>0 DEF LoseHost, Step
  <2>17. CASE KillPlay
    BY <2>17, <2>0 DEF KillPlay, Step
  <2>18. CASE TouchStop
    BY <2>18, <2>0 DEF TouchStop
  <2>19. ASSUME NEW j \in Job, Fork(j) PROVE (PlayInv /\ LookInv)'
    BY <2>19, <2>0 DEF Fork, Alive
  <2>20. ASSUME NEW j \in Job, SeeStop(j) PROVE (PlayInv /\ LookInv)'
    BY <2>20, <2>0 DEF SeeStop
  <2>21. ASSUME NEW j \in Job, Begin(j) PROVE (PlayInv /\ LookInv)'
    BY <2>21, <2>0 DEF Begin
  <2>22. ASSUME NEW j \in Job, Write(j) PROVE (PlayInv /\ LookInv)'
    <3>1. status'.rc # "absent" \/ UNCHANGED status
      BY <2>22, WriteStep
    <3> QED BY <2>22, <2>0, <3>1 DEF Write
  <2>23. ASSUME NEW j \in Job, Exit(j) PROVE (PlayInv /\ LookInv)'
    BY <2>23, <2>0 DEF Exit
  <2>24. ASSUME NEW j \in Job, Crash(j) PROVE (PlayInv /\ LookInv)'
    BY <2>24, <2>0 DEF Crash, Alive
  <2>25. ASSUME NEW j \in Job, NEW s \in Final \cup {"raised"}, Outcome(j, s)
         PROVE  (PlayInv /\ LookInv)'
    BY <2>25, <2>0 DEF Outcome
  <2>26. CASE UNCHANGED vars
    BY <2>26, <2>0 DEF vars
<2> QED BY <2>1, <2>2, <2>3, <2>4, <2>5, <2>6, <2>7, <2>8, <2>9, <2>10, <2>11, <2>12, <2>13,
       <2>14, <2>15, <2>16, <2>17, <2>18, <2>19, <2>20, <2>21, <2>22, <2>23, <2>24, <2>25,
       <2>26 DEF Next, Role, Runner, Over
<1> QED BY <1>1, <1>2, Shapes, PTL DEF Spec

\* A host that failed a repetition launches no other one of that play, whether it
\* comes back in a later play or goes on (workload_runner's rescue, PlayAssumption).
THEOREM FailureIsLast == Spec => FailureEndsPlay
<1>1. Shaped /\ PlayInv /\ [Next]_vars =>
        \A j, k \in Job : PlayOf[j] = PlayOf[k] /\ reported[j] = "failed" =>
          ~(proc[k] = "none" /\ proc'[k] = "forked")
  <2> SUFFICES ASSUME Shaped, PlayInv, [Next]_vars, NEW j \in Job, NEW k \in Job,
                      PlayOf[j] = PlayOf[k], reported[j] = "failed",
                      proc[k] = "none", proc'[k] = "forked"
               PROVE  FALSE
    OBVIOUS
  <2>1. proc \in [Job -> Phases] /\ todo \in [Job -> Seq(Writes)] /\ (pc # "end" => job \in Job)
    BY DEF Shaped, TypeOK
  <2>2. ASSUME NEW i \in Job, Runner(i) PROVE FALSE
    BY <2>1, <2>2, RunnerStep DEF Alive
  <2>3. CASE Launch
    <3>1. k = job /\ pc = "launch" /\ job \in Job
      BY <2>1, <2>3 DEF Launch
    <3>2. ~(j > job) /\ j # job
      BY <3>1 DEF PlayInv, Active
    <3>3. j < job
      BY <3>1, <3>2, JobsAssumption DEF Job
    <3> QED BY <3>1, <3>3 DEF PlayInv, Active
  <2>4. CASE Settle
    BY <2>1, <2>4 DEF Settle, runners
  <2> QED
    BY <2>2, <2>3, <2>4, StepKinds DEF Start, Clean, Moves, runners
<1> QED BY <1>1, Shapes, PlayInvariant, PTL DEF Spec, FailureEndsPlay

-----------------------------------------------------------------------------
(* The script of a runner *)

Opening(j, t, n) ==
  /\ Len(t) = n
  /\ n = 2 => t[1] = Event(j, "running", FALSE) /\ t[2] = Newline
  /\ n = 1 => t[1] = Newline

Said(e) == \E i \in 1 .. Len(stream) : stream[i] = e

\* What a live runner has queued is the start of its work or the end of it, and
\* its last event is in the stream before it touches the status file.
Queued(j) ==
  /\ proc[j] \notin {"working", "ending"} => todo[j] = <<>>
  /\ proc[j] = "working" => \E n \in 0 .. 2 : Opening(j, todo[j], n)
  /\ proc[j] = "ending" =>
       \E so \in Final, fs \in Outcomes, n \in 0 .. 6 :
         Script(j, so, fs, todo[j], n) /\ (n <= 3 => Said(Event(j, fs, TRUE)))

ScriptInv == \A j \in Job : Queued(j)

\* What has been written stays in the stream.
LEMMA SaidStays == ASSUME Shaped, [Next]_vars, NEW e, Said(e) PROVE Said(e)'
<1>1. PICK i \in 1 .. Len(stream) : stream[i] = e
  BY DEF Said
<1>2. i \in 1 .. Len(stream') /\ stream'[i] = stream[i]
  BY StreamGrows
<1> QED BY <1>1, <1>2 DEF Said

\* A write takes the first token of an opening, and leaves one.
LEMMA OpeningShrinks ==
  ASSUME NEW j \in Job, NEW t \in Seq(Writes), t # <<>>, NEW n \in 0 .. 2, Opening(j, t, n)
  PROVE  /\ Opening(j, Tail(t), n - 1) /\ n \in 1 .. 2
         /\ Head(t) = IF n = 2 THEN Event(j, "running", FALSE) ELSE Newline
<1>1. Len(t) = n /\ n # 0 /\ n - 1 \in Nat
  BY EmptySeq DEF Opening
<1>2. Len(Tail(t)) = n - 1 /\ Head(t) = t[1]
      /\ \A i \in 1 .. n - 1 : Tail(t)[i] = t[i + 1]
  BY <1>1, HeadTailProperties
<1>3. CASE n = 1
  BY <1>2, <1>3 DEF Opening
<1>4. CASE n = 2
  <2>1. 1 \in 1 .. n - 1 /\ 1 + 1 = 2
    BY <1>4
  <2>2. Tail(t)[1] = t[2]
    BY <1>2, <2>1
  <2>3. Opening(j, t, 2) /\ n - 1 = 1
    BY <1>4
  <2>4. t[1] = Event(j, "running", FALSE) /\ t[2] = Newline
    BY <2>3 DEF Opening
  <2>5. Len(Tail(t)) = 1 /\ Tail(t)[1] = Newline
    BY <1>2, <2>2, <2>3, <2>4
  <2>6. Opening(j, Tail(t), 1)
    BY <2>5 DEF Opening
  <2>7. Opening(j, Tail(t), n - 1) /\ n \in 1 .. 2
    BY <1>4, <2>3, <2>6
  <2>8. Head(t) = IF n = 2 THEN Event(j, "running", FALSE) ELSE Newline
    BY <1>2, <1>4, <2>4
  <2> QED BY <2>7, <2>8
<1>5. n = 1 \/ n = 2
  BY <1>1
<1> QED BY <1>3, <1>4, <1>5

\* A runner that does not move keeps its part of the invariant.
LEMMA QueuedStays ==
  ASSUME Shaped, [Next]_vars, NEW j \in Job, Queued(j), proc'[j] = proc[j], todo'[j] = todo[j]
  PROVE  Queued(j)'
<1>1. \A e : Said(e) => Said(e)'
  BY SaidStays
<1> QED BY <1>1 DEF Queued

\* Every runner keeps to its script, and nobody else queues anything for it.
LEMMA ScriptInvariant == Spec => []ScriptInv
<1>1. Init => ScriptInv
  BY DEF Init, ScriptInv, Queued
<1>2. Shaped /\ PlayInv /\ ScriptInv /\ [Next]_vars => ScriptInv'
  <2> SUFFICES ASSUME Shaped, PlayInv, ScriptInv, [Next]_vars, NEW q \in Job PROVE Queued(q)'
    BY DEF ScriptInv
  <2>0. /\ proc \in [Job -> Phases] /\ todo \in [Job -> Seq(Writes)] /\ Queued(q)
        /\ todo[q] \in Seq(Writes) /\ (pc # "end" => job \in Job)
    BY DEF Shaped, TypeOK, ScriptInv
  <2>1. CASE proc'[q] = proc[q] /\ todo'[q] = todo[q]
    BY <2>0, <2>1, QueuedStays
  <2>2. CASE Launch
    <3>1. q # job => proc'[q] = proc[q] /\ todo'[q] = todo[q]
      BY <2>0, <2>2 DEF Launch
    <3>2. q = job => proc'[q] = "forked" /\ todo'[q] = <<>>
      BY <2>0, <2>2 DEF Launch, PlayInv, Queued
    <3> QED BY <2>1, <3>1, <3>2 DEF Queued
  <2>3. CASE Settle
    <3>1. \/ proc'[q] = proc[q] /\ todo'[q] = todo[q]
          \/ proc'[q] = "dead" /\ todo'[q] = <<>>
      BY <2>0, <2>3 DEF Settle, runners
    <3> QED BY <2>1, <3>1 DEF Queued
  <2>4. CASE Start \/ Clean \/ Moves
    BY <2>1, <2>4 DEF Start, Clean, Moves, runners
  <2>5. CASE Fork(q)
    BY <2>0, <2>5 DEF Fork, Queued
  <2>6. CASE SeeStop(q)
    BY <2>1, <2>6 DEF SeeStop
  <2>7. CASE Exit(q) \/ Crash(q)
    BY <2>0, <2>7 DEF Exit, Crash, Queued
  <2>8. ASSUME NEW t, todo'[q] = t, proc'[q] = "ending",
               \E so \in Final, fs \in Outcomes, n \in {4, 6} : Script(q, so, fs, t, n)
        PROVE  Queued(q)'
    <3>1. PICK so \in Final, fs \in Outcomes, n \in {4, 6} : Script(q, so, fs, todo'[q], n)
      BY <2>8
    <3>2. n \in 0 .. 6 /\ ~(n <= 3)
      OBVIOUS
    <3> QED BY <2>8, <3>1, <3>2 DEF Queued
  <2>9. CASE Begin(q)
    <3>1. CASE proc'[q] = "working" /\ todo'[q] = Say(q, "running", FALSE)
      <4>1. Opening(q, Say(q, "running", FALSE), 2)
        <5>1. Event(q, "running", FALSE) \in Writes /\ Newline \in Writes
          BY TokenKinds DEF Writes
        <5>2. /\ Len(Say(q, "running", FALSE)) = 2 /\ Say(q, "running", FALSE)[2] = Newline
              /\ Say(q, "running", FALSE)[1] = Event(q, "running", FALSE)
          BY <5>1, PairShape DEF Say
        <5> QED BY <5>2 DEF Opening
      <4>2. \E n \in 0 .. 2 : Opening(q, todo'[q], n)
        <5>1. Opening(q, todo'[q], 2)
          BY <3>1, <4>1, Zenon
        <5>2. 2 \in 0 .. 2
          OBVIOUS
        <5> QED BY <5>1, <5>2
      <4> QED BY <3>1, <4>2 DEF Queued
    <3>2. CASE /\ proc'[q] = "ending"
               /\ todo'[q] = Say(q, "stopped", FALSE) \o Epilogue(q, "stopped")
      <4>1. "stopped" \in Final
        BY DEF Final
      <4>2. PICK t \in Seq(Writes) : /\ t = Say(q, "stopped", FALSE) \o Epilogue(q, "stopped")
                  /\ \E fs \in Outcomes : Script(q, "stopped", fs, t, 6)
        BY <4>1, ReportShape
      <4> QED BY <2>8, <3>2, <4>1, <4>2
    <3>3. CASE proc'[q] = "ending" /\ todo'[q] = Epilogue(q, "raised")
      <4>1. "done" \in Final
        BY DEF Final
      <4>2. PICK fs \in Outcomes : Script(q, "done", fs, Epilogue(q, "raised"), 4)
        BY <4>1, EpilogueShape
      <4> QED BY <2>8, <3>3, <4>1, <4>2
    <3>4. q \in DOMAIN proc /\ q \in DOMAIN todo
      BY <2>0
    <3> QED BY <2>9, <3>1, <3>2, <3>3, <3>4 DEF Begin
  <2>10. ASSUME NEW s \in Final \cup {"raised"}, Outcome(q, s) PROVE Queued(q)'
    <3>1. PICK last \in {s, "raised"} : todo' = [todo EXCEPT ![q] = Conclusion(q, s, last)]
      BY <2>10 DEF Outcome, Conclusion
    <3>2. \E so \in Final, fs \in Outcomes, n \in {4, 6} :
            Script(q, so, fs, Conclusion(q, s, last), n)
      BY OutcomeShape
    <3>3. todo'[q] = Conclusion(q, s, last) /\ proc'[q] = "ending"
      BY <2>0, <2>10, <3>1 DEF Outcome
    <3> QED BY <2>8, <3>2, <3>3
  <2>11. CASE Write(q)
    <3>1. /\ proc'[q] = proc[q] /\ proc[q] \in {"working", "ending"} /\ todo[q] # <<>>
          /\ todo'[q] = Tail(todo[q])
      BY <2>0, <2>11, WriteStep
    <3>2. CASE proc[q] = "working"
      <4>1. PICK n \in 0 .. 2 : Opening(q, todo[q], n)
        BY <2>0, <3>2 DEF Queued
      <4>2. Opening(q, todo'[q], n - 1) /\ n \in 1 .. 2
        BY <2>0, <3>1, <4>1, OpeningShrinks
      <4>3. n - 1 \in 0 .. 2
        BY <4>2
      <4> QED BY <3>1, <3>2, <4>2, <4>3 DEF Queued
    <3>3. CASE proc[q] = "ending"
      <4>1. PICK so \in Final, fs \in Outcomes, n \in 0 .. 6 :
              Script(q, so, fs, todo[q], n) /\ (n <= 3 => Said(Event(q, fs, TRUE)))
        BY <2>0, <3>3 DEF Queued
      <4>2. /\ Script(q, so, fs, todo'[q], n - 1) /\ n \in 1 .. 6
            /\ Head(todo[q]) = FromEnd(q, so, fs, n)
        BY <2>0, <3>1, <4>1, ScriptShrinks
      <4>3. ASSUME n - 1 <= 3 PROVE Said(Event(q, fs, TRUE))'
        <5>1. CASE n <= 3
          BY <4>1, <5>1, SaidStays
        <5>2. CASE n = 4
          <6>1. Head(todo[q]) = Event(q, fs, TRUE)
            <7>1. FromEnd(q, so, fs, 4) = Event(q, fs, TRUE)
              BY DEF FromEnd
            <7> QED BY <4>2, <5>2, <7>1
          <6>2. Head(todo[q]) \in Tokens
            <7>1. fs \in {"running"} \cup Final
              BY DEF Outcomes, Final
            <7>2. Event(q, fs, TRUE) \in Tokens
              BY <7>1, TokenKinds
            <7> QED BY <6>1, <7>2
          <6>3. Len(stream') = Len(stream) + 1 /\ stream'[Len(stream) + 1] = Event(q, fs, TRUE)
            BY <2>11, <6>1, <6>2, WriteStep, TokenKinds
          <6>4. Len(stream) + 1 \in 1 .. Len(stream')
            BY <6>3, StreamGrows
          <6> QED BY <6>3, <6>4 DEF Said
        <5>3. n <= 3 \/ n = 4
          BY <4>2, <4>3
        <5> QED BY <5>1, <5>2, <5>3
      <4>4. n - 1 \in 0 .. 6
        BY <4>2
      <4> QED BY <3>1, <3>3, <4>2, <4>3, <4>4 DEF Queued
    <3> QED BY <3>1, <3>2, <3>3
  <2>12. ASSUME NEW j \in Job, Runner(j) PROVE Queued(q)'
    <3>1. CASE j = q
      BY <2>5, <2>6, <2>7, <2>9, <2>10, <2>11, <2>12, <3>1 DEF Runner
    <3>2. CASE j # q
      BY <2>0, <2>1, <2>12, <3>2, RunnerStep
    <3> QED BY <3>1, <3>2
  <2> QED BY <2>2, <2>3, <2>4, <2>12, StepKinds
<1> QED BY <1>1, <1>2, Shapes, PlayInvariant, PTL DEF Spec

-----------------------------------------------------------------------------
(* A repetition that no abandoned runner shares the directory of *)

\* The repetition at hand, once its directory is clean.
Within == pc \notin Away \cup {"clean"} /\ job \notin crowded

AloneInv ==
  /\ pc \notin Away /\ job \notin crowded => \A k \in Job : k # job => ~Alive(k)
  /\ Within => pid \in {Nobody, job}

\* Nobody else is alive while it lasts, so the pid file names its runner.
LEMMA AloneInvariant == Spec => []AloneInv
<1>1. Init => AloneInv
  BY DEF Init, AloneInv, Away, Within
<1>2. Shaped /\ PlayInv /\ AloneInv /\ [Next]_vars => AloneInv'
  <2> SUFFICES ASSUME Shaped, PlayInv, AloneInv, [Next]_vars PROVE AloneInv'
    OBVIOUS
  <2>0. /\ proc \in [Job -> Phases] /\ todo \in [Job -> Seq(Writes)] /\ crowded \subseteq Job
        /\ job \in 1 .. Jobs + 1 /\ (pc # "end" => job \in Job)
    BY DEF Shaped, TypeOK
  <2> USE DEF Within, Away, Alive
  <2>1. CASE Start
    BY <2>0, <2>1 DEF Start, AloneInv, runners, files
  <2>2. CASE Clean
    BY <2>0, <2>2 DEF Clean, AloneInv, runners
  <2>3. CASE Launch
    BY <2>0, <2>3 DEF Launch, AloneInv, files
  <2>4. CASE Settle
    <3>1. \A k \in Job : ~Alive(k) => ~Alive(k)'
      BY <2>0, <2>4 DEF Settle, runners
    <3>2. pc = "settle" /\ UNCHANGED <<job, crowded, pid>>
      BY <2>4 DEF Settle, Step, files
    <3> QED BY <3>1, <3>2 DEF AloneInv
  <2>5. CASE Moves
    BY <2>5 DEF Moves, AloneInv, Judging
  <2>6. ASSUME NEW j \in Job, Runner(j) PROVE AloneInv'
    <3>1. /\ Alive(j) /\ UNCHANGED <<pc, job, crowded>>
          /\ \A k \in Job : k # j => proc'[k] = proc[k]
          /\ pid' = pid \/ (pid' = j /\ proc[j] = "forked")
      BY <2>0, <2>6, RunnerStep DEF roleSide
    <3>2. pc \notin Away /\ job \notin crowded => j = job
      BY <3>1 DEF AloneInv
    <3> QED BY <3>1, <3>2 DEF AloneInv
  <2> QED BY <2>1, <2>2, <2>3, <2>4, <2>5, <2>6, StepKinds
<1> QED BY <1>1, <1>2, Shapes, PlayInvariant, PTL DEF Spec

\* The runner has written an event and not its newline.
MidLine(j) == todo[j] # <<>> /\ Head(todo[j]) = Newline

\* The last event of the repetition is in the stream, with its newline.
Finaled ==
  \E i \in base + 1 .. Len(stream) :
    /\ stream[i].job = job /\ stream[i].last
    /\ i + 1 \in base + 1 .. Len(stream) /\ stream[i + 1] = Newline

\* Since the launch the stream holds lines of one event each, the runner writes
\* where a line may begin, and its last writes come in their order.
Lined == \A i \in base + 2 .. Len(stream) : stream[i] # Newline => stream[i - 1] = Newline

Turned ==
  Alive(job) /\ ~MidLine(job) => Len(stream) = base \/ stream[Len(stream)] = Newline

Ended ==
  proc[job] = "ending" =>
    /\ Len(todo[job]) = 3 =>
         Len(stream) > base /\ stream[Len(stream)].job = job /\ stream[Len(stream)].last
    /\ \A n \in 0 .. 2 : Len(todo[job]) = n => Finaled

StatusTrue ==
  /\ status.rc # "absent" => Finaled
  /\ status.rc = "0" => /\ proc[job] \in {"ending", "gone", "dead"} /\ todo[job] = <<>>
                        /\ Said(Event(job, "done", TRUE))
  /\ pc = "collect" => status.rc = "0"

LineInv ==
  /\ pc \in {"clean", "launch"} /\ job \notin crowded => Len(stream) = base
  /\ Within => Lined /\ Turned /\ Ended /\ StatusTrue

\* The places of a script that matter to the role.
LEMMA FromEndKinds ==
  ASSUME NEW j \in Job, NEW so \in Final, NEW fs \in Outcomes
  PROVE  /\ FromEnd(j, so, fs, 1) \in StatusWrites
         /\ FromEnd(j, so, fs, 4) \in Tokens \ {Newline} /\ FromEnd(j, so, fs, 6) \in Tokens \ {Newline}
         /\ FromEnd(j, so, fs, 4).job = j /\ FromEnd(j, so, fs, 4).last = TRUE
<1>1. FromEnd(j, so, fs, 1) \in StatusWrites
  <2>1. FromEnd(j, so, fs, 1) = [job |-> Nobody, status |-> Rc(fs), last |-> FALSE]
    BY DEF FromEnd
  <2>2. Rc(fs) \in {"empty", "0", "1"}
    BY DEF Rc
  <2> QED BY <2>1, <2>2 DEF StatusWrites
<1>4. FromEnd(j, so, fs, 4) = Event(j, fs, TRUE) /\ FromEnd(j, so, fs, 6) = Event(j, so, FALSE)
  BY DEF FromEnd
<1>5. fs \in {"running"} \cup Final /\ so \in {"running"} \cup Final
  BY DEF Outcomes, Final
<1>6. /\ Event(j, fs, TRUE) \in Tokens \ {Newline} /\ Event(j, so, FALSE) \in Tokens \ {Newline}
      /\ Event(j, fs, TRUE).job = j /\ Event(j, fs, TRUE).last = TRUE
  BY <1>5, TokenKinds
<1> QED BY <1>1, <1>4, <1>6

\* A sequence with a length above zero has a first element.
LEMMA FirstOf ==
  ASSUME NEW S, NEW t \in Seq(S), NEW n \in Nat \ {0}, Len(t) = n
  PROVE  t # <<>> /\ Head(t) = t[1]
<1>1. t # <<>>
  BY EmptySeq
<1> QED BY <1>1

\* The next write of a runner, by how many it has left.
LEMMA NextWrite ==
  ASSUME Shaped, NEW j \in Job, Queued(j), Write(j)
  PROVE  \E n \in 1 .. 6 :
           /\ Len(todo[j]) = n /\ Len(todo'[j]) = n - 1
           /\ \/ /\ Head(todo[j]) \in Tokens \ {Newline} /\ MidLine(j)'
                 /\ proc[j] = "ending" => n \in {4, 6}
                 /\ n = 4 => Head(todo[j]).job = j /\ Head(todo[j]).last = TRUE
              \/ Head(todo[j]) = Newline /\ (proc[j] = "ending" => n \in {3, 5})
              \/ /\ Head(todo[j]) \in StatusWrites /\ proc[j] = "ending" /\ n \in {1, 2}
                 /\ Head(todo[j]).status = "0" => n = 1 /\ Said(Event(j, "done", TRUE))
<1>0. /\ todo[j] \in Seq(Writes) /\ todo[j] # <<>> /\ todo'[j] = Tail(todo[j])
      /\ todo'[j] \in Seq(Writes) /\ proc[j] \in {"working", "ending"}
  <2>1. todo \in [Job -> Seq(Writes)]
    BY DEF Shaped
  <2>2. /\ todo[j] # <<>> /\ proc[j] \in {"working", "ending"}
        /\ todo' = [todo EXCEPT ![j] = Tail(todo[j])]
    BY WriteStep
  <2>3. todo'[j] = Tail(todo[j]) /\ todo[j] \in Seq(Writes)
    BY <2>1, <2>2
  <2>4. Tail(todo[j]) \in Seq(Writes)
    BY <2>2, <2>3, HeadTailProperties
  <2> QED BY <2>2, <2>3, <2>4
<1>1. CASE proc[j] = "working"
  <2>1. PICK n \in 0 .. 2 : Opening(j, todo[j], n)
    BY <1>1 DEF Queued
  <2>2. /\ Opening(j, todo'[j], n - 1) /\ n \in 1 .. 2
        /\ Head(todo[j]) = IF n = 2 THEN Event(j, "running", FALSE) ELSE Newline
    BY <1>0, <2>1, OpeningShrinks
  <2>3. Len(todo[j]) = n /\ Len(todo'[j]) = n - 1 /\ n \in 1 .. 6 /\ n # 4
    BY <2>1, <2>2 DEF Opening
  <2>4. CASE n = 1
    BY <1>1, <2>2, <2>3, <2>4
  <2>5. CASE n = 2
    <3>1. Head(todo[j]) \in Tokens \ {Newline}
      <4>1. Event(j, "running", FALSE) \in Tokens \ {Newline}
        BY TokenKinds
      <4> QED BY <2>2, <2>5, <4>1
    <3>2. MidLine(j)'
      <4>1. Opening(j, todo'[j], 1)
        BY <2>2, <2>5
      <4>2. Len(todo'[j]) = 1 /\ todo'[j][1] = Newline
        BY <4>1 DEF Opening
      <4>3. 1 \in Nat \ {0}
        OBVIOUS
      <4>4. todo'[j] # <<>> /\ Head(todo'[j]) = todo'[j][1]
        BY <1>0, <4>2, <4>3, FirstOf
      <4> QED BY <4>2, <4>4 DEF MidLine
    <3> QED BY <1>1, <2>3, <3>1, <3>2
  <2>6. n = 1 \/ n = 2
    BY <2>2
  <2> QED BY <2>4, <2>5, <2>6
<1>2. CASE proc[j] = "ending"
  <2>1. PICK so \in Final, fs \in Outcomes, n \in 0 .. 6 :
          Script(j, so, fs, todo[j], n) /\ (n <= 3 => Said(Event(j, fs, TRUE)))
    BY <1>2 DEF Queued
  <2>2. /\ n \in 1 .. 6 /\ Script(j, so, fs, todo'[j], n - 1)
        /\ Head(todo[j]) = FromEnd(j, so, fs, n)
    BY <1>0, <2>1, ScriptShrinks
  <2>3. Len(todo[j]) = n /\ Len(todo'[j]) = n - 1
    BY <2>1, <2>2 DEF Script
  <2>k. /\ FromEnd(j, so, fs, 1) \in StatusWrites /\ FromEnd(j, so, fs, 1).status = Rc(fs)
        /\ FromEnd(j, so, fs, 2) \in StatusWrites /\ FromEnd(j, so, fs, 2).status = "empty"
        /\ FromEnd(j, so, fs, 3) = Newline /\ FromEnd(j, so, fs, 5) = Newline
        /\ FromEnd(j, so, fs, 4) \in Tokens \ {Newline} /\ FromEnd(j, so, fs, 6) \in Tokens \ {Newline}
        /\ FromEnd(j, so, fs, 4).job = j /\ FromEnd(j, so, fs, 4).last = TRUE
    <3>1. FromEnd(j, so, fs, 1) \in StatusWrites
      BY FromEndKinds
    <3>2. FromEnd(j, so, fs, 1).status = Rc(fs)
      BY DEF FromEnd
    <3>3. FromEnd(j, so, fs, 2) \in StatusWrites /\ FromEnd(j, so, fs, 2).status = "empty"
      BY DEF FromEnd, StatusWrites
    <3>4. FromEnd(j, so, fs, 3) = Newline /\ FromEnd(j, so, fs, 5) = Newline
      BY DEF FromEnd
    <3>5. FromEnd(j, so, fs, 4) \in Tokens \ {Newline} /\ FromEnd(j, so, fs, 6) \in Tokens \ {Newline}
      BY FromEndKinds
    <3>6. FromEnd(j, so, fs, 4).job = j /\ FromEnd(j, so, fs, 4).last = TRUE
      BY FromEndKinds
    <3> QED BY <3>1, <3>2, <3>3, <3>4, <3>5, <3>6
  <2>4. ASSUME n \in {4, 6} PROVE MidLine(j)' /\ Head(todo[j]) \in Tokens \ {Newline}
    <3>0. n - 1 \in Nat \ {0} /\ n - 1 \in 0 .. 6 /\ (n - 1 = 3 \/ n - 1 = 5)
      BY <2>4
    <3>1. todo'[j] # <<>>
      BY <1>0, <2>3, <3>0, FirstOf
    <3>2. Head(todo'[j]) = FromEnd(j, so, fs, n - 1)
      <4>1. PICK m \in 0 .. 6 : m = n - 1
        BY <3>0
      <4>2. PICK t \in Seq(Writes) : t = todo'[j]
        BY <1>0
      <4>3. Script(j, so, fs, t, m) /\ t # <<>>
        BY <2>2, <3>1, <4>1, <4>2
      <4>4. Head(t) = FromEnd(j, so, fs, m)
        BY <4>3, ScriptShrinks
      <4> QED BY <4>1, <4>2, <4>4
    <3>3. FromEnd(j, so, fs, n - 1) = Newline
      BY <2>k, <3>0
    <3>4. Head(todo[j]) \in Tokens \ {Newline}
      BY <2>2, <2>4, <2>k
    <3> QED BY <3>1, <3>2, <3>3, <3>4 DEF MidLine
  <2>5. CASE n = 6
    BY <2>2, <2>3, <2>4, <2>5
  <2>6. CASE n = 4
    <3>1. Head(todo[j]).job = j /\ Head(todo[j]).last = TRUE
      BY <2>2, <2>6, <2>k
    <3> QED BY <2>2, <2>3, <2>4, <2>6, <3>1
  <2>7. CASE n \in {3, 5}
    <3>1. Head(todo[j]) = Newline
      BY <2>2, <2>7, <2>k
    <3> QED BY <2>2, <2>3, <2>7, <3>1
  <2>8. CASE n = 2
    <3>1. Head(todo[j]) \in StatusWrites /\ Head(todo[j]).status = "empty"
      BY <2>2, <2>8, <2>k
    <3> QED BY <1>2, <2>2, <2>3, <2>8, <3>1
  <2>9. CASE n = 1
    <3>1. Head(todo[j]) \in StatusWrites /\ Head(todo[j]).status = Rc(fs)
      BY <2>2, <2>9, <2>k
    <3>2. Said(Event(j, fs, TRUE))
      <4>1. n <= 3
        BY <2>9
      <4> QED BY <2>1, <4>1
    <3>3. Head(todo[j]).status = "0" => fs = "done"
      BY <3>1 DEF Rc
    <3> QED BY <1>2, <2>2, <2>3, <2>9, <3>1, <3>2, <3>3
  <2>10. n = 6 \/ n = 4 \/ n \in {3, 5} \/ n = 2 \/ n = 1
    BY <2>2
  <2> QED BY <2>5, <2>6, <2>7, <2>8, <2>9, <2>10
<1> QED BY <1>0, <1>1, <1>2

\* The last event stays where it is while the repetition lasts.
LEMMA FinaledStays ==
  ASSUME Shaped, [Next]_vars, UNCHANGED <<base, job>>, Finaled PROVE Finaled'
<1>1. PICK i \in base + 1 .. Len(stream) :
        /\ stream[i].job = job /\ stream[i].last
        /\ i + 1 \in base + 1 .. Len(stream) /\ stream[i + 1] = Newline
  BY DEF Finaled
<1>2. /\ base \in Nat /\ Len(stream) \in Nat /\ Len(stream') \in Nat /\ Len(stream') >= Len(stream)
      /\ \A k \in 1 .. Len(stream) : stream'[k] = stream[k]
  BY StreamGrows DEF Shaped, TypeOK
<1>3. i \in 1 .. Len(stream) /\ i + 1 \in 1 .. Len(stream)
  BY <1>1, <1>2
<1>4. stream'[i] = stream[i] /\ stream'[i + 1] = stream[i + 1]
  BY <1>2, <1>3
<1>5. i \in base + 1 .. Len(stream') /\ i + 1 \in base + 1 .. Len(stream')
  BY <1>1, <1>2
<1> QED BY <1>1, <1>4, <1>5, SMTT(30) DEF Finaled

\* What the runner of the repetition writes keeps the lines as they should be.
LEMMA WriteLines ==
  ASSUME Shaped, [Next]_vars, job \in Job, Queued(job), Write(job), pc # "collect",
         Lined, Turned, Ended, StatusTrue
  PROVE  (Lined /\ Turned /\ Ended /\ StatusTrue)'
<1>0. /\ UNCHANGED <<base, job, pc>> /\ proc' = proc /\ Alive(job)
      /\ base \in Nat /\ Len(stream) \in Nat /\ base <= Len(stream)
      /\ stream \in Seq(Tokens) /\ proc[job] \in {"working", "ending"} /\ todo[job] # <<>>
  BY WriteStep DEF roleSide, Shaped, TypeOK, Alive
<1>1. PICK n \in 1 .. 6 :
           /\ Len(todo[job]) = n /\ Len(todo'[job]) = n - 1
           /\ \/ /\ Head(todo[job]) \in Tokens \ {Newline} /\ MidLine(job)'
                 /\ proc[job] = "ending" => n \in {4, 6}
                 /\ n = 4 => Head(todo[job]).job = job /\ Head(todo[job]).last = TRUE
              \/ Head(todo[job]) = Newline /\ (proc[job] = "ending" => n \in {3, 5})
              \/ /\ Head(todo[job]) \in StatusWrites /\ proc[job] = "ending" /\ n \in {1, 2}
                 /\ Head(todo[job]).status = "0" => n = 1 /\ Said(Event(job, "done", TRUE))
  <2>1. PICK q \in Job : q = job
    OBVIOUS
  <2>2. Write(q) /\ Queued(q)
    BY <2>1
  <2>3. \E n \in 1 .. 6 :
             /\ Len(todo[q]) = n /\ Len(todo'[q]) = n - 1
             /\ \/ /\ Head(todo[q]) \in Tokens \ {Newline} /\ MidLine(q)'
                   /\ proc[q] = "ending" => n \in {4, 6}
                   /\ n = 4 => Head(todo[q]).job = q /\ Head(todo[q]).last = TRUE
                \/ Head(todo[q]) = Newline /\ (proc[q] = "ending" => n \in {3, 5})
                \/ /\ Head(todo[q]) \in StatusWrites /\ proc[q] = "ending" /\ n \in {1, 2}
                   /\ Head(todo[q]).status = "0" => n = 1 /\ Said(Event(q, "done", TRUE))
    BY <2>2, NextWrite
  <2>4. MidLine(q)' => MidLine(job)'
    BY <1>0, <2>1 DEF MidLine
  <2> QED BY <2>1, <2>3, <2>4
<1>2. Finaled => Finaled'
  BY <1>0, FinaledStays
<1>3. status.rc # "0"
  BY <1>0 DEF StatusTrue
<1>4. ASSUME Head(todo[job]) \in Tokens
      PROVE  /\ Len(stream') = Len(stream) + 1 /\ stream'[Len(stream) + 1] = Head(todo[job])
             /\ UNCHANGED status /\ \A i \in 1 .. Len(stream) : stream'[i] = stream[i]
  <2>1. Head(todo[job]) \notin StatusWrites
    BY <1>4, TokenKinds
  <2> QED BY <2>1, WriteStep, StreamGrows
<1>5. ASSUME Head(todo[job]) \in Tokens, Head(todo[job]) # Newline => ~MidLine(job) PROVE Lined'
  <2> SUFFICES ASSUME NEW i \in base + 2 .. Len(stream) + 1, stream'[i] # Newline
               PROVE  stream'[i - 1] = Newline
    BY <1>0, <1>4, <1>5 DEF Lined
  <2>1. CASE i <= Len(stream)
    <3>1. i \in 1 .. Len(stream) /\ i - 1 \in 1 .. Len(stream) /\ i \in base + 2 .. Len(stream)
      BY <1>0, <2>1
    <3>2. stream'[i] = stream[i] /\ stream'[i - 1] = stream[i - 1]
      BY <1>4, <1>5, <3>1
    <3> QED BY <3>1, <3>2 DEF Lined
  <2>2. CASE i = Len(stream) + 1
    <3>1. Head(todo[job]) # Newline
      BY <1>4, <1>5, <2>2
    <3>2. stream[Len(stream)] = Newline
      BY <1>0, <1>5, <2>2, <3>1 DEF Turned
    <3>3. i - 1 = Len(stream) /\ Len(stream) \in 1 .. Len(stream)
      BY <1>0, <2>2
    <3> QED BY <1>4, <1>5, <3>2, <3>3
  <2> QED BY <1>0, <2>1, <2>2
<1>6. CASE /\ Head(todo[job]) \in Tokens \ {Newline} /\ MidLine(job)'
           /\ proc[job] = "ending" => n \in {4, 6}
           /\ n = 4 => Head(todo[job]).job = job /\ Head(todo[job]).last = TRUE
  <2>1. Lined' /\ Turned'
    BY <1>5, <1>6 DEF MidLine, Turned
  <2>2. Ended'
    <3>1. proc[job] = "ending" /\ Len(todo'[job]) = 3 => n = 4
      <4>1. Len(todo'[job]) = n - 1 /\ n \in 1 .. 6
        BY <1>1
      <4>2. n - 1 = 3 => n = 4
        BY <4>1
      <4> QED BY <4>1, <4>2
    <3>2. Len(stream') > base
      BY <1>0, <1>4, <1>6
    <3>3. ASSUME NEW m \in 0 .. 2, Len(todo'[job]) = m, proc[job] = "ending" PROVE FALSE
      <4>1. m = n - 1
        BY <1>1, <3>3
      <4> QED BY <1>6, <3>3, <4>1
    <3>4. n = 4 => stream'[Len(stream')].job = job /\ stream'[Len(stream')].last
      BY <1>4, <1>6
    <3> QED BY <1>0, <3>1, <3>2, <3>3, <3>4 DEF Ended
  <2>3. StatusTrue'
    BY <1>0, <1>2, <1>3, <1>4, <1>6 DEF StatusTrue
  <2> QED BY <2>1, <2>2, <2>3
<1>7. CASE Head(todo[job]) = Newline /\ (proc[job] = "ending" => n \in {3, 5})
  <2>0. Head(todo[job]) \in Tokens
    BY <1>7, TokenKinds
  <2>1. Lined' /\ Turned'
    BY <1>4, <1>5, <1>7, <2>0 DEF Turned
  <2>2. Ended'
    <3>1. ASSUME proc[job] = "ending", Len(todo'[job]) = 3 PROVE FALSE
      <4>1. n - 1 = 3
        BY <1>1, <3>1
      <4> QED BY <1>7, <3>1, <4>1
    <3>2. ASSUME NEW m \in 0 .. 2, Len(todo'[job]) = m, proc[job] = "ending" PROVE Finaled'
      <4>1. n = 3
        <5>1. m = n - 1
          BY <1>1, <3>2
        <5> QED BY <1>7, <3>2, <5>1
      <4>2. Len(stream) > base /\ stream[Len(stream)].job = job /\ stream[Len(stream)].last
        BY <1>1, <3>2, <4>1 DEF Ended
      <4>3. /\ Len(stream) \in base + 1 .. Len(stream') /\ Len(stream) + 1 \in base + 1 .. Len(stream')
            /\ Len(stream) \in 1 .. Len(stream)
        BY <1>0, <1>4, <2>0, <4>2
      <4>4. stream'[Len(stream)] = stream[Len(stream)] /\ stream'[Len(stream) + 1] = Newline
        BY <1>4, <1>7, <2>0, <4>3
      <4> QED BY <1>0, <4>2, <4>3, <4>4 DEF Finaled
    <3> QED BY <1>0, <3>1, <3>2 DEF Ended
  <2>3. StatusTrue'
    BY <1>0, <1>2, <1>3, <1>4, <2>0 DEF StatusTrue
  <2> QED BY <2>1, <2>2, <2>3
<1>8. CASE /\ Head(todo[job]) \in StatusWrites /\ proc[job] = "ending" /\ n \in {1, 2}
           /\ Head(todo[job]).status = "0" => n = 1 /\ Said(Event(job, "done", TRUE))
  <2>0. /\ UNCHANGED stream /\ status'.rc = Head(todo[job]).status /\ Head(todo[job]) # Newline
        /\ Head(todo[job]) \notin Tokens
    BY <1>8, WriteStep, TokenKinds
  <2>1. Finaled'
    <3>1. n \in 0 .. 2
      BY <1>8
    <3> QED BY <1>1, <1>2, <1>8, <3>1 DEF Ended
  <2>2. Lined' /\ Turned'
    BY <1>0, <2>0 DEF Lined, Turned, MidLine
  <2>3. Ended'
    <3>1. Len(todo'[job]) # 3
      BY <1>1, <1>8
    <3> QED BY <1>0, <2>1, <3>1 DEF Ended
  <2>4. ASSUME status'.rc = "0" PROVE todo'[job] = <<>> /\ Said(Event(job, "done", TRUE))'
    <3>1. n = 1 /\ Said(Event(job, "done", TRUE))
      BY <1>8, <2>0, <2>4
    <3>2. Len(todo'[job]) = 0
      BY <1>1, <3>1
    <3>3. todo'[job] \in Seq(Writes)
      <4>1. todo[job] \in Seq(Writes) /\ todo'[job] = Tail(todo[job])
        BY WriteStep DEF Shaped
      <4> QED BY <1>0, <4>1, HeadTailProperties
    <3>4. Said(Event(job, "done", TRUE))'
      BY <2>0, <3>1, <1>0 DEF Said
    <3> QED BY <3>2, <3>3, <3>4, EmptySeq
  <2>5. StatusTrue'
    BY <1>0, <1>8, <2>1, <2>4 DEF StatusTrue
  <2> QED BY <2>2, <2>3, <2>5
<1> QED BY <1>1, <1>6, <1>7, <1>8

\* So does a step of the runner that writes nothing, whatever it queues.
LEMMA SilentLines ==
  ASSUME UNCHANGED <<stream, status, base, job, pc>>, Lined, Turned, Ended, StatusTrue,
         Alive(job)' => Alive(job) /\ (~MidLine(job) \/ todo'[job] = todo[job]),
         proc'[job] = "ending" =>
           \/ \E n \in {4, 6} : Len(todo'[job]) = n
           \/ proc[job] = "ending" /\ todo'[job] = todo[job],
         status.rc = "0" => proc'[job] \in {"ending", "gone", "dead"} /\ todo'[job] = <<>>
  PROVE  (Lined /\ Turned /\ Ended /\ StatusTrue)'
<1>1. Lined' /\ (Finaled <=> Finaled')
  BY DEF Lined, Finaled
<1>2. Turned'
  BY DEF Turned, MidLine
<1>3. Ended'
  <2>1. CASE \E n \in {4, 6} : Len(todo'[job]) = n
    <3>1. Len(todo'[job]) # 3 /\ \A n \in 0 .. 2 : Len(todo'[job]) # n
      BY <2>1
    <3> QED BY <3>1 DEF Ended
  <2>2. CASE proc[job] = "ending" /\ todo'[job] = todo[job]
    BY <1>1, <2>2 DEF Ended
  <2> QED BY <2>1, <2>2 DEF Ended
<1>4. StatusTrue'
  BY <1>1 DEF StatusTrue, Said
<1> QED BY <1>1, <1>2, <1>3, <1>4

\* From the launch on only the runner of the repetition writes, and it writes lines.
LEMMA LineInvariant == Spec => []LineInv
<1>1. Init => LineInv
  BY DEF Init, LineInv, Away, Within
<1>2. Shaped /\ PlayInv /\ ScriptInv /\ AloneInv /\ LineInv /\ [Next]_vars => LineInv'
  <2> SUFFICES ASSUME Shaped, PlayInv, ScriptInv, AloneInv, LineInv, [Next]_vars PROVE LineInv'
    OBVIOUS
  <2>0. /\ proc \in [Job -> Phases] /\ todo \in [Job -> Seq(Writes)]
        /\ job \in 1 .. Jobs + 1 /\ (pc # "end" => job \in Job)
        /\ base \in Nat /\ Len(stream) \in Nat /\ base <= Len(stream)
    BY DEF Shaped, TypeOK
  <2>1. CASE Start
    BY <2>1 DEF Start, LineInv, Within
  <2>2. CASE Clean
    <3>1. /\ pc = "clean" /\ pc' = "launch" /\ status'.rc = "absent"
          /\ UNCHANGED <<job, base, crowded, stream, proc, todo>> /\ job \in Job
      BY <2>0, <2>2 DEF Clean, NoStatus, runners
    <3>2. proc[job] = "none"
      BY <3>1 DEF PlayInv
    <3>3. ASSUME job \notin crowded
          PROVE  Len(stream) = base /\ (Lined /\ Turned /\ Ended /\ StatusTrue)'
      <4>1. Len(stream) = base
        BY <3>1, <3>3 DEF LineInv
      <4>2. Lined'
        BY <2>0, <3>1, <4>1 DEF Lined
      <4> QED BY <3>1, <3>2, <4>1, <4>2 DEF Turned, Ended, StatusTrue
    <3> QED BY <3>1, <3>3 DEF LineInv, Within, Away
  <2>3. CASE Launch
    <3>1. /\ pc = "launch" /\ pc' = "wait_pid" /\ job \in Job
          /\ UNCHANGED <<job, base, crowded, stream, status, todo>>
          /\ proc'[job] = "forked" /\ proc[job] = "none"
      BY <2>0, <2>3 DEF Launch, files, PlayInv
    <3>2. ASSUME job \notin crowded PROVE (Lined /\ Turned /\ Ended /\ StatusTrue)'
      <4>1. Len(stream) = base /\ Lined /\ StatusTrue
        BY <3>1, <3>2 DEF LineInv, Within, Away
      <4>2. Lined' /\ (Finaled => Finaled')
        BY <3>1, <4>1 DEF Lined, Finaled
      <4>3. Turned' /\ Ended'
        BY <3>1, <4>1 DEF Turned, Ended
      <4>4. StatusTrue'
        BY <3>1, <4>1, <4>2 DEF StatusTrue
      <4> QED BY <4>2, <4>3, <4>4
    <3> QED BY <3>1, <3>2 DEF LineInv, Within
  <2>4. CASE Settle
    <3>1. /\ pc = "settle" /\ pc' = "load" /\ UNCHANGED <<job, base, crowded, stream, status>>
          /\ job \in Job
      BY <2>0, <2>4 DEF Settle, Step, files
    <3>2. \/ proc'[job] = proc[job] /\ todo'[job] = todo[job]
          \/ proc'[job] = "dead" /\ todo'[job] = <<>>
      BY <2>0, <2>4, <3>1 DEF Settle, runners
    <3>3. ASSUME job \notin crowded PROVE (Lined /\ Turned /\ Ended /\ StatusTrue)'
      <4>1. Lined /\ Turned /\ Ended /\ StatusTrue
        BY <3>1, <3>3 DEF LineInv, Within, Away
      <4>2. Lined' /\ (Finaled => Finaled')
        BY <3>1, <4>1 DEF Lined, Finaled
      <4>3. Turned' /\ Ended'
        BY <3>1, <3>2, <4>1, <4>2 DEF Turned, Ended, Alive, MidLine
      <4>4. StatusTrue'
        BY <3>1, <3>2, <4>1, <4>2 DEF StatusTrue, Said
      <4> QED BY <4>2, <4>3, <4>4
    <3> QED BY <3>1, <3>3 DEF LineInv, Within
  <2>5. CASE Moves
    <3>1. UNCHANGED <<stream, status, proc, todo, base, crowded>>
      BY <2>5 DEF Moves
    <3>2. CASE pc' \in Away
      BY <3>2 DEF LineInv, Within, Away
    <3>3. CASE job' = job /\ (pc' = pc \/ (pc \in Judging /\ pc' \in Judging))
      <4>1. Within' => Within
        BY <3>1, <3>3 DEF Within, Judging, Away
      <4>2. ASSUME Within' PROVE (Lined /\ Turned /\ Ended /\ StatusTrue)'
        <5>1. Lined /\ Turned /\ Ended /\ StatusTrue
          BY <4>1, <4>2 DEF LineInv
        <5>2. Lined' /\ (Finaled => Finaled')
          BY <3>1, <3>3, <5>1 DEF Lined, Finaled
        <5>3. Turned' /\ Ended'
          BY <3>1, <3>3, <5>1, <5>2 DEF Turned, Ended, Alive, MidLine
        <5>4. StatusTrue'
          BY <2>5, <3>1, <3>3, <5>1, <5>2 DEF StatusTrue, Said, Moves
        <5> QED BY <5>2, <5>3, <5>4
      <4>3. pc' \in {"clean", "launch"} => pc' = pc
        BY <3>3 DEF Judging
      <4> QED BY <3>1, <3>3, <4>2, <4>3 DEF LineInv
    <3> QED BY <2>5, <3>2, <3>3 DEF Moves
  <2>6. ASSUME NEW j \in Job, Runner(j) PROVE LineInv'
    <3>1. /\ Alive(j) /\ UNCHANGED <<pc, job, base, crowded>>
          /\ Write(j) \/ UNCHANGED <<stream, status>>
      BY <2>0, <2>6, RunnerStep DEF roleSide
    <3>2. CASE pc \in Away \/ job \in crowded
      BY <3>1, <3>2 DEF LineInv, Within, Away
    <3>3. CASE pc \notin Away /\ job \notin crowded
      <4>1. j = job /\ job \in Job
        BY <3>1, <3>3 DEF AloneInv
      <4>2. proc[job] # "none" /\ pc \notin {"clean", "launch"}
        BY <3>1, <4>1 DEF Alive, PlayInv
      <4> SUFFICES (Lined /\ Turned /\ Ended /\ StatusTrue)'
        BY <3>1, <4>2 DEF LineInv
      <4>3. Lined /\ Turned /\ Ended /\ StatusTrue
        BY <3>3, <4>2 DEF LineInv, Within
      <4>4. Queued(job) /\ todo[job] \in Seq(Writes)
        BY <2>0, <4>1 DEF ScriptInv
      <4>5. CASE Write(job)
        <5>1. pc # "collect"
          BY <4>3, <4>5 DEF StatusTrue, Write
        <5> QED BY <4>1, <4>3, <4>4, <4>5, <5>1, WriteLines
      <4>6. CASE Fork(job)
        <5>1. /\ proc[job] = "forked" /\ proc'[job] = "born" /\ todo' = todo
              /\ UNCHANGED <<stream, status>>
          BY <2>0, <4>1, <4>6 DEF Fork
        <5>2. status.rc # "0"
          BY <4>3, <5>1 DEF StatusTrue
        <5> QED BY <3>1, <4>3, <5>1, <5>2, SilentLines DEF Alive
      <4>7. CASE SeeStop(job)
        <5>1. UNCHANGED <<proc, todo, stream, status>>
          BY <4>7 DEF SeeStop, files
        <5> QED BY <3>1, <4>3, <5>1, SilentLines DEF Alive, StatusTrue
      <4>8. CASE Exit(job) \/ Crash(job)
        <5>1. /\ proc'[job] \in {"gone", "dead"} /\ (todo'[job] = todo[job] \/ todo'[job] = <<>>)
              /\ UNCHANGED <<stream, status>>
          BY <2>0, <4>1, <4>8 DEF Exit, Crash, files
        <5> QED BY <3>1, <4>3, <5>1, SilentLines DEF Alive, StatusTrue
      <4>9. ASSUME UNCHANGED <<stream, status>>, proc[job] \in {"born", "working"}, todo[job] = <<>>,
                   proc'[job] = "ending" => \E n \in {4, 6} : Len(todo'[job]) = n
            PROVE  (Lined /\ Turned /\ Ended /\ StatusTrue)'
        <5>1. status.rc # "0"
          BY <4>3, <4>9 DEF StatusTrue
        <5>2. Alive(job) /\ ~MidLine(job)
          BY <4>9 DEF Alive, MidLine
        <5> QED BY <3>1, <4>3, <4>9, <5>1, <5>2, SilentLines
      <4>10. CASE Begin(job)
        <5>1. proc[job] = "born" /\ UNCHANGED <<stream, status>> /\ todo[job] = <<>>
          BY <4>4, <4>10 DEF Begin, files, Queued
        <5>2. \/ proc'[job] = "working"
              \/ todo'[job] = Say(job, "stopped", FALSE) \o Epilogue(job, "stopped")
              \/ todo'[job] = Epilogue(job, "raised")
          BY <2>0, <4>1, <4>10 DEF Begin
        <5>3. CASE todo'[job] = Say(job, "stopped", FALSE) \o Epilogue(job, "stopped")
          <6>1. "stopped" \in Final
            BY DEF Final
          <6>2. PICK t \in Seq(Writes) :
                  /\ t = Say(job, "stopped", FALSE) \o Epilogue(job, "stopped")
                  /\ \E fs \in Outcomes : Script(job, "stopped", fs, t, 6)
            BY <4>1, <6>1, ReportShape
          <6>3. Len(t) = 6
            BY <6>2 DEF Script
          <6> QED BY <4>9, <5>1, <5>3, <6>2, <6>3
        <5>4. CASE todo'[job] = Epilogue(job, "raised")
          <6>1. "done" \in Final
            BY DEF Final
          <6>2. PICK fs \in Outcomes : Script(job, "done", fs, Epilogue(job, "raised"), 4)
            BY <4>1, <6>1, EpilogueShape
          <6>3. Len(Epilogue(job, "raised")) = 4
            BY <6>2 DEF Script
          <6> QED BY <4>9, <5>1, <5>4, <6>3
        <5>5. CASE proc'[job] = "working"
          BY <4>9, <5>1, <5>5
        <5> QED BY <5>2, <5>3, <5>4, <5>5
      <4>11. ASSUME NEW s \in Final \cup {"raised"}, Outcome(job, s)
             PROVE  (Lined /\ Turned /\ Ended /\ StatusTrue)'
        <5>1. PICK last \in {s, "raised"} : todo' = [todo EXCEPT ![job] = Conclusion(job, s, last)]
          BY <4>11 DEF Outcome, Conclusion
        <5>2. PICK so \in Final, fs \in Outcomes, n \in {4, 6} :
                Script(job, so, fs, Conclusion(job, s, last), n)
          BY <4>1, OutcomeShape
        <5>3. todo'[job] = Conclusion(job, s, last)
          BY <2>0, <4>1, <5>1
        <5>4. Len(todo'[job]) = n
          BY <5>2, <5>3 DEF Script
        <5>5. proc[job] = "working" /\ todo[job] = <<>> /\ UNCHANGED <<stream, status>>
          BY <4>11 DEF Outcome, files
        <5> QED BY <4>9, <5>4, <5>5
      <4> QED BY <2>6, <4>1, <4>5, <4>6, <4>7, <4>8, <4>10, <4>11 DEF Runner
    <3> QED BY <3>2, <3>3
  <2> QED BY <2>1, <2>2, <2>3, <2>4, <2>5, <2>6, StepKinds
<1> QED BY <1>1, <1>2, Shapes, PlayInvariant, ScriptInvariant, AloneInvariant, PTL DEF Spec

-----------------------------------------------------------------------------
(* The verdict *)

\* Only reading the stream ends the poll, and only the collection of the
\* artifacts, which closes a repetition, reports it done.
LEMMA VerdictSteps ==
  ASSUME Shaped, [Next]_vars
  PROVE  /\ \/ pc' \notin {"settle", "load", "collect"}
            \/ ReadStream
            \/ pc \in {"settle", "load", "collect"} /\ UNCHANGED <<job, ended, crowded, relayed>>
         /\ crowded \subseteq crowded'
         /\ \A j \in Job : reported'[j] = "done" =>
              \/ reported[j] = "done"
              \/ pc = "collect" /\ j = job /\ UNCHANGED <<stream, proc, todo, crowded>>
<1> DEFINE Ends == \/ pc' \notin {"settle", "load", "collect"}
                   \/ ReadStream
                   \/ pc \in {"settle", "load", "collect"} /\ UNCHANGED <<job, ended, crowded, relayed>>
           Kept == UNCHANGED <<reported, crowded>>
           Goal == /\ Ends /\ crowded \subseteq crowded'
                   /\ \A j \in Job : reported'[j] = "done" =>
                        \/ reported[j] = "done"
                        \/ pc = "collect" /\ j = job /\ UNCHANGED <<stream, proc, todo, crowded>>
<1> SUFFICES Goal
  OBVIOUS
<1>0. /\ reported \in [Job -> {"none", "running", "done", "failed"}]
      /\ proc \in [Job -> Phases] /\ todo \in [Job -> Seq(Writes)]
  BY DEF Shaped, TypeOK
<1>1. CASE Start
  <2>1. reported' = [reported EXCEPT ![job] = "running"] /\ crowded \subseteq crowded' /\ pc' = "clean"
    BY <1>1 DEF Start
  <2> QED BY <1>0, <2>1
<1>2. CASE Clean
  BY <1>2 DEF Clean
<1>3. CASE Launch
  BY <1>3 DEF Launch
<1>4. CASE WaitPid
  BY <1>4 DEF WaitPid, Step
<1>5. CASE Look
  BY <1>5 DEF Look, Step
<1>6. CASE LookAtProcess
  BY <1>6 DEF LookAtProcess
<1>7. CASE Decide
  BY <1>7 DEF Decide
<1>8. CASE ReadStream
  <2>1. Kept
    BY <1>8 DEF ReadStream
  <2> QED BY <1>8, <2>1
<1>9. CASE Settle
  BY <1>9 DEF Settle, Step
<1>10. CASE Load
  BY <1>10 DEF Load, Step
<1>11. CASE Collect
  <2>1. CASE Step("rescue")
    BY <2>1 DEF Step
  <2>2. CASE /\ reported' = [reported EXCEPT ![job] = "done"] /\ GoTo(job + 1)
             /\ UNCHANGED <<late, looked, ended, offset, base, relayed, crowded>>
    <3>1. pc' \in {"start", "end"} /\ pc = "collect" /\ UNCHANGED <<stream, proc, todo, crowded>>
      BY <1>11, <2>2 DEF GoTo, Collect, runners
    <3> QED BY <1>0, <2>2, <3>1
  <2> QED BY <1>11, <2>1, <2>2 DEF Collect
<1>12. CASE Rescue
  <2>1. reported' = [reported EXCEPT ![job] = "failed"] /\ crowded' = crowded /\ pc' = "leave"
    BY <1>12 DEF Rescue
  <2> QED BY <1>0, <2>1
<1>13. CASE StopPlaybook
  BY <1>13 DEF StopPlaybook, Step
<1>14. CASE NextPlay
  <2>1. pc' \in {"start", "end"} /\ Kept
    BY <1>14 DEF NextPlay, GoTo
  <2> QED BY <2>1
<1>15. CASE TimePasses
  BY <1>15 DEF TimePasses
<1>16. CASE LoseHost \/ KillPlay
  BY <1>16 DEF LoseHost, KillPlay, Step
<1>17. CASE TouchStop
  <2>1. UNCHANGED roleSide
    BY <1>17 DEF TouchStop
  <2> QED BY <2>1 DEF roleSide
<1>18. ASSUME NEW j \in Job, Runner(j) PROVE Goal
  <2>1. UNCHANGED roleSide
    BY <1>0, <1>18, RunnerStep
  <2> QED BY <2>1 DEF roleSide
<1>19. CASE UNCHANGED vars
  BY <1>19 DEF vars, roleSide
<1> QED BY <1>1, <1>2, <1>3, <1>4, <1>5, <1>6, <1>7, <1>8, <1>9, <1>10, <1>11, <1>12, <1>13,
     <1>14, <1>15, <1>16, <1>17, <1>18, <1>19 DEF Next, Role, Over

\* A poll that ends because the status file exists has relayed the event that
\* ends the repetition: the runner writes it first, the poll reads it last
\* (async_localrunner.py, stream_events_step.yml).
THEOREM FinalIsRelayed == Spec => []FinalRelayed
<1>1. Init => FinalRelayed
  BY DEF Init, FinalRelayed
<1>2. Shaped /\ LookInv /\ LineInv /\ NothingSkipped' /\ FinalRelayed /\ [Next]_vars => FinalRelayed'
  <2> SUFFICES ASSUME Shaped, LookInv, LineInv, NothingSkipped', FinalRelayed, [Next]_vars,
                      (pc \in {"settle", "load", "collect"} /\ ended = "status" /\ job \notin crowded)'
               PROVE  \E i \in relayed' : stream'[i].job = job' /\ stream'[i].last
    BY DEF FinalRelayed
  <2>0. /\ stream \in Seq(Tokens) /\ Len(stream) \in Nat /\ base \in Nat /\ offset \in Nat
        /\ offset \in 0 .. Len(stream) /\ base <= offset /\ relayed \subseteq 1 .. offset
    BY DEF Shaped, TypeOK
  <2>1. CASE ReadStream
    <3>1. /\ pc = "poll_read" /\ offset' = NewOffset /\ UNCHANGED <<base, job, crowded, stream>>
          /\ ended' = IF looked # "none" THEN looked
                      ELSE IF \E i \in Lines : SaysEnd(i) THEN "event" ELSE "none"
      BY <2>1 DEF ReadStream
    <3>2. looked = "status"
      BY <3>1
    <3>3. status.rc # "absent" /\ Lined /\ Finaled
      BY <3>1, <3>2 DEF LookInv, LineInv, Within, Away, StatusTrue
    <3>4. PICK i \in base + 1 .. Len(stream) :
            /\ stream[i].job = job /\ stream[i].last
            /\ i + 1 \in base + 1 .. Len(stream) /\ stream[i + 1] = Newline
      BY <3>3 DEF Finaled
    <3>5. stream[i] # Newline /\ (i = base + 1 \/ stream[i - 1] = Newline)
      <4>1. stream[i] # Newline
        BY <3>4 DEF Newline
      <4>2. i = base + 1 \/ i \in base + 2 .. Len(stream)
        BY <2>0, <3>4
      <4> QED BY <3>3, <4>1, <4>2 DEF Lined
    <3>6. i <= NewOffset /\ NewOffset \in Nat
      <4>1. CASE i <= offset
        BY <2>0, <3>4, <4>1, OffsetMoves
      <4>2. CASE i > offset
        <5>1. i + 1 \in offset + 1 .. Len(stream)
          BY <2>0, <3>4, <4>2
        <5>2. Complete(offset)
          BY <3>4, <5>1 DEF Complete
        <5>3. ~Complete(NewOffset) /\ NewOffset \in offset .. Len(stream)
          BY <2>0, <5>2, OffsetMoves
        <5>4. ~(i + 1 \in NewOffset + 1 .. Len(stream))
          BY <3>4, <5>3 DEF Complete
        <5> QED BY <2>0, <3>4, <5>1, <5>3, <5>4
      <4> QED BY <2>0, <3>4, <4>1, <4>2
    <3>7. i \in base' + 1 .. offset'
      BY <2>0, <3>1, <3>4, <3>6
    <3>8. i \in relayed'
      BY <3>1, <3>5, <3>7 DEF NothingSkipped
    <3> QED BY <3>1, <3>4, <3>8
  <2>2. CASE pc \in {"settle", "load", "collect"} /\ UNCHANGED <<job, ended, crowded, relayed>>
    <3>1. PICK i \in relayed : stream[i].job = job /\ stream[i].last
      BY <2>2 DEF FinalRelayed
    <3>2. i \in 1 .. Len(stream)
      BY <2>0, <3>1
    <3>3. stream'[i] = stream[i]
      BY <3>2, StreamGrows
    <3> QED BY <2>2, <3>1, <3>3
  <2> QED BY <2>1, <2>2, VerdictSteps
<1> QED BY <1>1, <1>2, Shapes, PlayInvariant, LineInvariant, NothingIsSkipped, PTL DEF Spec

\* What is reported done has ended with the status of a success, and stays so:
\* no step gives a runner that is over anything more to do (workload_runner's
\* completion event, async_localrunner.py).
THEOREM ReportedIsTrue == Spec => []DoneIsTrue
<1>1. Init => DoneIsTrue
  BY DEF Init, DoneIsTrue
<1>2. Shaped /\ PlayInv /\ LineInv /\ DoneIsTrue /\ [Next]_vars => DoneIsTrue'
  <2> SUFFICES ASSUME Shaped, PlayInv, LineInv, DoneIsTrue, [Next]_vars,
                      NEW j \in Job, reported'[j] = "done", j \notin crowded'
               PROVE  /\ proc'[j] \in {"ending", "gone", "dead"} /\ todo'[j] = <<>>
                      /\ Said(Event(j, "done", TRUE))'
    BY DEF DoneIsTrue, Said
  <2>0. proc \in [Job -> Phases] /\ todo \in [Job -> Seq(Writes)] /\ (pc # "end" => job \in Job)
    BY DEF Shaped, TypeOK
  <2>1. CASE pc = "collect" /\ j = job /\ UNCHANGED <<stream, proc, todo, crowded>>
    <3>1. Within
      BY <2>1 DEF Within, Away
    <3> QED BY <2>1, <3>1 DEF LineInv, StatusTrue, Said
  <2>2. CASE reported[j] = "done"
    <3>1. j \notin crowded
      BY VerdictSteps
    <3>2. /\ proc[j] \in {"ending", "gone", "dead"} /\ todo[j] = <<>>
          /\ Said(Event(j, "done", TRUE))
      BY <2>2, <3>1 DEF DoneIsTrue, Said
    <3>3. Said(Event(j, "done", TRUE))'
      BY <3>2, SaidStays
    <3>4. proc'[j] \in {"ending", "gone", "dead"} /\ todo'[j] = <<>>
      <4>1. CASE Start \/ Clean \/ Moves
        BY <3>2, <4>1 DEF Start, Clean, Moves, runners
      <4>2. CASE Launch
        <5>1. job \in Job /\ proc[job] = "none" /\ proc' = [proc EXCEPT ![job] = "forked"] /\ todo' = todo
          BY <2>0, <4>2 DEF Launch, PlayInv
        <5> QED BY <2>0, <3>2, <5>1
      <4>3. CASE Settle
        BY <2>0, <3>2, <4>3 DEF Settle, runners
      <4>4. ASSUME NEW k \in Job, Runner(k), k # j
            PROVE  proc'[j] = proc[j] /\ todo'[j] = todo[j]
        BY <2>0, <4>4, RunnerStep
      <4>5. CASE Runner(j)
        <5>1. ~Fork(j) /\ ~Begin(j) /\ ~Write(j) /\ \A s : ~Outcome(j, s)
          BY <3>2 DEF Fork, Begin, Write, Outcome
        <5>2. CASE SeeStop(j)
          BY <3>2, <5>2 DEF SeeStop
        <5>3. CASE Exit(j) \/ Crash(j)
          BY <2>0, <3>2, <5>3 DEF Exit, Crash
        <5> QED BY <4>5, <5>1, <5>2, <5>3 DEF Runner
      <4> QED BY <3>2, <4>1, <4>2, <4>3, <4>4, <4>5, StepKinds
    <3> QED BY <3>3, <3>4
  <2> QED BY <2>1, <2>2, VerdictSteps
<1> QED BY <1>1, <1>2, Shapes, PlayInvariant, LineInvariant, PTL DEF Spec
=============================================================================
