------------------------- MODULE EventJournalProofs -------------------------
(***************************************************************************)
(* What the journal calls completed has been done, proved for any number   *)
(* of repetitions, log lines, remembered events and resumed runs: through  *)
(* two readers that overlap as they like, half-written files, documents    *)
(* that wait to be written, the death of the process and its resumption.   *)
(***************************************************************************)
EXTENDS EventJournal, SequenceTheorems, NaturalsInduction, WellFoundedInduction, TLAPS

Steps == {"record", "apply", "save"}

\* What a task may say, in memory, in the file or in a document.
Marks == Statuses \cup {"torn", "nothing"}

EventSet == [rep : Rep, status : {"running", "done", "failed", "stopped"},
             type : {"status", "log"}, msg : LogTexts \cup {"", "duration", "stderr"}]

\* Events that do not say done of a repetition of which it was never said.
Sound == {e \in EventSet : e.status = "done" => e.rep \in proven}

\* What a reader may have in hand.
Hands == {Idle} \cup {Hand(s, e) : s \in Steps, e \in Sound}

Shaped ==
  /\ play \in {"next", "poll", "over"} /\ due \in SUBSET Rep
  /\ out \in Seq(EventSet)
  /\ lines \in [Readers -> Seq(Sound)]
  /\ hand \in [Readers -> Hands]
  /\ memory \in [Rep -> Marks] /\ disk \in [Rep -> Marks] /\ doc \in [Savers -> [Rep -> Marks]]
  /\ results \in [Rep -> {"none", "clean", "error"}]

\* A play is on only in a run that is; what its runner prints is about the
\* repetition it is at; a dead process has no document in hand.
Ordered ==
  /\ play # "over" => main = "playing"
  /\ play = "poll" => due # {} /\ \A i \in DOMAIN out : out[i].rep = Current
  /\ main = "down" => doc = [p \in Savers |-> Nothing]

\* The evidence that counts: a clean result of a repetition that is to be run
\* again may be replaced.
Counts(r) == r \in proven \/ (results[r] = "clean" /\ ~(main = "playing" /\ r \in due))

Backed(tasks) == \A r \in Rep : tasks[r] = "completed" => Counts(r)

FileBacked == Backed(disk) /\ \A p \in Savers : Backed(doc[p])

JournalInv == Shaped /\ Ordered /\ Backed(memory) /\ FileBacked

\* What a step keeps: nothing said done is unsaid, no evidence is lost.
Keeps == proven \subseteq proven' /\ \A r \in Rep : Counts(r) => Counts(r)'

-----------------------------------------------------------------------------
(* Lemmas about the definitions *)

\* The repetition the play is at is one of those due (main.yml's loop).
LEMMA CurrentIsDue == ASSUME due \in SUBSET Rep, due # {} PROVE Current \in due
<1>1. Rep \subseteq Nat
  BY BoundsAssumption DEF Rep
<1> DEFINE Less == OpToRel(<, Nat)
<1>2. \A i, j \in Nat : <<i, j>> \in Less <=> i < j
  BY DEF OpToRel
<1>3. IsWellFoundedOn(Less, Nat)
  BY NatLessThanWellFounded
<1> HIDE DEF Less
<1>4. PICK r \in due : \A k \in due : ~(<<k, r>> \in Less)
  BY <1>1, <1>3, WFMin
<1>5. ASSUME NEW k \in due PROVE r <= k
  <2>1. ~(k < r)
    BY <1>1, <1>2, <1>4
  <2> QED BY <1>1, <2>1
<1> QED BY <1>5 DEF Current

\* A sequence of sound events stays one when more is proven.
LEMMA SeqGrows == ASSUME NEW S, NEW T, S \subseteq T PROVE Seq(S) \subseteq Seq(T)
OBVIOUS

\* Sequences of one and of two elements.
LEMMA ShortSeqs ==
  ASSUME NEW S, NEW a \in S, NEW b \in S PROVE <<a>> \in Seq(S) /\ <<a, b>> \in Seq(S)
OBVIOUS

\* What each reader has to read, put together.
LEMMA ReaderLines ==
  ASSUME NEW S, NEW a \in S, NEW b \in S PROVE [controller |-> a, tailer |-> b] \in [Readers -> S]
BY DEF Readers

LEMMA EventShape ==
  ASSUME NEW r \in Rep, NEW s \in {"running", "done", "failed", "stopped"},
         NEW m \in {"", "duration", "stderr"}
  PROVE Says(r, s, m) \in EventSet /\ Says(r, s, m).rep = r /\ Says(r, s, m).status = s
BY DEF Says, Event, EventSet

LEMMA ParsedShape ==
  ASSUME NEW e \in EventSet
  PROVE Parsed(e) \in EventSet /\ Parsed(e).rep = e.rep /\ Parsed(e).status = e.status
BY DEF Parsed, EventSet

\* Every line a runner prints is an event of its repetition.
LEMMA OutputShape ==
  ASSUME NEW r \in Rep, NEW s \in {"done", "failed", "stopped", "crash"}, NEW o \in Outputs(r, s)
  PROVE o \in Seq(EventSet) /\ \A i \in DOMAIN o : o[i].rep = r
<1> DEFINE Mine == {e \in EventSet : e.rep = r}
<1>1. PICK logs \in Logs(r) : o = <<Says(r, "running", "")>> \o logs \o
       (CASE s = "crash" -> <<>>
          [] s = "done" -> <<Says(r, "done", ""), Says(r, "done", "duration")>>
          [] OTHER -> <<Says(r, s, ""), Says(r, "failed", "duration")>>)
  BY DEF Outputs
<1>2. logs \in Seq(Mine)
  <2>1. PICK n \in 0 .. LogLines : logs \in [1 .. n -> {LogEvent(r, text) : text \in LogTexts}]
    BY <1>1 DEF Logs
  <2>2. \A text \in LogTexts : LogEvent(r, text) \in Mine
    BY DEF LogEvent, Event, EventSet
  <2>3. n \in Nat
    BY BoundsAssumption, <2>1
  <2> QED BY <2>1, <2>2, <2>3
<1>3. ASSUME NEW t \in {"running", "done", "failed", "stopped"}, NEW m \in {"", "duration"}
      PROVE Says(r, t, m) \in Mine
  BY DEF Says, Event, EventSet
<1> DEFINE first == <<Says(r, "running", "")>> \o logs
           last(t, u) == <<Says(r, t, ""), Says(r, u, "duration")>>
<1>4. o = first \o <<>> \/ o = first \o last("done", "done")
      \/ \E t \in {"failed", "stopped"} : o = first \o last(t, "failed")
  BY <1>1
<1>5. first \in Seq(Mine)
  <2> HIDE DEF Mine
  <2>1. <<Says(r, "running", "")>> \in Seq(Mine)
    BY <1>3, ShortSeqs
  <2> QED BY <1>2, <2>1, ConcatProperties
<1>6. ASSUME NEW t \in {"done", "failed", "stopped"}, NEW u \in {"done", "failed"}
      PROVE last(t, u) \in Seq(Mine)
  <2> HIDE DEF Mine
  <2>1. Says(r, t, "") \in Mine /\ Says(r, u, "duration") \in Mine
    BY <1>3
  <2> QED BY <2>1, ShortSeqs
<1>7. o \in Seq(Mine)
  <2> HIDE DEF Mine, first, last
  <2>1. CASE o = first \o <<>>
    BY <1>5, <2>1, ConcatProperties
  <2>2. CASE o = first \o last("done", "done")
    BY <1>5, <1>6, <2>2, ConcatProperties
  <2>3. ASSUME NEW t \in {"failed", "stopped"}, o = first \o last(t, "failed") PROVE o \in Seq(Mine)
    BY <1>5, <1>6, <2>3, ConcatProperties
  <2> QED BY <1>4, <2>1, <2>2, <2>3
<1> QED BY <1>7

-----------------------------------------------------------------------------
(* Lemmas about the steps *)

\* What the play says is sound once it has been heard.
LEMMA HeardSound ==
  ASSUME NEW seq \in Seq(EventSet), \A i \in DOMAIN seq : seq[i].rep = Current, Heard(seq)
  PROVE proven \subseteq proven' /\ Sound \subseteq Sound'
        /\ seq \in Seq(Sound') /\ Untyped(seq) \in Seq(Sound')
<1>1. proven \subseteq proven' /\ \A i \in DOMAIN seq : seq[i].status = "done" => Current \in proven'
  BY DEF Heard
<1>2. Sound \subseteq Sound'
  BY <1>1 DEF Sound
<1>3. Len(seq) \in Nat /\ DOMAIN seq = 1 .. Len(seq) /\ \A i \in DOMAIN seq : seq[i] \in EventSet
  BY LenProperties
<1>4. ASSUME NEW i \in DOMAIN seq PROVE seq[i] \in Sound' /\ Parsed(seq[i]) \in Sound'
  <2>1. Parsed(seq[i]) \in EventSet /\ Parsed(seq[i]).rep = seq[i].rep
        /\ Parsed(seq[i]).status = seq[i].status
    BY <1>3, ParsedShape
  <2> QED BY <1>1, <1>3, <2>1 DEF Sound
<1>5. seq \in [1 .. Len(seq) -> Sound']
  BY <1>3, <1>4, LenProperties
<1>6. Untyped(seq) \in [1 .. Len(seq) -> Sound']
  BY <1>3, <1>4 DEF Untyped
<1> HIDE DEF Sound
<1> QED BY <1>1, <1>2, <1>3, <1>5, <1>6, SeqDef

\* A debug task says a sound event to both readers.
LEMMA DebugSound ==
  ASSUME lines \in [Readers -> Seq(Sound)], NEW e \in EventSet, e.rep = Current, Debug(e)
  PROVE proven \subseteq proven' /\ Sound \subseteq Sound'
        /\ lines' \in [Readers -> Seq(Sound')]
        /\ (e.status = "done" => Current \in proven')
<1>1. proven \subseteq proven' /\ (e.status = "done" => Current \in proven')
  BY DEF Debug, Heard
<1>2. Sound \subseteq Sound'
  BY <1>1 DEF Sound
<1>3. e \in Sound' /\ Parsed(e) \in Sound'
  BY <1>1, ParsedShape DEF Sound
<1>4. lines.controller \in Seq(Sound') /\ lines.tailer \in Seq(Sound')
  BY <1>2, SeqGrows DEF Readers
<1>5. Append(lines.controller, Parsed(e)) \in Seq(Sound') /\ Append(lines.tailer, e) \in Seq(Sound')
  BY <1>3, <1>4
<1>6. lines' \in [Readers -> Seq(Sound')]
  BY <1>5, ReaderLines DEF Debug
<1> QED BY <1>1, <1>2, <1>6

\* A save that has started: the document is what memory holds, the file is empty.
LEMMA OpenBacked ==
  ASSUME JournalInv, Keeps, NEW p \in Savers, Open(p, memory'),
         memory' \in [Rep -> Marks], Backed(memory)'
  PROVE disk' \in [Rep -> Marks] /\ doc' \in [Savers -> [Rep -> Marks]] /\ FileBacked'
<1>1. disk' \in [Rep -> Marks] /\ doc' \in [Savers -> [Rep -> Marks]]
  BY DEF Open, JournalInv, Shaped, Torn, Marks
<1>2. Backed(disk)'
  BY DEF Open, Torn, Backed
<1>3. ASSUME NEW q \in Savers PROVE Backed(doc[q])'
  <2>1. CASE q = p
    BY <2>1 DEF Open, JournalInv, Shaped, Backed
  <2>2. CASE q # p
    BY <2>2 DEF Open, JournalInv, Shaped, FileBacked, Backed, Keeps
  <2> QED BY <2>1, <2>2
<1> QED BY <1>1, <1>2, <1>3 DEF FileBacked

\* A save that has ended: the file holds the document, or what two of them make.
LEMMA CloseBacked ==
  ASSUME JournalInv, Keeps, NEW p \in Savers, Close(p)
  PROVE disk' \in [Rep -> Marks] /\ doc' \in [Savers -> [Rep -> Marks]] /\ FileBacked'
<1>1. disk' = doc[p] \/ disk' = Torn
  BY DEF Close
<1>2. disk' \in [Rep -> Marks] /\ doc' \in [Savers -> [Rep -> Marks]]
  BY <1>1 DEF Close, JournalInv, Shaped, Torn, Nothing, Marks
<1>3. Backed(disk)'
  BY <1>1 DEF JournalInv, FileBacked, Backed, Keeps, Torn
<1>4. ASSUME NEW q \in Savers PROVE Backed(doc[q])'
  BY DEF Close, JournalInv, Shaped, FileBacked, Backed, Keeps, Nothing
<1> QED BY <1>2, <1>3, <1>4 DEF FileBacked

\* Steps that leave the journal alone keep it backed.
LEMMA JournalKept ==
  ASSUME JournalInv, Keeps, UNCHANGED memory PROVE Backed(memory)'
BY DEF JournalInv, Backed, Keeps

LEMMA FileKept ==
  ASSUME JournalInv, Keeps, UNCHANGED <<disk, doc>>
  PROVE disk' \in [Rep -> Marks] /\ doc' \in [Savers -> [Rep -> Marks]] /\ FileBacked'
BY DEF JournalInv, Shaped, FileBacked, Backed, Keeps

\* What the readers have in hand stays sound.
LEMMA HandKept ==
  ASSUME hand \in [Readers -> Hands], Sound \subseteq Sound', UNCHANGED hand
  PROVE hand' \in [Readers -> Hands']
<1>1. Hands \subseteq Hands'
  BY DEF Hands, Hand, Idle
<1> QED BY <1>1

\* What a reader has in hand is sound.
LEMMA HeldSound ==
  ASSUME Shaped, NEW p \in Readers, hand[p].step # "idle" PROVE Held(p) \in Sound
<1>1. hand[p] \in Hands
  BY DEF Shaped
<1>2. hand[p] # Idle
  BY DEF Idle
<1>3. PICK s \in Steps, e \in Sound : hand[p] = Hand(s, e)
  BY <1>1, <1>2 DEF Hands
<1> QED BY <1>3 DEF Held, Hand

\* Where nothing is said, what is sound stays so.
LEMMA SoundKept == ASSUME UNCHANGED proven PROVE Sound' = Sound /\ Hands' = Hands
BY DEF Sound, Hands

-----------------------------------------------------------------------------
(* The invariant *)

LEMMA JournalInit == ASSUME Init PROVE JournalInv
<1>1. Shaped
  <2>1. Idle \in Hands
    BY DEF Hands
  <2> QED BY <2>1 DEF Init, Shaped, Readers, Savers, Marks, Statuses, Nothing
<1>2. Ordered
  BY DEF Init, Ordered
<1>3. Backed(memory) /\ FileBacked
  BY DEF Init, Backed, FileBacked, Nothing
<1> QED BY <1>1, <1>2, <1>3 DEF JournalInv

LEMMA StartRepStep == ASSUME JournalInv, StartRep PROVE JournalInv'
<1> DEFINE e == Says(Current, "running", "")
<1>1. Shaped /\ Ordered
  BY DEF JournalInv
<1>2. /\ play = "next" /\ due # {} /\ play' = "poll" /\ Debug(e)
      /\ UNCHANGED <<due, hand, memory, disk, doc, results, main>>
      /\ \E s \in {"done", "failed", "stopped", "crash"} : out' \in Outputs(Current, s)
  BY DEF StartRep, file
<1>3. due \in SUBSET Rep /\ Current \in due /\ Current \in Rep
  BY <1>1, <1>2, CurrentIsDue DEF Shaped
<1>4. e \in EventSet /\ e.rep = Current
  BY <1>3, EventShape
<1>5. proven \subseteq proven' /\ Sound \subseteq Sound' /\ lines' \in [Readers -> Seq(Sound')]
  BY <1>1, <1>2, <1>4, DebugSound DEF Shaped
<1>6. Keeps
  BY <1>2, <1>5 DEF Keeps, Counts
<1>7. Current' = Current
  BY <1>2 DEF Current
<1>8. out' \in Seq(EventSet) /\ \A i \in DOMAIN out' : out'[i].rep = Current
  BY <1>2, <1>3, OutputShape
<1>9. hand' \in [Readers -> Hands']
  BY <1>1, <1>2, <1>5, HandKept DEF Shaped
<1>10. /\ Backed(memory)' /\ FileBacked'
       /\ disk' \in [Rep -> Marks] /\ doc' \in [Savers -> [Rep -> Marks]]
  BY <1>2, <1>6, JournalKept, FileKept
<1>11. Ordered'
  BY <1>1, <1>2, <1>7, <1>8 DEF Ordered
<1>12. Shaped'
  BY <1>1, <1>2, <1>5, <1>8, <1>9, <1>10 DEF Shaped
<1> QED BY <1>10, <1>11, <1>12 DEF JournalInv

LEMMA PollStep == ASSUME JournalInv, Poll PROVE JournalInv'
<1>1. Shaped /\ Ordered
  BY DEF JournalInv
<1>2. PICK n \in 1 .. Len(out) :
        /\ lines' = [controller |-> lines.controller \o Untyped(SubSeq(out, 1, n)),
                     tailer |-> lines.tailer \o <<SubSeq(out, 1, n)[1]>> \o SubSeq(out, 1, n)]
        /\ Heard(SubSeq(out, 1, n)) /\ out' = SubSeq(out, n + 1, Len(out))
  BY DEF Poll
<1>3. play = "poll" /\ UNCHANGED <<play, due, hand, memory, disk, doc, results, main>>
  BY DEF Poll, file
<1> DEFINE batch == SubSeq(out, 1, n)
<1>4. out \in Seq(EventSet) /\ Len(out) \in Nat /\ DOMAIN out = 1 .. Len(out)
      /\ \A i \in 1 .. Len(out) : out[i] \in EventSet /\ out[i].rep = Current
  BY <1>1, <1>3, LenProperties DEF Shaped, Ordered
<1>5. /\ batch \in Seq(EventSet) /\ Len(batch) = n /\ DOMAIN batch = 1 .. n
      /\ \A i \in 1 .. n : batch[i] = out[i]
  BY <1>4
<1>6. /\ out' \in Seq(EventSet)
      /\ \A i \in DOMAIN out' : out'[i].rep = Current
  BY <1>2, <1>4
<1>7. proven \subseteq proven' /\ Sound \subseteq Sound'
      /\ batch \in Seq(Sound') /\ Untyped(batch) \in Seq(Sound')
  <2>1. \A i \in DOMAIN batch : batch[i].rep = Current
    BY <1>4, <1>5
  <2>2. batch \in Seq(EventSet) /\ Heard(batch)
    BY <1>2, <1>5
  <2> HIDE DEF batch
  <2> QED BY <2>1, <2>2, HeardSound
<1>8. lines' \in [Readers -> Seq(Sound')]
  <2>1. lines.controller \in Seq(Sound') /\ lines.tailer \in Seq(Sound')
    BY <1>1, <1>7, SeqGrows DEF Shaped, Readers
  <2>2. batch[1] \in Sound'
    BY <1>5, <1>7, ElementOfSeq
  <2>3. <<batch[1]>> \in Seq(Sound')
    BY <2>2, ShortSeqs
  <2>4. lines.tailer \o <<batch[1]>> \in Seq(Sound')
    BY <2>1, <2>3, ConcatProperties
  <2>5. lines.tailer \o <<batch[1]>> \o batch \in Seq(Sound')
    BY <1>7, <2>4, ConcatProperties
  <2>6. lines.controller \o Untyped(batch) \in Seq(Sound')
    BY <1>7, <2>1, ConcatProperties
  <2> QED BY <1>2, <2>5, <2>6, ReaderLines
<1>9. Keeps
  BY <1>3, <1>7 DEF Keeps, Counts
<1>10. Current' = Current
  BY <1>3 DEF Current
<1>11. hand' \in [Readers -> Hands']
  BY <1>1, <1>3, <1>7, HandKept DEF Shaped
<1>12. /\ Backed(memory)' /\ FileBacked'
       /\ disk' \in [Rep -> Marks] /\ doc' \in [Savers -> [Rep -> Marks]]
  BY <1>3, <1>9, JournalKept, FileKept
<1>13. Ordered'
  BY <1>1, <1>3, <1>6, <1>10 DEF Ordered
<1>14. Shaped'
  BY <1>1, <1>3, <1>6, <1>8, <1>11, <1>12 DEF Shaped
<1> QED BY <1>12, <1>13, <1>14 DEF JournalInv

\* The collected results may replace the clean result of the repetition judged,
\* which does not count before: it was due.
LEMMA JudgeStep == ASSUME JournalInv, Judge PROVE JournalInv'
<1>1. Shaped /\ Ordered
  BY DEF JournalInv
<1>2. PICK entry \in {"none", "clean", "error"} :
        results' = [results EXCEPT ![Current] = IF entry = "none" THEN @ ELSE entry]
  BY DEF Judge, Entries
<1>3. /\ play = "poll" /\ play' \in {"next", "over"} /\ due' \subseteq due
      /\ UNCHANGED <<out, hand, memory, disk, doc, main>>
      /\ \/ Debug(Says(Current, "done", ""))
         \/ Debug(Says(Current, "failed", "stderr")) /\ due' = {}
  BY DEF Judge, file
<1>4. due \in SUBSET Rep /\ Current \in due /\ Current \in Rep /\ main = "playing"
  BY <1>1, <1>3, CurrentIsDue DEF Shaped, Ordered
<1>5. proven \subseteq proven' /\ Sound \subseteq Sound' /\ lines' \in [Readers -> Seq(Sound')]
  <2>1. Says(Current, "done", "") \in EventSet /\ Says(Current, "done", "").rep = Current
    BY <1>4, EventShape
  <2>2. Says(Current, "failed", "stderr") \in EventSet
        /\ Says(Current, "failed", "stderr").rep = Current
    BY <1>4, EventShape
  <2>3. PICK e \in EventSet : e.rep = Current /\ Debug(e)
    BY <1>3, <2>1, <2>2
  <2> QED BY <1>1, <2>3, DebugSound DEF Shaped
<1>6. results' \in [Rep -> {"none", "clean", "error"}]
  BY <1>1, <1>2 DEF Shaped
<1>7. ASSUME NEW r \in Rep, Counts(r) PROVE Counts(r)'
  <2>1. CASE r = Current
    BY <1>4, <1>5, <1>7, <2>1 DEF Counts
  <2>2. CASE r # Current
    <3>1. results'[r] = results[r]
      BY <1>1, <1>2, <2>2 DEF Shaped
    <3> QED BY <1>3, <1>5, <1>7, <3>1 DEF Counts
  <2> QED BY <2>1, <2>2
<1>8. Keeps
  BY <1>5, <1>7 DEF Keeps
<1>9. hand' \in [Readers -> Hands']
  BY <1>1, <1>3, <1>5, HandKept DEF Shaped
<1>10. /\ Backed(memory)' /\ FileBacked'
       /\ disk' \in [Rep -> Marks] /\ doc' \in [Savers -> [Rep -> Marks]]
  BY <1>3, <1>8, JournalKept, FileKept
<1>11. Ordered'
  BY <1>3, <1>4 DEF Ordered
<1>12. Shaped'
  BY <1>1, <1>3, <1>4, <1>5, <1>6, <1>9, <1>10 DEF Shaped
<1> QED BY <1>10, <1>11, <1>12 DEF JournalInv

\* The steps of the play that only end it.
LEMMA PlayEndStep == ASSUME JournalInv, PlayOver \/ KillPlay PROVE JournalInv'
<1>1. Shaped /\ Ordered
  BY DEF JournalInv
<1>2. play' = "over" /\ UNCHANGED <<due, out, lines, hand, memory, disk, doc, results, main, proven>>
  BY DEF PlayOver, KillPlay, file, history
<1>3. Keeps
  BY <1>2 DEF Keeps, Counts
<1>4. Backed(memory)' /\ FileBacked'
  BY <1>2, <1>3, JournalKept, FileKept
<1>5. Ordered'
  BY <1>1, <1>2 DEF Ordered
<1>6. Shaped'
  BY <1>1, <1>2, SoundKept DEF Shaped
<1> QED BY <1>4, <1>5, <1>6 DEF JournalInv

\* The stop and its save.
LEMMA StopStep == ASSUME JournalInv, Stop \/ StopSaved PROVE JournalInv'
<1>1. Shaped /\ Ordered
  BY DEF JournalInv
<1>2. main # "down"
      /\ UNCHANGED <<play, due, out, lines, hand, memory, results, main, proven>>
  BY DEF Stop, StopSaved, Up, playSide, history
<1>3. Keeps
  BY <1>2 DEF Keeps, Counts
<1>4. Backed(memory)'
  BY <1>2, <1>3, JournalKept
<1>5. FileBacked' /\ disk' \in [Rep -> Marks] /\ doc' \in [Savers -> [Rep -> Marks]]
  <2>1. CASE Stop
    <3>1. Open("ui", memory') /\ memory' \in [Rep -> Marks] /\ "ui" \in Savers
      BY <1>1, <1>2, <2>1 DEF Stop, Shaped, Savers
    <3> QED BY <1>3, <1>4, <3>1, OpenBacked
  <2>2. CASE StopSaved
    BY <1>3, <2>2, CloseBacked DEF StopSaved, Savers
  <2> QED BY <2>1, <2>2
<1>6. Current' = Current
  BY <1>2 DEF Current
<1>7. Ordered'
  BY <1>1, <1>2, <1>6 DEF Ordered
<1>8. Shaped'
  BY <1>1, <1>2, <1>5, SoundKept DEF Shaped
<1> QED BY <1>4, <1>5, <1>7, <1>8 DEF JournalInv

\* A reader that takes a line, or drops it, or remembers it.
LEMMA CheckStep == ASSUME JournalInv, NEW p \in Readers, Check(p) \/ Record(p) PROVE JournalInv'
<1>1. Shaped /\ Ordered
  BY DEF JournalInv
<1>2. UNCHANGED <<play, due, out, memory, disk, doc, results, main, proven>>
  BY DEF Check, Record, file, playSide, history
<1>3. Keeps
  BY <1>2 DEF Keeps, Counts
<1>4. Backed(memory)' /\ FileBacked'
  BY <1>2, <1>3, JournalKept, FileKept
<1>5. Sound' = Sound /\ Hands' = Hands
  BY <1>2, SoundKept
<1>6. lines' \in [Readers -> Seq(Sound)] /\ hand' \in [Readers -> Hands]
  <2>1. CASE Check(p)
    <3>1. lines[p] \in Seq(Sound) /\ lines[p] # <<>>
      BY <1>1, <2>1 DEF Shaped, Check
    <3>2. Head(lines[p]) \in Sound /\ Tail(lines[p]) \in Seq(Sound)
      BY <3>1, HeadTailProperties
    <3>3. Hand("record", Head(lines[p])) \in Hands /\ Idle \in Hands
      BY <3>2 DEF Hands, Steps
    <3> QED BY <1>1, <2>1, <3>2, <3>3 DEF Shaped, Check
  <2>2. CASE Record(p)
    <3>1. Held(p) \in Sound
      BY <1>1, <2>2, HeldSound DEF Record
    <3>2. Hand("apply", Held(p)) \in Hands
      BY <3>1 DEF Hands, Steps
    <3> QED BY <1>1, <2>2, <3>2 DEF Shaped, Record
  <2> QED BY <2>1, <2>2
<1>7. Current' = Current
  BY <1>2 DEF Current
<1>8. Ordered'
  BY <1>1, <1>2, <1>7 DEF Ordered
<1>9. Shaped'
  BY <1>1, <1>2, <1>5, <1>6 DEF Shaped
<1> QED BY <1>4, <1>8, <1>9 DEF JournalInv

\* A task becomes completed only by a sound event that says done (LogSink.emit).
LEMMA ApplyStep == ASSUME JournalInv, NEW p \in Readers, Apply(p) PROVE JournalInv'
<1>1. Shaped /\ Ordered
  BY DEF JournalInv
<1>2. UNCHANGED <<play, due, out, lines, results, main, proven>> /\ main # "down"
  BY DEF Apply, playSide, Listening, Up
<1>3. Keeps
  BY <1>2 DEF Keeps, Counts
<1>4. Held(p) \in Sound
  BY <1>1, HeldSound DEF Apply
<1>5. memory' = [memory EXCEPT ![Held(p).rep] = Mapped(Held(p).status)]
      /\ hand' = [hand EXCEPT ![p] = Hand("save", Held(p))] /\ Open(p, memory')
  BY DEF Apply
<1>6. memory' \in [Rep -> Marks]
  BY <1>1, <1>5 DEF Shaped, Mapped, Marks, Statuses
<1>7. Backed(memory)'
  <2>1. SUFFICES ASSUME NEW r \in Rep, memory'[r] = "completed" PROVE Counts(r)'
    BY DEF Backed
  <2>2. CASE r = Held(p).rep
    <3>1. Held(p).status = "done"
      BY <1>1, <1>4, <1>5, <2>1, <2>2 DEF Shaped, Mapped, Sound, EventSet
    <3> QED BY <1>2, <1>4, <2>2, <3>1 DEF Sound, Counts
  <2>3. CASE r # Held(p).rep
    BY <1>1, <1>3, <1>5, <2>1, <2>3 DEF Shaped, JournalInv, Backed, Keeps
  <2> QED BY <2>2, <2>3
<1>8. FileBacked' /\ disk' \in [Rep -> Marks] /\ doc' \in [Savers -> [Rep -> Marks]]
  BY <1>3, <1>5, <1>6, <1>7, OpenBacked DEF Savers
<1>9. Sound' = Sound /\ Hands' = Hands
  BY <1>2, SoundKept
<1>10. hand' \in [Readers -> Hands]
  <2>1. Hand("save", Held(p)) \in Hands
    BY <1>4 DEF Hands, Steps
  <2> QED BY <1>1, <1>5, <2>1 DEF Shaped
<1>11. Current' = Current
  BY <1>2 DEF Current
<1>12. Ordered'
  BY <1>1, <1>2, <1>11 DEF Ordered
<1>13. Shaped'
  BY <1>1, <1>2, <1>6, <1>8, <1>9, <1>10 DEF Shaped
<1> QED BY <1>7, <1>8, <1>12, <1>13 DEF JournalInv

LEMMA SavedStep == ASSUME JournalInv, NEW p \in Readers, Saved(p) PROVE JournalInv'
<1>1. Shaped /\ Ordered
  BY DEF JournalInv
<1>2. UNCHANGED <<play, due, out, lines, memory, results, main, proven>> /\ main # "down"
      /\ hand' = [hand EXCEPT ![p] = Idle] /\ Close(p) /\ p \in Savers
  BY DEF Saved, playSide, history, Listening, Up, Savers
<1>3. Keeps
  BY <1>2 DEF Keeps, Counts
<1>4. Backed(memory)'
  BY <1>2, <1>3, JournalKept
<1>5. FileBacked' /\ disk' \in [Rep -> Marks] /\ doc' \in [Savers -> [Rep -> Marks]]
  BY <1>2, <1>3, CloseBacked
<1>6. Sound' = Sound /\ Hands' = Hands
  BY <1>2, SoundKept
<1>7. hand' \in [Readers -> Hands]
  BY <1>1, <1>2 DEF Shaped, Hands
<1>8. Current' = Current
  BY <1>2 DEF Current
<1>9. Ordered'
  BY <1>1, <1>2, <1>8 DEF Ordered
<1>10. Shaped'
  BY <1>1, <1>2, <1>5, <1>6, <1>7 DEF Shaped
<1> QED BY <1>4, <1>5, <1>9, <1>10 DEF JournalInv

\* Once the play is over a clean result counts, whatever was still due, so the
\* backfill may complete a task on it (_update_task_status).
LEMMA AfterPlayStep ==
  ASSUME JournalInv, LeavePlay \/ Backfill \/ BackfillSaved \/ FinalState \/ FinalStateSaved
  PROVE JournalInv'
<1>1. Shaped /\ Ordered
  BY DEF JournalInv
<1>2. /\ UNCHANGED <<play, due, out, hand, results, proven>> /\ main' \notin {"playing", "down"}
      /\ lines' = lines \/ lines' = [lines EXCEPT !["controller"] = <<>>]
      /\ main \in {"playing", "backfill", "backfilled", "teardown", "final"} /\ play = "over"
  BY <1>1 DEF LeavePlay, Backfill, BackfillSaved, FinalState, FinalStateSaved, playSide, history,
     Ordered
<1>3. Keeps
  BY <1>2 DEF Keeps, Counts
<1>4. memory' \in [Rep -> Marks] /\ Backed(memory)'
  <2>1. CASE Backfill
    <3>1. memory' = [r \in Rep |-> Backfilled(r)] /\ main' = "backfilled"
      BY <2>1 DEF Backfill
    <3>2. ASSUME NEW r \in Rep PROVE Backfilled(r) \in Marks
      BY <1>1 DEF Shaped, Backfilled, Marks, Statuses
    <3>3. ASSUME NEW r \in Rep, Backfilled(r) = "completed" PROVE Counts(r)'
      <4>1. results[r] = "clean" \/ memory[r] = "completed"
        BY <3>3 DEF Backfilled
      <4> QED BY <1>2, <1>3, <3>1, <4>1 DEF Counts, JournalInv, Backed, Keeps
    <3> QED BY <3>1, <3>2, <3>3 DEF Backed
  <2>2. CASE memory' = memory
    BY <1>1, <1>3, <2>2, JournalKept DEF Shaped
  <2> QED BY <2>1, <2>2 DEF LeavePlay, BackfillSaved, FinalState, FinalStateSaved
<1>5. FileBacked' /\ disk' \in [Rep -> Marks] /\ doc' \in [Savers -> [Rep -> Marks]]
  <2>1. CASE Open("controller", memory')
    BY <1>3, <1>4, <2>1, OpenBacked DEF Savers, Readers
  <2>2. CASE Close("controller")
    BY <1>3, <2>2, CloseBacked DEF Savers, Readers
  <2>3. CASE UNCHANGED <<disk, doc>>
    BY <1>3, <2>3, FileKept
  <2> QED BY <2>1, <2>2, <2>3
          DEF LeavePlay, Backfill, BackfillSaved, FinalState, FinalStateSaved, file
<1>6. Sound' = Sound /\ Hands' = Hands
  BY <1>2, SoundKept
<1>7. lines' \in [Readers -> Seq(Sound)]
  <2>1. <<>> \in Seq(Sound)
    BY EmptySeq
  <2>2. lines \in [Readers -> Seq(Sound)]
    BY <1>1 DEF Shaped
  <2> QED BY <1>2, <2>1, <2>2
<1>8. Ordered'
  BY <1>2 DEF Ordered
<1>9. Shaped'
  BY <1>1, <1>2, <1>4, <1>5, <1>6, <1>7 DEF Shaped
<1> QED BY <1>4, <1>5, <1>8, <1>9 DEF JournalInv

\* The UI thread closes the run: it fails tasks and completes none.
LEMMA CloseRunStep == ASSUME JournalInv, Complete \/ Completed PROVE JournalInv'
<1>1. Shaped /\ Ordered
  BY DEF JournalInv
<1>2. /\ UNCHANGED <<play, due, out, lines, hand, results, proven>>
      /\ main' \notin {"playing", "down"} /\ play = "over"
  BY <1>1 DEF Complete, Completed, playSide, history, Ordered
<1>3. Keeps
  BY <1>2 DEF Keeps, Counts
<1>4. memory' \in [Rep -> Marks]
  BY <1>1 DEF Complete, Completed, Shaped, Marks, Statuses
<1>5. Backed(memory)'
  BY <1>1, <1>3 DEF Complete, Completed, JournalInv, Shaped, Backed, Keeps
<1>6. FileBacked' /\ disk' \in [Rep -> Marks] /\ doc' \in [Savers -> [Rep -> Marks]]
  <2>1. CASE Open("ui", memory')
    BY <1>3, <1>4, <1>5, <2>1, OpenBacked DEF Savers
  <2>2. CASE Close("ui")
    BY <1>3, <2>2, CloseBacked DEF Savers
  <2>3. CASE UNCHANGED <<disk, doc>>
    BY <1>3, <2>3, FileKept
  <2> QED BY <2>1, <2>2, <2>3 DEF Complete, Completed, file
<1>7. Ordered'
  BY <1>2 DEF Ordered
<1>8. Shaped'
  BY <1>1, <1>2, <1>4, <1>6, SoundKept DEF Shaped
<1> QED BY <1>5, <1>6, <1>7, <1>8 DEF JournalInv

\* The process ends: the file as it is and the results remain, and they count.
LEMMA DownStep == ASSUME JournalInv, Down PROVE JournalInv'
<1>1. Shaped
  BY DEF JournalInv
<1>2. /\ main' = "down" /\ play' = "over" /\ due' = {} /\ out' = <<>>
      /\ hand' = [p \in Readers |-> Idle] /\ lines' = [p \in Readers |-> <<>>]
      /\ memory' = [r \in Rep |-> "pending"] /\ doc' = [p \in Savers |-> Nothing]
      /\ UNCHANGED <<disk, results, proven>>
  BY DEF Down
<1>3. Keeps
  BY <1>2 DEF Keeps, Counts
<1>4. Backed(memory)'
  BY <1>2 DEF Backed
<1>5. FileBacked'
  BY <1>2, <1>3 DEF JournalInv, FileBacked, Backed, Keeps, Nothing
<1>6. Ordered'
  BY <1>2 DEF Ordered
<1>7. Shaped'
  BY <1>1, <1>2, SoundKept DEF Shaped, Marks, Statuses, Nothing, Hands
<1> QED BY <1>4, <1>5, <1>6, <1>7 DEF JournalInv

\* A resumed run: what the file calls completed is not due, so its result stands.
LEMMA ResumeStep == ASSUME JournalInv, Resume PROVE JournalInv'
<1>1. Shaped /\ Ordered
  BY DEF JournalInv
<1>2. /\ main = "down" /\ main' = "playing" /\ play' = "next" /\ memory' = disk
      /\ due' = {r \in Rep : disk[r] # "completed"}
      /\ UNCHANGED <<out, lines, hand, disk, doc, results, proven>>
  BY DEF Resume, file, history
<1>3. ASSUME NEW r \in Rep, disk[r] = "completed" PROVE Counts(r)'
  BY <1>2, <1>3 DEF JournalInv, FileBacked, Backed, Counts
<1>4. Backed(memory)' /\ Backed(disk)'
  BY <1>2, <1>3 DEF Backed
<1>5. \A p \in Savers : Backed(doc[p])'
  BY <1>1, <1>2 DEF Ordered, Backed, Nothing
<1>6. Ordered'
  BY <1>2 DEF Ordered
<1>7. Shaped'
  BY <1>1, <1>2, SoundKept DEF Shaped
<1> QED BY <1>4, <1>5, <1>6, <1>7 DEF JournalInv, FileBacked

LEMMA JournalStep == ASSUME JournalInv, [Next]_vars PROVE JournalInv'
<1>1. CASE Halted \/ UNCHANGED vars
  <2>1. UNCHANGED <<play, due, out, lines, hand, memory, disk, doc, results, main, proven>>
    BY <1>1 DEF Halted, vars, playSide, file, history
  <2>2. Sound' = Sound /\ Hands' = Hands
    BY <2>1, SoundKept
  <2>3. Keeps
    BY <2>1 DEF Keeps, Counts
  <2>4. Backed(memory)' /\ FileBacked'
    BY <2>1, <2>3, JournalKept, FileKept
  <2>5. Current' = Current
    BY <2>1 DEF Current
  <2>6. Ordered'
    BY <2>1, <2>5 DEF JournalInv, Ordered
  <2>7. Shaped'
    BY <2>1, <2>2 DEF JournalInv, Shaped
  <2> QED BY <2>4, <2>6, <2>7 DEF JournalInv
<1>2. ASSUME NEW p \in Readers, Reader(p) PROVE JournalInv'
  BY <1>2, CheckStep, ApplyStep, SavedStep DEF Reader
<1> QED
  BY <1>1, <1>2, StartRepStep, PollStep, JudgeStep, PlayEndStep, StopStep, AfterPlayStep,
     CloseRunStep, DownStep, ResumeStep DEF Next

-----------------------------------------------------------------------------
(* The theorem *)

\* What the journal calls completed, in memory or in its file, was said to be done
\* or left a clean result, however the two readers, the savers and the deaths of
\* the process interleave (LogSink.emit, _update_task_status, load_resume_journal).
THEOREM CompletedIsDone == Spec => []CompletedHasEvidence
<1>1. Init => JournalInv
  BY JournalInit
<1>2. JournalInv /\ [Next]_vars => JournalInv'
  BY JournalStep
<1>3. JournalInv => CompletedHasEvidence
  BY DEF JournalInv, FileBacked, Backed, Counts, CompletedHasEvidence
<1> QED BY <1>1, <1>2, <1>3, PTL DEF Spec

-----------------------------------------------------------------------------
(* Types *)

\* What memory, file and documents hold is a status per repetition, but for the
\* moment in which a file is open; whoever is about to write has a document.
Maps == [Rep -> Statuses]
SavesInv ==
  /\ memory \in Maps /\ disk \in Maps \cup {Torn} /\ doc \in [Savers -> Maps \cup {Nothing}]
  /\ \A p \in Readers : hand[p].step = "save" => doc[p] \in Maps
  /\ main = "final" => doc["controller"] \in Maps
  /\ main # "playing" => hand["controller"] = Idle

\* The set of the dedupe lags behind its queue, never ahead of it.
DedupeInv ==
  /\ recent \in Seq(EventSet) /\ Len(recent) <= Window
  /\ known \subseteq {recent[i] : i \in DOMAIN recent}

Places == {"playing", "backfill", "backfilled", "teardown", "final", "ui", "closing", "closed",
           "down"}
FlagsInv ==
  /\ stopped \in BOOLEAN /\ ending \in {"none", "done", "failed", "stopped", "crash"}
  /\ main \in Places /\ run \in 1 .. Runs

LEMMA FlagsInit == Init => FlagsInv
<1> SUFFICES ASSUME Init PROVE FlagsInv
  OBVIOUS
<1>1. run \in 1 .. Runs
  BY BoundsAssumption DEF Init
<1> QED
  BY <1>1 DEF Init, FlagsInv, Places

LEMMA FlagsStep == FlagsInv /\ [Next]_vars => FlagsInv'
<1> SUFFICES ASSUME FlagsInv, [Next]_vars PROVE FlagsInv'
  OBVIOUS
<1> USE DEF FlagsInv, Places
<1>1. CASE StartRep \/ Poll \/ Judge \/ PlayOver \/ KillPlay
  BY <1>1 DEF StartRep, Poll, Judge, PlayOver, KillPlay
<1>2. CASE Stop \/ StopSaved
  BY <1>2 DEF Stop, StopSaved, playSide
<1>3. ASSUME NEW p \in Readers, Reader(p) PROVE FlagsInv'
  BY <1>3 DEF Reader, Check, Record, Apply, Saved, playSide
<1>4. CASE LeavePlay \/ Backfill \/ BackfillSaved \/ FinalState \/ FinalStateSaved
  BY <1>4 DEF LeavePlay, Backfill, BackfillSaved, FinalState, FinalStateSaved, playSide
<1>5. CASE Complete \/ Completed \/ Down
  BY <1>5 DEF Complete, Completed, Down, playSide
<1>6. CASE Resume
  <2>1. UNCHANGED <<ending, stopped>> /\ main' = "playing" /\ run < Runs /\ run' = run + 1
    BY <1>6 DEF Resume
  <2>2. run' \in 1 .. Runs
    BY <2>1, BoundsAssumption
  <2> QED
    BY <2>1, <2>2
<1>7. CASE Halted \/ UNCHANGED vars
  BY <1>7 DEF Halted, vars, playSide
<1> QED
  BY <1>1, <1>2, <1>3, <1>4, <1>5, <1>6, <1>7 DEF Next

\* A reader that records an event forgets the oldest with it.
LEMMA RecordTypes ==
  ASSUME JournalInv, DedupeInv, NEW p \in Readers, Record(p) PROVE DedupeInv'
<1> PICK e : e = Held(p)
  OBVIOUS
<1> DEFINE queue == Append(recent, e)
<1>1. e \in EventSet
  <2>1. hand[p] \in Hands /\ hand[p].step = "record"
    BY DEF JournalInv, Shaped, Record
  <2> QED
    BY <2>1, HeldSound DEF JournalInv, Sound
<1>2. recent \in Seq(EventSet) /\ Len(recent) \in Nat /\ Len(recent) <= Window
  BY LenProperties DEF DedupeInv
<1>3. /\ queue \in Seq(EventSet) /\ Len(queue) = Len(recent) + 1 /\ queue # <<>>
      /\ \A i \in 1 .. Len(recent) : queue[i] = recent[i]
      /\ queue[Len(recent) + 1] = e
  BY <1>1, <1>2
<1>4. DOMAIN recent = 1 .. Len(recent) /\ DOMAIN queue = 1 .. Len(queue)
  BY <1>2, <1>3
<1>5. known \cup {e} \subseteq {queue[i] : i \in DOMAIN queue}
  BY <1>2, <1>3, <1>4 DEF DedupeInv
<1>6. CASE Len(queue) > Window
  <2>1. recent' = Tail(queue) /\ known' = (known \cup {e}) \ {Head(queue)}
    BY <1>6 DEF Record
  <2>2. /\ Head(queue) = queue[1] /\ Tail(queue) \in Seq(EventSet)
        /\ Len(Tail(queue)) = Len(queue) - 1
        /\ \A i \in 1 .. Len(queue) - 1 : Tail(queue)[i] = queue[i + 1]
    BY <1>3, HeadTailProperties
  <2>3. DOMAIN Tail(queue) = 1 .. Len(queue) - 1
    BY <2>2
  <2> HIDE DEF queue
  <2>4. ASSUME NEW k \in known' PROVE \E i \in DOMAIN recent' : recent'[i] = k
    <3>1. PICK i \in 1 .. Len(queue) : queue[i] = k
      BY <1>4, <1>5, <2>1
    <3>2. i # 1
      BY <2>1, <2>2, <3>1
    <3>3. i - 1 \in DOMAIN recent' /\ recent'[i - 1] = k
      BY <1>2, <1>3, <2>1, <2>2, <2>3, <3>1, <3>2
    <3> QED
      BY <3>3
  <2> QED
    BY <1>2, <1>3, <2>1, <2>2, <2>4 DEF DedupeInv
<1>7. CASE ~(Len(queue) > Window)
  <2>1. recent' = queue /\ known' = known \cup {e}
    BY <1>7 DEF Record
  <2>2. Len(queue) <= Window
    BY <1>2, <1>3, <1>7, BoundsAssumption
  <2> QED
    BY <1>3, <1>5, <2>1, <2>2 DEF DedupeInv
<1> QED
  BY <1>6, <1>7

LEMMA DedupeStep == ASSUME JournalInv, DedupeInv, [Next]_vars PROVE DedupeInv'
<1>1. CASE UNCHANGED <<recent, known>>
  BY <1>1 DEF DedupeInv
<1>2. CASE Down
  BY <1>2, BoundsAssumption DEF Down, DedupeInv
<1>3. ASSUME NEW p \in Readers, Record(p) PROVE DedupeInv'
  BY <1>3, RecordTypes
<1>4. StartRep \/ Poll \/ Judge \/ PlayOver \/ KillPlay \/ Stop \/ StopSaved
        => UNCHANGED <<recent, known>>
  BY DEF StartRep, Poll, Judge, PlayOver, KillPlay, Stop, StopSaved, dedupe
<1>5. ASSUME NEW p \in Readers, Check(p) \/ Apply(p) \/ Saved(p) PROVE UNCHANGED <<recent, known>>
  BY <1>5 DEF Check, Apply, Saved, dedupe
<1>6. LeavePlay \/ Backfill \/ BackfillSaved \/ FinalState \/ FinalStateSaved \/ Complete
        \/ Completed \/ Resume \/ Halted \/ UNCHANGED vars
        => UNCHANGED <<recent, known>>
  BY DEF LeavePlay, Backfill, BackfillSaved, FinalState, FinalStateSaved, Complete, Completed,
     Resume,
         Halted, vars, dedupe
<1> QED
  BY <1>1, <1>2, <1>3, <1>4, <1>5, <1>6 DEF Next, Reader

-----------------------------------------------------------------------------
(* Types: the documents *)

\* A document is told from no document, and a whole file from an open one.
LEMMA MapsApart == Nothing \notin Maps /\ Torn \notin Maps
<1>1. 1 \in Rep
  BY BoundsAssumption DEF Rep
<1> QED
  BY <1>1 DEF Nothing, Torn, Maps, Statuses

LEMMA OpenTypes ==
  ASSUME SavesInv, NEW p \in Savers, NEW tasks \in Maps, Open(p, tasks)
  PROVE  /\ disk' \in Maps \cup {Torn} /\ doc' \in [Savers -> Maps \cup {Nothing}]
         /\ doc'[p] \in Maps /\ \A q \in Savers : q # p => doc'[q] = doc[q]
BY DEF SavesInv, Open

LEMMA CloseTypes ==
  ASSUME SavesInv, NEW p \in Savers, doc[p] \in Maps, Close(p)
  PROVE  /\ disk' \in Maps \cup {Torn} /\ doc' \in [Savers -> Maps \cup {Nothing}]
         /\ \A q \in Savers : q # p => doc'[q] = doc[q]
BY DEF SavesInv, Close

LEMMA SavesInit == Init => SavesInv
<1> SUFFICES ASSUME Init PROVE SavesInv
  OBVIOUS
<1>1. memory \in Maps /\ disk = memory
  BY DEF Init, Maps, Statuses
<1>2. doc \in [Savers -> Maps \cup {Nothing}]
  BY DEF Init
<1>3. \A p \in Readers : hand[p] = Idle
  BY DEF Init
<1> QED
  BY <1>1, <1>2, <1>3 DEF Init, SavesInv, Idle, Readers

\* Steps that leave memory, file and documents alone, and hand nobody one.
LEMMA SavesKept ==
  ASSUME SavesInv, UNCHANGED <<memory, disk, doc>>,
         \A p \in Readers : hand'[p].step = "save" => hand[p].step = "save",
         main' = "final" => main = "final",
         main' # "playing" => hand'["controller"] = Idle
  PROVE  SavesInv'
BY DEF SavesInv

LEMMA SavesReader ==
  ASSUME JournalInv, SavesInv, NEW p \in Readers, Reader(p) PROVE SavesInv'
<1>1. p \in Savers /\ hand \in [Readers -> Hands] /\ "controller" \in Readers
  BY DEF Savers, Readers, JournalInv, Shaped
<1>2. main' = main /\ (p = "controller" => main = "playing")
  BY DEF Reader, Check, Record, Apply, Saved, Listening
<1>3. \A h : hand' = [hand EXCEPT ![p] = h] =>
        /\ hand'[p] = h /\ \A q \in Readers : q # p => hand'[q] = hand[q]
        /\ main' # "playing" => hand'["controller"] = Idle
  BY <1>1, <1>2 DEF SavesInv
<1>4. CASE Check(p) \/ Record(p)
  <2>1. UNCHANGED <<memory, disk, doc>>
        /\ \E h : hand' = [hand EXCEPT ![p] = h] /\ h.step # "save"
    BY <1>4 DEF Check, Record, Hand, Idle, file
  <2> QED
    BY <1>2, <1>3, <2>1, SavesKept
<1>5. CASE Apply(p)
  <2>1. PICK e : /\ e = Held(p) /\ hand[p].step = "apply" /\ Open(p, memory')
                 /\ memory' = [memory EXCEPT ![e.rep] = Mapped(e.status)]
                 /\ hand' = [hand EXCEPT ![p] = Hand("save", e)]
    BY <1>5 DEF Apply
  <2>2. memory' \in Maps
    <3>1. Mapped(e.status) \in Statuses
      BY DEF Mapped, Statuses
    <3> QED
      BY <2>1, <3>1 DEF SavesInv, Maps
  <2>3. /\ disk' \in Maps \cup {Torn} /\ doc' \in [Savers -> Maps \cup {Nothing}]
        /\ doc'[p] \in Maps /\ \A q \in Savers : q # p => doc'[q] = doc[q]
    BY <1>1, <2>1, <2>2, OpenTypes
  <2>4. \A q \in Readers : hand'[q].step = "save" => doc'[q] \in Maps
    BY <1>3, <2>1, <2>3 DEF SavesInv, Savers
  <2>5. main' = "final" => doc'["controller"] \in Maps
    BY <1>2, <2>3 DEF SavesInv, Savers, Readers
  <2> QED
    BY <1>3, <2>1, <2>2, <2>3, <2>4, <2>5 DEF SavesInv
<1>6. CASE Saved(p)
  <2>1. /\ hand[p].step = "save" /\ Close(p) /\ memory' = memory
        /\ hand' = [hand EXCEPT ![p] = Idle]
    BY <1>6 DEF Saved
  <2>2. /\ disk' \in Maps \cup {Torn} /\ doc' \in [Savers -> Maps \cup {Nothing}]
        /\ \A q \in Savers : q # p => doc'[q] = doc[q]
    BY <1>1, <2>1, CloseTypes DEF SavesInv
  <2>0. hand'[p].step = "idle" /\ \A q \in Readers : q # p => hand'[q] = hand[q]
    BY <1>3, <2>1 DEF Idle
  <2>3. \A q \in Readers : hand'[q].step = "save" => doc'[q] \in Maps
    BY <2>0, <2>2 DEF SavesInv, Savers
  <2>4. main' = "final" => doc'["controller"] \in Maps
    BY <1>2, <2>2 DEF SavesInv, Savers, Readers
  <2> QED
    BY <1>3, <2>1, <2>2, <2>3, <2>4 DEF SavesInv
<1> QED
  BY <1>4, <1>5, <1>6 DEF Reader

\* The savers of the threads that are no readers: who saves, when, and what.
LEMMA SavesOther ==
  ASSUME SavesInv, NEW p \in {"ui", "controller"}, hand' = hand, memory' \in Maps,
         \/ UNCHANGED <<disk, doc>>
         \/ Open(p, memory')
         \/ doc[p] # Nothing /\ Close(p),
         p = "controller" => main # "playing",
         main' = "playing" <=> main = "playing",
         main' = "final" => (main = "final" /\ p = "ui") \/ Open("controller", memory')
  PROVE  SavesInv'
<1>1. p \in Savers /\ doc \in [Savers -> Maps \cup {Nothing}]
  BY DEF Savers, Readers, SavesInv
<1>2. /\ disk' \in Maps \cup {Torn} /\ doc' \in [Savers -> Maps \cup {Nothing}]
      /\ \A q \in Savers : q # p => doc'[q] = doc[q]
  <2>1. doc[p] # Nothing => doc[p] \in Maps
    BY <1>1
  <2>2. CASE UNCHANGED <<disk, doc>>
    BY <2>2 DEF SavesInv
  <2>3. CASE Open(p, memory')
    BY <1>1, <2>3, OpenTypes
  <2>4. CASE doc[p] # Nothing /\ Close(p)
    BY <1>1, <2>1, <2>4, CloseTypes
  <2> QED
    BY <2>2, <2>3, <2>4
<1>3. \A q \in Readers : hand'[q].step = "save" => doc'[q] \in Maps
  BY <1>2 DEF SavesInv, Savers, Readers, Idle
<1>4. main' = "final" => doc'["controller"] \in Maps
  <2>1. Open("controller", memory') => doc'["controller"] \in Maps
    BY OpenTypes DEF Savers, Readers
  <2> QED
    BY <1>2, <2>1 DEF SavesInv, Savers, Readers
<1> QED
  BY <1>2, <1>3, <1>4 DEF SavesInv

LEMMA SavesStep == ASSUME JournalInv, SavesInv, [Next]_vars PROVE SavesInv'
<1>0. memory \in Maps
  BY DEF SavesInv
<1>1. CASE StartRep \/ Poll \/ Judge \/ PlayOver \/ KillPlay \/ Halted \/ UNCHANGED vars
  <2>1. UNCHANGED <<memory, disk, doc, hand, main>>
    BY <1>1 DEF StartRep, Poll, Judge, PlayOver, KillPlay, Halted, vars, file
  <2> QED
    BY <2>1, SavesKept DEF SavesInv
<1>2. CASE Stop \/ StopSaved
  <2>1. /\ UNCHANGED <<memory, hand, main>>
        /\ Open("ui", memory') \/ (doc["ui"] # Nothing /\ Close("ui"))
    BY <1>2 DEF Stop, StopSaved
  <2> QED
    BY <1>0, <2>1, SavesOther
<1>3. ASSUME NEW p \in Readers, Reader(p) PROVE SavesInv'
  BY <1>3, SavesReader
<1>4. CASE LeavePlay
  <2>1. /\ UNCHANGED <<memory, disk, doc, hand>> /\ hand["controller"] = Idle /\ main' = "backfill"
    BY <1>4 DEF LeavePlay, file
  <2> QED
    BY <2>1, SavesKept
<1>5. CASE Backfill
  <2>1. /\ main = "backfill" /\ main' = "backfilled" /\ hand' = hand
        /\ Open("controller", memory') \/ UNCHANGED <<disk, doc>>
        /\ memory' = [r \in Rep |-> Backfilled(r)]
    BY <1>5 DEF Backfill, file
  <2>2. memory' \in Maps
    BY <1>0, <2>1 DEF Maps, Backfilled, Statuses
  <2> QED
    BY <2>1, <2>2, SavesOther
<1>6. CASE BackfillSaved
  <2>1. /\ main = "backfilled" /\ main' = "teardown" /\ UNCHANGED <<hand, memory>>
        /\ (doc["controller"] # Nothing /\ Close("controller")) \/ UNCHANGED <<disk, doc>>
    BY <1>6 DEF BackfillSaved, file
  <2> QED
    BY <1>0, <2>1, SavesOther
<1>7. CASE FinalState
  <2>1. /\ main = "teardown" /\ main' = "final" /\ UNCHANGED <<hand, memory>>
        /\ Open("controller", memory')
    BY <1>7 DEF FinalState
  <2> QED
    BY <1>0, <2>1, SavesOther
<1>8. CASE FinalStateSaved
  <2>1. /\ main = "final" /\ main' = "ui" /\ UNCHANGED <<hand, memory>>
        /\ doc["controller"] # Nothing /\ Close("controller")
    BY <1>8, MapsApart DEF FinalStateSaved, SavesInv
  <2> QED
    BY <1>0, <2>1, SavesOther
<1>9. CASE Complete \/ Completed
  <2>1. /\ main \in {"ui", "closing"} /\ main' \in {"closing", "closed"} /\ hand' = hand
        /\ Open("ui", memory') \/ (doc["ui"] # Nothing /\ Close("ui")) \/ UNCHANGED <<disk, doc>>
    BY <1>9 DEF Complete, Completed, file
  <2>2. memory' \in Maps
    BY <1>0, <1>9 DEF Complete, Completed, Maps, Statuses
  <2> QED
    BY <2>1, <2>2, SavesOther
<1>10. CASE Down
  <2>1. /\ main' = "down" /\ hand' = [p \in Readers |-> Idle] /\ disk' = disk
        /\ doc' = [p \in Savers |-> Nothing] /\ memory' = [r \in Rep |-> "pending"]
    BY <1>10 DEF Down
  <2>2. memory' \in Maps
    BY <2>1 DEF Maps, Statuses
  <2> QED
    BY <2>1, <2>2 DEF SavesInv, Idle, Readers
<1>11. CASE Resume
  <2>1. /\ disk # Torn /\ memory' = disk /\ main' = "playing" /\ UNCHANGED <<hand, disk, doc>>
    BY <1>11 DEF Resume, file
  <2> QED
    BY <2>1 DEF SavesInv
<1> QED
  BY <1>1, <1>2, <1>3, <1>4, <1>5, <1>6, <1>7, <1>8, <1>9, <1>10, <1>11 DEF Next

\* Type correctness, for any repetitions, log lines, remembered events and runs:
\* no more events are remembered than the window has room for, and a file that can
\* be read has a status for every repetition.
THEOREM Typing == Spec => []TypeOK
<1> DEFINE Types == JournalInv /\ SavesInv /\ DedupeInv /\ FlagsInv
<1>1. Init => Types
  <2>1. Init => DedupeInv
    BY BoundsAssumption DEF Init, DedupeInv
  <2> QED
    BY <2>1, JournalInit, SavesInit, FlagsInit
<1>2. Types /\ [Next]_vars => Types'
  BY JournalStep, SavesStep, DedupeStep, FlagsStep
<1>3. Types => TypeOK
  <2> SUFFICES ASSUME Types PROVE TypeOK
    OBVIOUS
  <2>1. \A p \in Readers : hand[p] = Idle \/ hand[p].step \in {"record", "apply", "save"}
    BY DEF JournalInv, Shaped, Hands, Hand, Steps
  <2> QED
    BY <2>1 DEF TypeOK, JournalInv, Shaped, SavesInv, Maps, DedupeInv, FlagsInv, Places
<1> HIDE DEF Types
<1> QED
  BY <1>1, <1>2, <1>3, PTL DEF Spec

-----------------------------------------------------------------------------
(* Delivery: an event the dedupe knows has been applied, or is about to be by the
   reader that recorded it, so a reader that finds it known may let go of it. *)

In(x, s) == \E i \in DOMAIN s : s[i] = x

\* The event waits in lb_events.jsonl; a reader has recorded it; one holds it.
Unread(e) == In(e, lines["tailer"])
Recorded(e) == \E p \in Readers : hand[p].step = "apply" /\ Held(p) = e
Taken(e) == \E p \in Readers : hand[p].step = "record" /\ Held(p) = e

\* What the dedupe knows is recorded, what was said is somewhere on its way.
DeliveryInv ==
  /\ \A e \in known : e \in applied \/ Recorded(e)
  /\ \A e \in written : e \in applied \/ Recorded(e) \/ Taken(e) \/ Unread(e)

-----------------------------------------------------------------------------
(* Lemmas about sequences: what is in one stays in what is made of it *)

LEMMA InConcat ==
  ASSUME NEW S, NEW s \in Seq(S), NEW t \in Seq(S), NEW x, In(x, s) \/ In(x, t)
  PROVE In(x, s \o t)
<1>1. DOMAIN s = 1 .. Len(s) /\ DOMAIN t = 1 .. Len(t) /\ Len(s) \in Nat /\ Len(t) \in Nat
      /\ DOMAIN (s \o t) = 1 .. Len(s) + Len(t)
  OBVIOUS
<1>2. CASE In(x, s)
  <2>1. PICK i \in 1 .. Len(s) : s[i] = x
    BY <1>1, <1>2 DEF In
  <2>2. (s \o t)[i] = x /\ i \in DOMAIN (s \o t)
    BY <1>1, <2>1
  <2> QED BY <2>2 DEF In
<1>3. CASE In(x, t)
  <2>1. PICK i \in 1 .. Len(t) : t[i] = x
    BY <1>1, <1>3 DEF In
  <2>2. (s \o t)[Len(s) + i] = x /\ Len(s) + i \in DOMAIN (s \o t)
    BY <1>1, <2>1
  <2> QED BY <2>2 DEF In
<1> QED BY <1>2, <1>3

LEMMA InAppend ==
  ASSUME NEW S, NEW s \in Seq(S), NEW e \in S, NEW x, In(x, s) \/ x = e
  PROVE In(x, Append(s, e))
<1>1. DOMAIN s = 1 .. Len(s) /\ Len(s) \in Nat /\ DOMAIN Append(s, e) = 1 .. Len(s) + 1
  OBVIOUS
<1>2. CASE In(x, s)
  <2>1. PICK i \in 1 .. Len(s) : s[i] = x
    BY <1>1, <1>2 DEF In
  <2>2. Append(s, e)[i] = x /\ i \in DOMAIN Append(s, e)
    BY <1>1, <2>1
  <2> QED BY <2>2 DEF In
<1>3. CASE x = e
  <2>1. Append(s, e)[Len(s) + 1] = x /\ Len(s) + 1 \in DOMAIN Append(s, e)
    BY <1>1, <1>3
  <2> QED BY <2>1 DEF In
<1> QED BY <1>2, <1>3

LEMMA InTail ==
  ASSUME NEW S, NEW s \in Seq(S), s # <<>>, NEW x, In(x, s)
  PROVE x = Head(s) \/ In(x, Tail(s))
<1>1. PICK i \in 1 .. Len(s) : s[i] = x
  BY LenProperties DEF In
<1>2. Len(s) \in Nat /\ Len(Tail(s)) = Len(s) - 1 /\ DOMAIN Tail(s) = 1 .. Len(s) - 1
      /\ \A j \in 1 .. Len(s) - 1 : Tail(s)[j] = s[j + 1]
  BY HeadTailProperties, LenProperties
<1>3. CASE i = 1
  BY <1>1, <1>3
<1>4. CASE i # 1
  <2>1. i - 1 \in DOMAIN Tail(s) /\ Tail(s)[i - 1] = x
    BY <1>1, <1>2, <1>4
  <2> QED BY <2>1 DEF In
<1> QED BY <1>3, <1>4

-----------------------------------------------------------------------------
(* The steps *)

\* What the tailer has to read is a sequence of events.
LEMMA TailerLines == ASSUME JournalInv PROVE lines["tailer"] \in Seq(EventSet)
<1>1. lines["tailer"] \in Seq(Sound) /\ Sound \subseteq EventSet
  BY DEF JournalInv, Shaped, Readers, Sound
<1> QED BY <1>1, SeqGrows

LEMMA DeliveryInit == ASSUME Init PROVE DeliveryInv
BY DEF Init, DeliveryInv

\* An event said by a debug task waits for the tailer.
LEMMA DebugDelivers ==
  ASSUME JournalInv, DeliveryInv, NEW e \in EventSet, Debug(e),
         UNCHANGED <<hand, known, applied>>
  PROVE DeliveryInv'
<1>1. written' = written \cup {e} /\ lines' = [controller |-> Append(lines.controller, Parsed(e)),
                                             tailer |-> Append(lines.tailer, e)]
  BY DEF Debug, Heard
<1>2. ASSUME NEW d, Unread(d) \/ d = e PROVE Unread(d)'
  <2>1. In(d, Append(lines["tailer"], e))
    BY <1>2, TailerLines, InAppend DEF Unread
  <2> QED BY <1>1, <2>1 DEF Unread
<1>3. \A d : (Recorded(d) => Recorded(d)') /\ (Taken(d) => Taken(d)')
  BY DEF Recorded, Taken, Held
<1> QED BY <1>1, <1>2, <1>3 DEF DeliveryInv

LEMMA StartRepDelivers == ASSUME JournalInv, DeliveryInv, StartRep PROVE DeliveryInv'
<1>1. due \in SUBSET Rep /\ due # {} /\ Debug(Says(Current, "running", ""))
      /\ UNCHANGED <<hand, known, applied>>
  BY DEF JournalInv, Shaped, StartRep, dedupe
<1>2. Says(Current, "running", "") \in EventSet
  BY <1>1, CurrentIsDue, EventShape
<1> QED BY <1>1, <1>2, DebugDelivers

LEMMA JudgeDelivers == ASSUME JournalInv, DeliveryInv, Judge PROVE DeliveryInv'
<1>1. due \in SUBSET Rep /\ due # {}
      /\ (Debug(Says(Current, "done", "")) \/ Debug(Says(Current, "failed", "stderr")))
      /\ UNCHANGED <<hand, known, applied>>
  BY DEF JournalInv, Shaped, Ordered, Judge, dedupe
<1>2. Current \in Rep
  BY <1>1, CurrentIsDue
<1>3. Says(Current, "done", "") \in EventSet /\ Says(Current, "failed", "stderr") \in EventSet
  BY <1>2, EventShape
<1> QED BY <1>1, <1>3, DebugDelivers

LEMMA PollDelivers == ASSUME JournalInv, DeliveryInv, Poll PROVE DeliveryInv'
<1>1. PICK n \in 1 .. Len(out) :
        /\ lines' = [controller |-> lines.controller \o Untyped(SubSeq(out, 1, n)),
                     tailer |-> lines.tailer \o <<SubSeq(out, 1, n)[1]>> \o SubSeq(out, 1, n)]
        /\ Heard(SubSeq(out, 1, n))
  BY DEF Poll
<1> DEFINE batch == SubSeq(out, 1, n)
<1>2. out \in Seq(EventSet) /\ Len(out) \in Nat /\ UNCHANGED <<hand, known, applied>>
  BY LenProperties DEF JournalInv, Shaped, Poll, dedupe
<1>3. batch \in Seq(EventSet) /\ batch[1] \in EventSet
  BY <1>2
<1>4. <<batch[1]>> \in Seq(EventSet)
  BY <1>3, ShortSeqs
<1>5. lines["tailer"] \in Seq(EventSet) /\ lines["tailer"] \o <<batch[1]>> \in Seq(EventSet)
  BY <1>4, TailerLines, ConcatProperties
<1>6. written' = written \cup {batch[i] : i \in DOMAIN batch}
  BY <1>1 DEF Heard
<1> HIDE DEF batch
<1>7. ASSUME NEW d, Unread(d) \/ In(d, batch) PROVE Unread(d)'
  <2>1. Unread(d) => In(d, lines["tailer"] \o <<batch[1]>>)
    BY <1>4, <1>5, InConcat DEF Unread
  <2>2. In(d, lines["tailer"] \o <<batch[1]>> \o batch)
    BY <1>3, <1>5, <1>7, <2>1, InConcat
  <2>3. lines'["tailer"] = lines["tailer"] \o <<batch[1]>> \o batch
    BY <1>1 DEF batch
  <2> QED BY <2>2, <2>3 DEF Unread
<1>8. \A d : (Recorded(d) => Recorded(d)') /\ (Taken(d) => Taken(d)')
  BY <1>2 DEF Recorded, Taken, Held
<1>9. \A d \in written' : d \in written \/ In(d, batch)
  BY <1>6 DEF In
<1> QED BY <1>2, <1>7, <1>8, <1>9 DEF DeliveryInv

\* A reader takes a line: it holds the event, or drops one that the dedupe knows.
LEMMA CheckDelivers == ASSUME JournalInv, DeliveryInv, NEW p \in Readers, Check(p) PROVE DeliveryInv'
<1> PICK e : e = Head(lines[p])
  OBVIOUS
<1>1. /\ hand[p] = Idle /\ lines[p] # <<>> /\ lines' = [lines EXCEPT ![p] = Tail(@)]
      /\ hand' = [hand EXCEPT ![p] = IF e \in known THEN Idle ELSE Hand("record", e)]
      /\ UNCHANGED <<known, applied, written>>
  BY DEF Check, dedupe, history
<1>2. hand \in [Readers -> Hands] /\ lines \in [Readers -> Seq(Sound)]
  BY DEF JournalInv, Shaped
<1>3. ASSUME NEW q \in Readers, hand[q].step \in {"record", "apply"}
      PROVE hand'[q] = hand[q]
  BY <1>1, <1>2, <1>3 DEF Idle
<1>4. \A d : (Recorded(d) => Recorded(d)') /\ (Taken(d) => Taken(d)')
  BY <1>3 DEF Recorded, Taken, Held
<1>5. ASSUME NEW d, Unread(d) PROVE Unread(d)' \/ (p = "tailer" /\ d = e)
  <2>1. CASE p = "tailer"
    BY <1>1, <1>2, <1>5, <2>1, TailerLines, InTail DEF Unread, Readers
  <2>2. CASE p # "tailer"
    <3>1. lines'["tailer"] = lines["tailer"]
      BY <1>1, <1>2, <2>2 DEF Readers
    <3> QED BY <1>5, <3>1 DEF Unread
  <2> QED BY <2>1, <2>2
<1>6. e \in known \/ Taken(e)'
  <2>1. SUFFICES ASSUME e \notin known PROVE Taken(e)'
    OBVIOUS
  <2>2. hand'[p] = Hand("record", e)
    BY <1>1, <1>2, <2>1
  <2> QED BY <2>2 DEF Taken, Held, Hand
<1> QED BY <1>1, <1>4, <1>5, <1>6 DEF DeliveryInv

\* The reader that records an event is the one that applies it.
LEMMA RecordDelivers == ASSUME JournalInv, DeliveryInv, NEW p \in Readers, Record(p) PROVE DeliveryInv'
<1> PICK e : e = Held(p)
  OBVIOUS
<1>1. /\ hand[p].step = "record" /\ hand' = [hand EXCEPT ![p] = Hand("apply", e)]
      /\ known' \subseteq known \cup {e} /\ UNCHANGED <<lines, applied, written>>
  BY DEF Record, history
<1>2. hand \in [Readers -> Hands]
  BY DEF JournalInv, Shaped
<1>3. Recorded(e)'
  <2>1. hand'[p] = Hand("apply", e)
    BY <1>1, <1>2
  <2> QED BY <2>1 DEF Recorded, Held, Hand
<1>4. ASSUME NEW d PROVE (Recorded(d) => Recorded(d)') /\ (Taken(d) => Taken(d)' \/ d = e)
  <2>1. ASSUME NEW q \in Readers, q # p PROVE hand'[q] = hand[q]
    BY <1>1, <1>2, <2>1
  <2> QED BY <1>1, <2>1 DEF Recorded, Taken, Held
<1>5. \A d : Unread(d) => Unread(d)'
  BY <1>1 DEF Unread
<1> QED BY <1>1, <1>3, <1>4, <1>5 DEF DeliveryInv

\* What a reader has recorded it applies, what it has applied it puts away.
LEMMA ApplyDelivers ==
  ASSUME JournalInv, DeliveryInv, NEW p \in Readers, Apply(p) \/ Saved(p) PROVE DeliveryInv'
<1>1. /\ hand[p].step \in {"apply", "save"} /\ UNCHANGED <<lines, known, written>>
      /\ applied \subseteq applied' /\ (hand[p].step = "apply" => Held(p) \in applied')
      /\ \E h : hand' = [hand EXCEPT ![p] = h]
  BY DEF Apply, Saved, dedupe, history
<1>2. hand \in [Readers -> Hands]
  BY DEF JournalInv, Shaped
<1>3. ASSUME NEW q \in Readers, q # p PROVE hand'[q] = hand[q]
  BY <1>1, <1>2, <1>3
<1>4. ASSUME NEW d PROVE (Recorded(d) => Recorded(d)' \/ d \in applied') /\ (Taken(d) => Taken(d)')
  BY <1>1, <1>3 DEF Recorded, Taken, Held
<1>5. \A d : Unread(d) => Unread(d)'
  BY <1>1 DEF Unread
<1> QED BY <1>1, <1>4, <1>5 DEF DeliveryInv

\* The other steps of the run touch neither the tailer's lines nor what is held.
LEMMA OtherDelivers ==
  ASSUME JournalInv, DeliveryInv,
         \/ PlayOver \/ KillPlay \/ Stop \/ StopSaved
         \/ LeavePlay \/ Backfill \/ BackfillSaved \/ FinalState \/ FinalStateSaved
         \/ Complete \/ Completed \/ Resume \/ Halted \/ UNCHANGED vars
  PROVE DeliveryInv'
<1>1. UNCHANGED <<hand, known, applied, written>>
      /\ (lines' = lines \/ lines' = [lines EXCEPT !["controller"] = <<>>])
  BY DEF PlayOver, KillPlay, Stop, StopSaved, LeavePlay, Backfill, BackfillSaved, FinalState,
         FinalStateSaved, Complete, Completed, Resume, Halted, vars, dedupe, history
<1>2. lines'["tailer"] = lines["tailer"]
  BY <1>1 DEF JournalInv, Shaped, Readers
<1>3. \A d : /\ Recorded(d) => Recorded(d)'
             /\ Taken(d) => Taken(d)'
             /\ Unread(d) => Unread(d)'
  BY <1>1, <1>2 DEF Recorded, Taken, Unread, Held
<1> QED BY <1>1, <1>3 DEF DeliveryInv

LEMMA DeliveryStep == ASSUME JournalInv, DeliveryInv, [Next]_vars PROVE DeliveryInv'
<1>1. CASE Down
  BY <1>1 DEF Down, DeliveryInv
<1>2. ASSUME NEW p \in Readers, Reader(p) PROVE DeliveryInv'
  BY <1>2, CheckDelivers, RecordDelivers, ApplyDelivers DEF Reader
<1> QED
  BY <1>1, <1>2, StartRepDelivers, JudgeDelivers, PollDelivers, OtherDelivers DEF Next

-----------------------------------------------------------------------------
(* The theorem *)

\* Once the tailer has read everything and no reader has an event in hand, every
\* event of the run has been applied to the journal, whichever reader recorded it
\* first and whatever the dedupe has forgotten (_EventDedupe.record,
\* make_ingest_event).
THEOREM EveryEventApplied == Spec => []NothingDropped
<1>1. Init => JournalInv /\ DeliveryInv
  BY JournalInit, DeliveryInit
<1>2. JournalInv /\ DeliveryInv /\ [Next]_vars => JournalInv' /\ DeliveryInv'
  BY JournalStep, DeliveryStep
<1>3. DeliveryInv => NothingDropped
  <2>1. SUFFICES ASSUME DeliveryInv, AllRead, NEW e \in written PROVE e \in applied
    BY DEF NothingDropped
  <2>2. ~Recorded(e) /\ ~Taken(e)
    BY <2>1 DEF AllRead, Recorded, Taken, Idle
  <2>3. ~Unread(e)
    BY <2>1 DEF AllRead, Unread, In
  <2> QED BY <2>1, <2>2, <2>3 DEF DeliveryInv
<1> QED BY <1>1, <1>2, <1>3, PTL DEF Spec
=============================================================================
