------------------------------ MODULE LokiQueue ------------------------------
(***************************************************************************)
(* LokiPushHandler: records of any thread go into a bounded queue, and a   *)
(* daemon thread takes them out, batches them and pushes the batches to    *)
(* Loki, each a few times at most.  close() sets an event, puts an empty   *)
(* entry to wake the thread, and joins it for two flush intervals; then    *)
(* the process may exit with the thread still at work.                     *)
(***************************************************************************)
EXTENDS Naturals, Sequences, SequencesExt

CONSTANTS
  Records,     \* bound: records that are logged
  QueueSize,   \* max_queue_size
  BatchSize,   \* batch_size
  MaxRetries   \* max_retries

ASSUME SizesAssumption ==
  /\ QueueSize \in Nat \ {0} /\ BatchSize \in Nat \ {0}
  /\ MaxRetries \in Nat /\ Records \in Nat

Wake == 0                 \* LokiLogEntry(labels={}, timestamp_ns="0", line="")
Record == 1 .. Records    \* in the order in which they were accepted

VARIABLES
  accepted, overflow,    \* records put into the queue; records dropped at it
  queue,                 \* self._queue
  stopping, closer,      \* _stop_event; the thread that calls close()
  worker, pending,       \* LokiWorker.run: where it is, its batch
  due,                   \* the time of next_flush has come
  attempt,               \* pushes of the batch so far
  stored,                \* what Loki has stored, in order, with repeats
  refused, gaveUp        \* records of rejected batches, of batches given up

producers == <<accepted, overflow>>
batching == <<worker, pending, due, attempt>>
loki == <<stored, refused, gaveUp>>
vars == <<producers, queue, stopping, closer, batching, loki>>

TypeOK ==
  /\ accepted \in 0 .. Records /\ overflow \in 0 .. Records /\ accepted + overflow <= Records
  /\ queue \in Seq({Wake} \cup Record) /\ Len(queue) <= QueueSize
  /\ stopping \in BOOLEAN /\ closer \in {"open", "waking", "joining", "closed", "exited"}
  /\ worker \in {"look", "look_queue", "get", "ready", "push", "last", "ended", "killed"}
  /\ pending \in Seq(Record) /\ Len(pending) <= BatchSize
  /\ due \in BOOLEAN /\ attempt \in 0 .. MaxRetries
  /\ stored \in Seq(Record) /\ refused \subseteq Record /\ gaveUp \subseteq Record

Init ==
  /\ accepted = 0 /\ overflow = 0 /\ queue = <<>> /\ stopping = FALSE /\ closer = "open"
  /\ worker = "look" /\ pending = <<>> /\ due = FALSE /\ attempt = 0
  /\ stored = <<>> /\ refused = {} /\ gaveUp = {}

-----------------------------------------------------------------------------
(* The threads that log, and the one that closes *)

\* emit(): never waits.  A thread that has the handler may still use it while
\* it is being closed.
Emit ==
  /\ accepted + overflow < Records /\ closer # "exited"
  /\ \/ /\ Len(queue) < QueueSize
        /\ accepted' = accepted + 1 /\ queue' = Append(queue, accepted')
        /\ UNCHANGED overflow
     \/ /\ Len(queue) = QueueSize /\ overflow' = overflow + 1
        /\ UNCHANGED <<accepted, queue>>
  /\ UNCHANGED <<stopping, closer, batching, loki>>

SetStop ==
  /\ closer = "open" /\ closer' = "waking" /\ stopping' = TRUE
  /\ UNCHANGED <<producers, queue, batching, loki>>

\* The entry that wakes the worker does not fit into a full queue, and need not.
PutWake ==
  /\ closer = "waking" /\ closer' = "joining"
  /\ queue' = (IF Len(queue) < QueueSize THEN Append(queue, Wake) ELSE queue)
  /\ UNCHANGED <<producers, stopping, batching, loki>>

\* join(timeout): with the worker at its end, or not.
Joined ==
  /\ closer = "joining" /\ closer' = "closed"
  /\ UNCHANGED <<producers, queue, stopping, batching, loki>>

\* The interpreter does not wait for a daemon thread.
Exit ==
  /\ closer = "closed" /\ closer' = "exited"
  /\ worker' = (IF worker = "ended" THEN worker ELSE "killed")
  /\ UNCHANGED <<producers, queue, stopping, pending, due, attempt, loki>>

-----------------------------------------------------------------------------
(* LokiWorker.run *)

beside == <<producers, stopping, closer>>

\* The condition of the loop reads the event first, then the queue.
LookAtStop ==
  /\ worker = "look" /\ worker' = (IF stopping THEN "look_queue" ELSE "get")
  /\ UNCHANGED <<beside, queue, pending, due, attempt, loki>>

\* Bug: once stopped, the loop is over with the queue.
LookAtQueueOnly ==
  /\ worker = "look_queue" /\ worker' = (IF queue # <<>> THEN "get" ELSE "ended")
  /\ pending' = (IF queue # <<>> THEN pending ELSE <<>>)
  /\ UNCHANGED <<beside, queue, due, attempt, loki>>

LookAtQueue ==
  /\ worker = "look_queue"
  /\ worker' = (IF queue # <<>> \/ pending # <<>> THEN "get" ELSE "last")
  /\ UNCHANGED <<beside, queue, pending, due, attempt, loki>>

\* Bug: the worker sleeps until there is an entry.
GetForever ==
  /\ worker = "get" /\ queue # <<>> /\ worker' = "ready"
  /\ queue' = Tail(queue)
  /\ pending' = (IF Head(queue) = Wake THEN pending ELSE Append(pending, Head(queue)))
  /\ UNCHANGED <<beside, due, attempt, loki>>

\* _get_entry: waits for an entry until next_flush; not at all once that has
\* passed.
Get ==
  /\ worker = "get" /\ worker' = "ready"
  /\ \/ /\ queue # <<>> /\ queue' = Tail(queue)
        /\ pending' = (IF Head(queue) = Wake THEN pending ELSE Append(pending, Head(queue)))
     \/ queue = <<>> /\ due /\ UNCHANGED <<queue, pending>>
  /\ UNCHANGED <<beside, due, attempt, loki>>

Ripe == pending # <<>> /\ (Len(pending) >= BatchSize \/ due)

FlushIfReady ==
  /\ worker = "ready" /\ attempt' = 0
  /\ worker' = (IF Ripe THEN "push" ELSE "look")
  /\ UNCHANGED <<beside, queue, pending, due, loki>>

Flushed == pending' = <<>> /\ due' = FALSE /\ worker' = "look" /\ attempt' = 0

\* Bug: a push that fails is repeated until it succeeds.
PushUntilStored ==
  /\ worker = "push"
  /\ \/ stored' = stored \o pending /\ Flushed
     \/ /\ attempt' = (attempt + 1) % (MaxRetries + 1)
        /\ UNCHANGED <<stored, worker, pending, due>>
  /\ UNCHANGED <<beside, queue, refused, gaveUp>>

\* Bug: a batch that failed goes back to the queue, behind what came meanwhile.
PushAgainLater ==
  /\ worker = "push"
  /\ \/ stored' = stored \o pending /\ Flushed /\ UNCHANGED <<queue, refused, gaveUp>>
     \/ /\ Len(queue) + Len(pending) <= QueueSize
        /\ queue' = queue \o pending /\ Flushed /\ UNCHANGED <<stored, refused, gaveUp>>
  /\ UNCHANGED beside

\* _try_push: stored, rejected for good (4xx), or failed, and a push that failed
\* may have been stored all the same.
Push ==
  /\ worker = "push"
  /\ \/ stored' = stored \o pending /\ Flushed /\ UNCHANGED <<refused, gaveUp>>
     \/ refused' = refused \cup ToSet(pending) /\ Flushed /\ UNCHANGED <<stored, gaveUp>>
     \/ /\ stored' \in {stored, stored \o pending} /\ UNCHANGED refused
        /\ \/ /\ attempt < MaxRetries /\ attempt' = attempt + 1
              /\ UNCHANGED <<worker, pending, due, gaveUp>>
           \/ /\ attempt = MaxRetries /\ Flushed
              /\ gaveUp' = gaveUp \cup ToSet(pending)
  /\ UNCHANGED <<beside, queue>>

\* After the loop: what is left would be pushed, but nothing is.
Ends ==
  /\ worker = "last" /\ worker' = "ended"
  /\ UNCHANGED <<beside, queue, pending, due, attempt, loki>>

Worker == LookAtStop \/ LookAtQueue \/ Get \/ FlushIfReady \/ Push \/ Ends

\* time.monotonic() reaches next_flush.
FlushTime ==
  /\ ~due /\ worker \notin {"ended", "killed"} /\ due' = TRUE
  /\ UNCHANGED <<beside, queue, worker, pending, attempt, loki>>

Finished == closer = "exited" /\ UNCHANGED vars

Next ==
  Emit \/ SetStop \/ PutWake \/ Joined \/ Exit \/ Worker \/ FlushTime \/ Finished

Spec == Init /\ [][Next]_vars

\* The worker is scheduled, time passes, and a push returns after its timeout.
\* The threads that log and the one that closes need not do anything.
FairSpec == Spec /\ WF_vars(Worker) /\ WF_vars(FlushTime)

-----------------------------------------------------------------------------
(* Properties *)

Settled == ToSet(stored) \cup refused \cup gaveUp
Waiting == (ToSet(queue) \ {Wake}) \cup ToSet(pending)

\* Every record that was accepted is waiting, stored, rejected or given up: none
\* is lost between the queue, the batch and the end of the worker (loki_helpers.py,
\* LokiWorker.run), also while the handler is being closed.
NothingLost == 1 .. accepted = Settled \cup Waiting

\* Loki gets the records in the order in which they were logged: none is stored
\* while an earlier one still has to be, whatever had to be pushed again.
InOrder == \A late \in Waiting \ Settled : \A r \in ToSet(stored) : r < late

\* A record that was accepted is settled in the end, without another record or
\* a close to push it, unless the process exits first, or close() has ended the
\* worker: what is logged after that stays in the queue.
RecordsSettle ==
  \A r \in Record : accepted >= r ~> r \in Settled \/ worker \in {"ended", "killed"}

\* Once close() has begun the worker ends, with the queue full or empty and Loki
\* reachable or not; it has nothing in its hands then.
WorkerEnds == stopping ~> (worker = "ended" /\ pending = <<>>) \/ worker = "killed"
=============================================================================
