----------------------------- MODULE BatchSink -----------------------------
(***************************************************************************)
(* BatchSink: the worker collects events in a batch and hands it to the    *)
(* next sink when it is full, when the ticker fires, and before it answers *)
(* a Sync or the Close.  The callers' side repeats AsyncSink's, modelled   *)
(* by SinkQueue; BufferSize is MaxQueueSize here.                          *)
(***************************************************************************)
EXTENDS SinkQueue

CONSTANT MaxBatchSize   \* events in a full batch

ASSUME BatchAssumption == MaxBatchSize \in Nat \ {0}

VARIABLES
  batchWriter,  \* external: the next sink has WriteBatch; this never changes
  batch,        \* events collected and not handed on yet
  flushErr,     \* the flush of the control job in hand has failed
  batches, flushed, writeErrors,   \* counters of Stats
  onErrors,     \* calls of OnError by the worker
  delivered,    \* history: events handed to the next sink, in order
  refused,      \* history: those it failed to write
  failed, withheld,   \* history: flushes that failed, and how many events they had
  answer        \* whether a caller's response holds an error

bstats == <<batches, flushed, writeErrors, onErrors>>
handed == <<delivered, refused, failed, withheld>>
bvars  == <<batchWriter, batch, flushErr, bstats, handed, answer>>
vars   == <<qvars, bvars>>

TypeOK ==
  /\ QueueTypeOK
  /\ batchWriter \in BOOLEAN
  /\ batch \in Seq(Job) /\ Len(batch) < MaxBatchSize
  /\ flushErr \in BOOLEAN
  /\ batches \in Nat /\ flushed \in Nat /\ writeErrors \in Nat /\ onErrors \in Nat
  /\ delivered \in Seq(Job)
  /\ refused \in SUBSET Job
  /\ failed \in Nat /\ withheld \in Nat
  /\ answer \in [Callers -> BOOLEAN]

Init ==
  /\ QueueInit
  /\ batchWriter \in BOOLEAN
  /\ batch = <<>> /\ flushErr = FALSE
  /\ batches = 0 /\ flushed = 0 /\ writeErrors = 0 /\ onErrors = 0
  /\ delivered = <<>> /\ refused = {} /\ failed = 0 /\ withheld = 0
  /\ answer = [c \in Callers |-> FALSE]

-----------------------------------------------------------------------------
\* Which events of a batch the next sink may fail to write: with WriteBatch
\* all of them or none, without it any of them.
Refusals(b) == IF batchWriter THEN {{}, ToSet(b)} ELSE SUBSET ToSet(b)

\* Mutant of Count: a failed batch counts as flushed.
CountRegardless(b, bad) ==
  /\ batches' = batches + 1
  /\ flushed' = flushed + (IF batchWriter THEN 2 ELSE 1) * Len(b)
  /\ writeErrors' = IF bad # {} /\ batchWriter THEN writeErrors + 1 ELSE writeErrors
  /\ onErrors' = IF bad = {} THEN onErrors
                 ELSE onErrors + (IF batchWriter THEN 2 ELSE 1)

\* The counters after a flush of b.  A batch that WriteBatch takes is counted
\* twice, its failure is reported twice, and a batch that fails in part counts
\* as not flushed at all.
Count(b, bad) ==
  /\ batches' = batches + 1
  /\ flushed' = IF bad # {} THEN flushed
                ELSE flushed + (IF batchWriter THEN 2 ELSE 1) * Len(b)
  /\ writeErrors' = IF bad # {} /\ batchWriter THEN writeErrors + 1 ELSE writeErrors
  /\ onErrors' = IF bad = {} THEN onErrors
                 ELSE onErrors + (IF batchWriter THEN 2 ELSE 1)

\* What came of handing on b, whatever the counters say.
Outcome(b, bad) ==
  /\ refused' = refused \cup bad
  /\ failed' = failed + (IF bad = {} THEN 0 ELSE 1)
  /\ withheld' = withheld + (IF bad = {} THEN 0 ELSE Len(b))

\* Mutant of FlushBatch: the events go out in reverse.
FlushReversed(b, bad) ==
  /\ batch' = <<>>
  /\ delivered' = delivered \o Reverse(b)
  /\ Outcome(b, bad)
  /\ Count(b, bad)

\* flushBatch on the batch b: it is handed on and gone, whatever the outcome.  The
\* next sink gets a copy (toFlush), as a value here: what becomes of the batch's array
\* when it is filled again cannot be seen.
FlushBatch(b, bad) ==
  /\ batch' = <<>>
  /\ delivered' = delivered \o b
  /\ Outcome(b, bad)
  /\ Count(b, bad)

\* Mutant of HandleEvent: the batch is flushed one event late.
HandleEventLate ==
  /\ FinishEvent
  /\ LET b == Append(batch, Head(cur))
     IN IF Len(b) > MaxBatchSize
          THEN \E bad \in Refusals(b) : FlushBatch(b, bad)
          ELSE batch' = b /\ UNCHANGED <<bstats, handed>>
  /\ UNCHANGED <<batchWriter, flushErr, answer>>

\* An event joins the batch, and a full batch is flushed; its error is dropped.
HandleEvent ==
  /\ FinishEvent
  /\ LET b == Append(batch, Head(cur))
     IN IF Len(b) >= MaxBatchSize
          THEN \E bad \in Refusals(b) : FlushBatch(b, bad)
          ELSE batch' = b /\ UNCHANGED <<bstats, handed>>
  /\ UNCHANGED <<batchWriter, flushErr, answer>>

\* Mutant of Tick: only full batches are flushed.
TickWhenFull ==
  /\ worker = "running" /\ cur = <<>> /\ Len(batch) >= MaxBatchSize
  /\ \E bad \in Refusals(batch) : FlushBatch(batch, bad)
  /\ UNCHANGED <<qvars, batchWriter, flushErr, answer>>

\* The ticker flushes what there is; its error is dropped.
Tick ==
  /\ worker = "running" /\ cur = <<>> /\ batch # <<>>
  /\ \E bad \in Refusals(batch) : FlushBatch(batch, bad)
  /\ UNCHANGED <<qvars, batchWriter, flushErr, answer>>

\* A control job first flushes the batch, keeping the error for the answer.
FlushForControl ==
  /\ worker = "running" /\ cur # <<>> /\ ~IsEvent(Head(cur)) /\ batch # <<>>
  /\ \E bad \in Refusals(batch) :
       /\ FlushBatch(batch, bad)
       /\ flushErr' = (bad # {})
  /\ UNCHANGED <<qvars, batchWriter, answer>>

\* Mutant of Answer: the batch is left for the ticker.
AnswerUnflushed ==
  /\ flushErr' = FALSE
  /\ answer' = IF Listening(Head(cur))
                 THEN [answer EXCEPT ![Head(cur).by] = flushErr] ELSE answer
  /\ UNCHANGED <<batchWriter, batch, bstats, handed>>

\* Then the next sink is synced (and closed), which may fail as well.
Answer ==
  /\ batch = <<>>
  /\ flushErr' = FALSE
  /\ \E nextErr \in BOOLEAN :
       answer' = IF Listening(Head(cur))
                   THEN [answer EXCEPT ![Head(cur).by] = flushErr \/ nextErr]
                   ELSE answer
  /\ UNCHANGED <<batchWriter, batch, bstats, handed>>

HandleFlush == FinishFlush /\ Answer
HandleClose == FinishClose /\ Answer

\* The caller's side of the protocol, with what it does to the answer.
LeaveWithAnswer(c) ==
  /\ TakeResponse(c) \/ AbandonResponse(c)
  /\ answer' = [answer EXCEPT ![c] = FALSE]
  /\ UNCHANGED <<batchWriter, batch, flushErr, bstats, handed>>

QueueStep(c) ==
  /\ \/ EnqueueClose(c) \/ SendJob(c) \/ Acknowledge(c) \/ Drop(c)
     \/ GiveUp(c) \/ ResetClosing(c) \/ Join(c) \/ WaitDone(c)
  /\ UNCHANGED bvars

ContinueCall(c) == QueueStep(c) \/ LeaveWithAnswer(c)

Run ==
  \/ (Receive \/ MarkClosed \/ CloseDone) /\ UNCHANGED bvars
  \/ HandleEvent \/ FlushForControl \/ HandleFlush \/ HandleClose

Next ==
  \/ \E c \in Callers : \/ (Call(c) \/ Expire(c)) /\ UNCHANGED bvars
                        \/ ContinueCall(c)
  \/ Run \/ Tick

Spec == Init /\ [][Next]_vars

\* The worker, its ticker and every call in progress go on.
Fairness ==
  /\ WF_vars(Run) /\ WF_vars(Tick)
  /\ \A c \in Callers : WF_vars(ContinueCall(c))
  /\ \A c \in Callers : WF_vars(Expire(c) /\ UNCHANGED bvars)

FairSpec == Spec /\ Fairness

-----------------------------------------------------------------------------
\* A Sync or Close that gets its answer finds every event whose Write had
\* returned when it began handed to the next sink, none of them left in the
\* batch.
AnswerIsBarrier == \A c \in answered : before[c] \subseteq ToSet(delivered)

\* What Stats shows, and how often OnError is called, follows from what became of
\* the jobs (see StatsBalance) and of the batches: each batch that failed, be it by
\* a single event, is reported once, and twice with WriteBatch, where lines 217 and
\* 230 both do it; WriteErrors counts them with WriteBatch and nothing without; and
\* Flushed counts every event of the other batches, twice with WriteBatch (lines
\* 214 and 228), and none of a batch that failed, those it did write included.
StatsAccounted ==
  LET times == IF batchWriter THEN 2 ELSE 1 IN
  /\ StatsBalance
  /\ failed > 0 <=> refused # {}
  /\ Cardinality(refused) <= withheld /\ (batchWriter => withheld = Cardinality(refused))
  /\ onErrors = times * failed
  /\ writeErrors = (IF batchWriter THEN failed ELSE 0)
  /\ flushed = times * (Len(delivered) - withheld)
  /\ failed <= batches

\* BatchSink implements the ordered delivery of the events it accepts, each
\* handed to the next sink and not only to the batch.
Delivery == INSTANCE OrderedDelivery WITH
  Event <- Events, accepted <- EventsOf(Trail),
  delivered <- delivered, seal <- Seal, shut <- worker # "running"
DeliversInOrder == Delivery!Spec

\* Every event queued before the close job reaches the next sink, though no
\* batch fills up and nobody calls Sync: the ticker sees to it.  And a queued
\* close job ends the worker, whatever the callers do meanwhile.
DeliversAll == Delivery!Progress /\ Delivery!Shuts
=============================================================================
