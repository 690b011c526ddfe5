--------------------------- MODULE BatchSinkProofs ---------------------------
(***************************************************************************)
(* Theorems about BatchSink, for any number of callers, any capacity, any  *)
(* batch size and either kind of next sink.  Its steps are steps of the    *)
(* queue protocol or leave the protocol alone, so the protocol's           *)
(* invariants hold of it; on them rests what becomes of the batch.         *)
(***************************************************************************)
EXTENDS BatchSink, SinkQueueProofs

LEMMA BatchBound == MaxBatchSize \in Nat /\ MaxBatchSize >= 1
BY BatchAssumption

LEMMA BatchStep == [Next]_vars => [QueueNext]_qvars
BY DEF Next, vars, QueueNext, Run, Tick, ContinueCall, QueueStep, LeaveWithAnswer,
       Continue, Work, HandleEvent, FlushForControl, HandleFlush, HandleClose

\* What the protocol contributes, an invariant of BatchSink as well.
ProtocolInv == SealInv /\ StatsInv

LEMMA ProtocolInit == Init => ProtocolInv
BY SealInit, StatsInit DEF Init, ProtocolInv

LEMMA ProtocolStep == ProtocolInv /\ [Next]_vars => ProtocolInv'
<1>1. SealInv => QueueTypeOK
  BY DEF SealInv, QueueInv
<1> QED
  BY <1>1, BatchStep, SealStep, StatsStep DEF ProtocolInv

-----------------------------------------------------------------------------
(* The steps of BatchSink, by what they do with the batch. *)

\* The batch is handed on: an event fills it, the ticker fires, or a control
\* job wants it gone.
Flushes(b, bad) ==
  /\ worker = "running" /\ worker' = "running"
  /\ b # <<>> /\ bad \in Refusals(b) /\ FlushBatch(b, bad)
  /\ UNCHANGED <<batchWriter, answer, pc, job, answered, acked, before>>
  /\ \/ FinishEvent /\ b = Append(batch, Head(cur)) /\ UNCHANGED flushErr
     \/ UNCHANGED qvars /\ b = batch /\ flushErr' \in BOOLEAN

\* An event joins the batch.
Joins ==
  /\ FinishEvent /\ batch' = Append(batch, Head(cur)) /\ Len(batch') < MaxBatchSize
  /\ UNCHANGED <<batchWriter, flushErr, bstats, handed, answer>>

\* A control job is answered.
Answers == (FinishFlush \/ FinishClose) /\ Answer

\* The protocol goes on and the batch stays.
Passes ==
  /\ UNCHANGED <<batchWriter, batch, flushErr, bstats, handed>>
  /\ answer' = answer \/ \E c \in Callers : answer' = [answer EXCEPT ![c] = FALSE]
  /\ \/ UNCHANGED qvars
     \/ \E c \in Callers : Call(c) \/ Continue(c) \/ Expire(c)
     \/ Receive \/ MarkClosed \/ CloseDone

LEMMA Steps ==
  ASSUME QueueTypeOK, batch \in Seq(Job), Len(batch) < MaxBatchSize, flushErr \in BOOLEAN,
         [Next]_vars
  PROVE  Passes \/ Joins \/ Answers \/ \E b, bad : Flushes(b, bad)
<1>1. CASE UNCHANGED vars
  BY <1>1 DEF vars, bvars, Passes
<1>2. ASSUME NEW c \in Callers, (Call(c) \/ Expire(c)) /\ UNCHANGED bvars PROVE Passes
  BY <1>2 DEF bvars, Passes
<1>3. ASSUME NEW c \in Callers, ContinueCall(c) PROVE Passes
  <2>1. CASE QueueStep(c)
    BY <2>1 DEF QueueStep, bvars, Passes, Continue
  <2>2. CASE LeaveWithAnswer(c)
    BY <2>2 DEF LeaveWithAnswer, Passes, Continue
  <2> QED
    BY <1>3, <2>1, <2>2 DEF ContinueCall
<1>4. CASE (Receive \/ MarkClosed \/ CloseDone) /\ UNCHANGED bvars
  BY <1>4 DEF bvars, Passes
<1>5. CASE HandleEvent
  <2> DEFINE b == Append(batch, Head(cur))
  <2>1. /\ FinishEvent /\ worker = "running" /\ worker' = "running"
        /\ UNCHANGED <<batchWriter, flushErr, answer, pc, job, answered, acked, before>>
    BY <1>5 DEF HandleEvent, FinishEvent, stats
  <2>2. Head(cur) \in Job
    BY <2>1, AtMostOne DEF FinishEvent, QueueTypeOK
  <2>3. b # <<>> /\ Len(b) \in Nat
    BY <2>2, AppendProperties, LenProperties
  <2>4. IF Len(b) >= MaxBatchSize THEN \E bad \in Refusals(b) : FlushBatch(b, bad)
                                  ELSE batch' = b /\ UNCHANGED <<bstats, handed>>
    BY <1>5 DEF HandleEvent
  <2> HIDE DEF b
  <2>5. CASE Len(b) >= MaxBatchSize
    <3>1. PICK bad \in Refusals(b) : FlushBatch(b, bad)
      BY <2>4, <2>5
    <3>2. Flushes(b, bad)
      BY <2>1, <2>3, <3>1 DEF Flushes, b
    <3> QED
      BY <3>2
  <2>6. CASE ~(Len(b) >= MaxBatchSize)
    <3>1. Joins
      BY <2>1, <2>3, <2>4, <2>6, BatchBound DEF Joins, b
    <3> QED
      BY <3>1
  <2> QED
    BY <2>5, <2>6
<1>6. CASE Tick
  <2>1. PICK bad \in Refusals(batch) : FlushBatch(batch, bad)
    BY <1>6 DEF Tick
  <2>2. Flushes(batch, bad)
    BY <1>6, <2>1 DEF Tick, Flushes, qvars, history
  <2> QED
    BY <2>2
<1>7. CASE FlushForControl
  <2>1. PICK bad \in Refusals(batch) : FlushBatch(batch, bad) /\ flushErr' = (bad # {})
    BY <1>7 DEF FlushForControl
  <2>2. Flushes(batch, bad)
    BY <1>7, <2>1 DEF FlushForControl, Flushes, qvars, history
  <2> QED
    BY <2>2
<1>8. CASE HandleFlush \/ HandleClose
  BY <1>8 DEF HandleFlush, HandleClose, Answers
<1> QED
  BY <1>1, <1>2, <1>3, <1>4, <1>5, <1>6, <1>7, <1>8 DEF Next, Run

-----------------------------------------------------------------------------
(* Type correctness. *)

BatchTypes ==
  /\ batchWriter \in BOOLEAN
  /\ batch \in Seq(Job) /\ Len(batch) < MaxBatchSize
  /\ flushErr \in BOOLEAN
  /\ batches \in Nat /\ flushed \in Nat /\ writeErrors \in Nat /\ onErrors \in Nat
  /\ delivered \in Seq(Job)
  /\ refused \in SUBSET Job
  /\ failed \in Nat /\ withheld \in Nat
  /\ answer \in [Callers -> BOOLEAN]

LEMMA BatchTypesInit == Init => BatchTypes
<1> SUFFICES ASSUME Init PROVE BatchTypes
  OBVIOUS
<1>1. <<>> \in Seq(Job) /\ Len(<<>>) = 0
  BY EmptySeq
<1>2. /\ batch = <<>> /\ delivered = <<>> /\ refused = {}
      /\ batches = 0 /\ flushed = 0 /\ writeErrors = 0 /\ onErrors = 0
      /\ failed = 0 /\ withheld = 0
      /\ batchWriter \in BOOLEAN /\ flushErr = FALSE
      /\ answer = [c \in Callers |-> FALSE]
  BY DEF Init
<1>3. batch \in Seq(Job) /\ Len(batch) < MaxBatchSize
  BY <1>1, <1>2, BatchBound
<1>4. answer \in [Callers -> BOOLEAN]
  BY <1>2
<1> QED
  BY <1>1, <1>2, <1>3, <1>4 DEF BatchTypes

\* What a flush leaves of the counters' types.
LEMMA CountTypes ==
  ASSUME BatchTypes, NEW b \in Seq(Job), NEW bad, Count(b, bad)
  PROVE  batches' \in Nat /\ flushed' \in Nat /\ writeErrors' \in Nat /\ onErrors' \in Nat
<1>1. Len(b) \in Nat
  BY LenProperties
<1>2. (IF batchWriter THEN 2 ELSE 1) * Len(b) \in Nat
  BY <1>1
<1> QED
  BY <1>2 DEF BatchTypes, Count

LEMMA RefusalsOf ==
  ASSUME NEW b, NEW bad \in Refusals(b)
  PROVE  bad \subseteq ToSet(b) /\ (batchWriter => bad = {} \/ bad = ToSet(b))
BY DEF Refusals

LEMMA FlushTypes ==
  ASSUME QueueTypeOK, BatchTypes, NEW b, NEW bad, Flushes(b, bad)
  PROVE  /\ BatchTypes' /\ b \in Seq(Job) /\ Len(b) \in Nat /\ Len(b) >= 1
         /\ bad \subseteq ToSet(b) /\ bad \subseteq Job
<1>1. b \in Seq(Job)
  <2>1. CASE FinishEvent /\ b = Append(batch, Head(cur))
    <3>1. Head(cur) \in Job
      BY <2>1, AtMostOne DEF FinishEvent, QueueTypeOK
    <3> QED
      BY <2>1, <3>1, AppendProperties DEF BatchTypes
  <2> QED
    BY <2>1 DEF Flushes, BatchTypes
<1>2. Len(b) \in Nat /\ Len(b) >= 1
  BY <1>1, EmptySeq DEF Flushes
<1>3. bad \subseteq ToSet(b)
  BY RefusalsOf DEF Flushes
<1>4. ToSet(b) \subseteq Job
  BY <1>1, LenProperties, ElementOfSeq DEF ToSet
<1>5. /\ batch' = <<>> /\ delivered' = delivered \o b /\ refused' = refused \cup bad
      /\ Count(b, bad) /\ flushErr' \in BOOLEAN /\ UNCHANGED <<batchWriter, answer>>
  BY DEF Flushes, FlushBatch, Outcome, BatchTypes
<1>6. delivered' \in Seq(Job)
  BY <1>1, <1>5, ConcatProperties DEF BatchTypes
<1>7. batch' \in Seq(Job) /\ Len(batch') < MaxBatchSize
  BY <1>5, EmptySeq, BatchBound
<1>8. /\ batches' \in Nat /\ flushed' \in Nat /\ writeErrors' \in Nat /\ onErrors' \in Nat
  BY <1>1, <1>5, CountTypes
<1>9. failed' \in Nat /\ withheld' \in Nat
  BY <1>2 DEF Flushes, FlushBatch, Outcome, BatchTypes
<1> QED
  BY <1>1, <1>2, <1>3, <1>4, <1>5, <1>6, <1>7, <1>8, <1>9 DEF BatchTypes

LEMMA JoinTypes ==
  ASSUME QueueTypeOK, BatchTypes, Joins
  PROVE  BatchTypes'
<1>1. Head(cur) \in Job
  BY AtMostOne DEF Joins, FinishEvent, QueueTypeOK
<1>2. batch' \in Seq(Job) /\ Len(batch') < MaxBatchSize
  BY <1>1, AppendProperties DEF Joins, BatchTypes
<1> QED
  BY <1>2 DEF Joins, BatchTypes, bstats, handed

LEMMA BatchTypesStep == QueueTypeOK /\ BatchTypes /\ [Next]_vars => BatchTypes'
<1> SUFFICES ASSUME QueueTypeOK, BatchTypes, [Next]_vars PROVE BatchTypes'
  OBVIOUS
<1>1. CASE Passes
  BY <1>1 DEF Passes, BatchTypes, bstats, handed
<1>2. CASE Answers
  <2>1. Head(cur) \in Job /\ Head(cur).by \in Callers
    <3>1. Head(cur) \in Job
      BY <1>2, AtMostOne DEF Answers, FinishFlush, FinishClose, QueueTypeOK
    <3> QED
      BY <3>1 DEF Job
  <2>2. answer' \in [Callers -> BOOLEAN]
    BY <1>2, <2>1 DEF Answers, Answer, BatchTypes
  <2> QED
    BY <1>2, <2>2 DEF Answers, Answer, BatchTypes, bstats, handed
<1> QED
  BY <1>1, <1>2, Steps, FlushTypes, JoinTypes DEF BatchTypes

\* The channel and the batch stay within their bounds, whatever happens.
THEOREM BatchTypeCorrect == Spec => []TypeOK
<1>1. Init => QueueTypeOK /\ BatchTypes
  BY QueueTypeInit, BatchTypesInit DEF Init
<1>2. (QueueTypeOK /\ BatchTypes) /\ [Next]_vars => (QueueTypeOK /\ BatchTypes)'
  BY BatchStep, QueueTypeStep, BatchTypesStep
<1>3. QueueTypeOK /\ BatchTypes => TypeOK
  BY DEF BatchTypes, TypeOK
<1> QED
  BY <1>1, <1>2, <1>3, PTL DEF Spec

-----------------------------------------------------------------------------
(* Nothing is lost between the channel and the next sink. *)

\* Every event served is delivered or in the batch, in the order of service,
\* and what was refused had been delivered; only events are acknowledged.
BatchKept ==
  /\ EventsOf(served) = delivered \o batch
  /\ refused \subseteq ToSet(delivered)
  /\ \A e \in acked : IsEvent(e)
  /\ \A c \in Callers : \A e \in before[c] : IsEvent(e)

KeptInv == ProtocolInv /\ BatchTypes /\ BatchKept

\* The protocol's steps that serve no event.
LEMMA NoEventServed ==
  ASSUME QueueTypeOK, Passes \/ FinishFlush \/ FinishClose
  PROVE  EventsOf(served') = EventsOf(served)
<1>1. CASE FinishFlush \/ FinishClose
  <2>1. /\ cur # <<>> /\ Served /\ UNCHANGED jobs /\ ~IsEvent(Head(cur)) /\ served \in Seq(Job)
    BY <1>1 DEF FinishFlush, FinishClose, IsEvent, QueueTypeOK
  <2>2. Head(cur) \in Job /\ served' = Append(served, Head(cur))
    BY <2>1, FinishServes
  <2> QED
    BY <2>1, <2>2, EventsOfAppend
<1>2. CASE Passes
  <2>1. UNCHANGED served
    <3>1. CASE UNCHANGED qvars
      BY <3>1 DEF qvars, history
    <3>2. ASSUME NEW c \in Callers, Call(c) PROVE UNCHANGED served
      BY <3>2, CallEffect
    <3>3. ASSUME NEW c \in Callers, Continue(c) \/ Expire(c) PROVE UNCHANGED served
      BY <3>3, ContinueEffect
    <3>4. CASE Receive \/ MarkClosed \/ CloseDone
      BY <3>4 DEF Receive, MarkClosed, CloseDone, history
    <3> QED
      BY <1>2, <3>1, <3>2, <3>3, <3>4 DEF Passes
  <2> QED
    BY <2>1
<1> QED
  BY <1>1, <1>2

\* Only Acknowledge acknowledges, and only Begin remembers what was.
LEMMA AckedEventsStep ==
  ASSUME QueueTypeOK, [QueueNext]_qvars,
         \A e \in acked : IsEvent(e),
         \A c \in Callers : \A e \in before[c] : IsEvent(e)
  PROVE  /\ \A e \in acked' : IsEvent(e)
         /\ \A c \in Callers : \A e \in before'[c] : IsEvent(e)
<1>1. CASE UNCHANGED qvars
  BY <1>1 DEF qvars, history
<1>2. ASSUME NEW c \in Callers, Call(c)
      PROVE  /\ \A e \in acked' : IsEvent(e)
             /\ \A d \in Callers : \A e \in before'[d] : IsEvent(e)
  <2>1. /\ acked' = acked /\ before'[c] = acked
        /\ \A d \in Callers \ {c} : before'[d] = before[d]
    BY <1>2, CallEffect
  <2> QED
    BY <2>1
<1>3. ASSUME NEW c \in Callers, Continue(c) \/ Expire(c)
      PROVE  /\ \A e \in acked' : IsEvent(e)
             /\ before' = before
  <2>1. before' = before
    BY <1>3, ContinueEffect
  <2>2. acked' = acked \/ (IsEvent(job[c]) /\ acked' = acked \cup {job[c]})
    BY <1>3 DEF Continue, EnqueueClose, SendJob, Acknowledge, Drop, GiveUp, ResetClosing,
       TakeResponse, AbandonResponse, StopWaiting, Join, WaitDone, Expire, history
  <2> QED
    BY <2>1, <2>2
<1>4. CASE Work
  <2>1. UNCHANGED <<acked, before>>
    BY <1>4 DEF Work, Receive, FinishEvent, FinishFlush, FinishClose, MarkClosed,
       CloseDone, history
  <2> QED
    BY <2>1
<1> QED
  BY <1>1, <1>2, <1>3, <1>4 DEF QueueNext

\* A flush hands on exactly the events that were served and not delivered.
LEMMA FlushKeeps ==
  ASSUME KeptInv, NEW b, NEW bad, Flushes(b, bad)
  PROVE  /\ EventsOf(served') = delivered \o b /\ delivered' = EventsOf(served')
         /\ delivered' \o batch' = delivered'
         /\ ToSet(delivered) \subseteq ToSet(delivered') /\ ToSet(b) \subseteq ToSet(delivered')
<1> USE DEF KeptInv, ProtocolInv
<1>1. /\ QueueTypeOK /\ delivered \in Seq(Job) /\ batch \in Seq(Job) /\ b \in Seq(Job)
  BY FlushTypes DEF SealInv, QueueInv, BatchTypes
<1>2. delivered' = delivered \o b /\ batch' = <<>>
  BY DEF Flushes, FlushBatch
<1>3. EventsOf(served') = delivered \o b
  <2>1. CASE FinishEvent /\ b = Append(batch, Head(cur))
    <3>1. EventsOf(served') = Append(EventsOf(served), Head(cur)) /\ Head(cur) \in Job
      BY <2>1, EventPart
    <3>2. <<Head(cur)>> \in Seq(Job) /\ b = batch \o <<Head(cur)>>
      BY <1>1, <2>1, <3>1, AppendIsConcat
    <3>3. Append(delivered \o batch, Head(cur)) = (delivered \o batch) \o <<Head(cur)>>
      BY <1>1, <3>1, ConcatProperties, AppendIsConcat
    <3>4. (delivered \o batch) \o <<Head(cur)>> = delivered \o (batch \o <<Head(cur)>>)
      BY <1>1, <3>2, ConcatAssociative
    <3> QED
      BY <2>1, <3>1, <3>2, <3>3, <3>4 DEF BatchKept
  <2>2. CASE UNCHANGED qvars /\ b = batch
    BY <2>2 DEF qvars, history, BatchKept
  <2> QED
    BY <2>1, <2>2 DEF Flushes
<1>4. delivered' \in Seq(Job) /\ delivered' \o <<>> = delivered'
  BY <1>1, <1>2, ConcatProperties, ConcatEmptySeq
<1>5. /\ Len(delivered) \in Nat /\ Len(b) \in Nat
      /\ DOMAIN delivered = 1..Len(delivered) /\ DOMAIN b = 1..Len(b)
      /\ DOMAIN delivered' = 1..Len(delivered) + Len(b)
      /\ \A i \in 1..Len(delivered) : delivered'[i] = delivered[i]
      /\ \A i \in 1..Len(b) : delivered'[Len(delivered) + i] = b[i]
  BY <1>1, <1>2, <1>4, ConcatProperties, LenProperties
<1>6. ToSet(delivered) \subseteq ToSet(delivered')
  <2>1. \A i \in 1..Len(delivered) : i \in DOMAIN delivered'
    BY <1>5
  <2> QED
    BY <1>5, <2>1 DEF ToSet
<1>7. ToSet(b) \subseteq ToSet(delivered')
  <2>1. \A i \in 1..Len(b) : Len(delivered) + i \in DOMAIN delivered'
    BY <1>5
  <2> QED
    BY <1>5, <2>1 DEF ToSet
<1> QED
  BY <1>2, <1>3, <1>4, <1>6, <1>7

LEMMA KeptInit == Init => KeptInv
<1> SUFFICES ASSUME Init PROVE KeptInv
  OBVIOUS
<1>1. served = <<>> /\ delivered = <<>> /\ batch = <<>> /\ refused = {} /\ acked = {}
  BY DEF Init, QueueInit
<1>2. \A c \in Callers : before[c] = {}
  BY DEF Init, QueueInit
<1>3. EventsOf(<<>>) = <<>> /\ <<>> \o <<>> = <<>>
  BY EventsOfEmpty, EmptySeq, ConcatEmptySeq
<1> QED
  BY <1>1, <1>2, <1>3, ProtocolInit, BatchTypesInit DEF KeptInv, BatchKept

LEMMA KeptStep == KeptInv /\ [Next]_vars => KeptInv'
<1> SUFFICES ASSUME KeptInv, [Next]_vars PROVE KeptInv'
  OBVIOUS
<1> USE DEF KeptInv
<1>0. QueueTypeOK /\ SealInv /\ [QueueNext]_qvars
  BY BatchStep DEF ProtocolInv, SealInv, QueueInv
<1>1. ProtocolInv' /\ BatchTypes'
  BY <1>0, ProtocolStep, BatchTypesStep
<1>2. /\ \A e \in acked' : IsEvent(e)
      /\ \A c \in Callers : \A e \in before'[c] : IsEvent(e)
  BY <1>0, AckedEventsStep DEF BatchKept
<1>3. /\ EventsOf(served') = delivered' \o batch'
      /\ refused' \subseteq ToSet(delivered')
  <2>1. CASE Passes
    <3>1. UNCHANGED <<delivered, batch, refused>> /\ EventsOf(served') = EventsOf(served)
      BY <1>0, <2>1, NoEventServed DEF Passes, handed
    <3> QED
      BY <3>1 DEF BatchKept
  <2>2. CASE Answers
    <3>1. UNCHANGED <<delivered, batch, refused>> /\ EventsOf(served') = EventsOf(served)
      BY <1>0, <2>2, NoEventServed DEF Answers, Answer, handed
    <3> QED
      BY <3>1 DEF BatchKept
  <2>3. CASE Joins
    <3>1. /\ EventsOf(served') = Append(EventsOf(served), Head(cur)) /\ Head(cur) \in Job
          /\ batch' = Append(batch, Head(cur)) /\ UNCHANGED <<delivered, refused>>
          /\ delivered \in Seq(Job) /\ batch \in Seq(Job)
      BY <1>0, <2>3, EventPart DEF Joins, BatchTypes, handed
    <3>2. <<Head(cur)>> \in Seq(Job) /\ batch' = batch \o <<Head(cur)>>
      BY <3>1, AppendIsConcat
    <3>3. Append(delivered \o batch, Head(cur)) = (delivered \o batch) \o <<Head(cur)>>
      BY <3>1, ConcatProperties, AppendIsConcat
    <3>4. (delivered \o batch) \o <<Head(cur)>> = delivered \o (batch \o <<Head(cur)>>)
      BY <3>1, <3>2, ConcatAssociative
    <3> QED
      BY <3>1, <3>2, <3>3, <3>4 DEF BatchKept
  <2>4. ASSUME NEW b, NEW bad, Flushes(b, bad)
        PROVE  /\ EventsOf(served') = delivered' \o batch'
               /\ refused' \subseteq ToSet(delivered')
    <3>1. bad \subseteq ToSet(b) /\ refused' = refused \cup bad
      BY <1>0, <2>4, FlushTypes DEF Flushes, FlushBatch, Outcome
    <3> QED
      BY <2>4, <3>1, FlushKeeps DEF BatchKept
  <2> QED
    BY <1>0, <2>1, <2>2, <2>3, <2>4, Steps DEF BatchTypes
<1> QED
  BY <1>1, <1>2, <1>3 DEF BatchKept

LEMMA KeptInvariant == Spec => []KeptInv
BY KeptInit, KeptStep, PTL DEF Spec

-----------------------------------------------------------------------------
(* Answers are barriers. *)

BarrierKept == KeptInv /\ AnswerIsBarrier

\* The worker answers when the batch is empty, so all that was served is with
\* the next sink.
LEMMA BarrierAnswers ==
  ASSUME BarrierKept, Answers, QueueInv'
  PROVE  AnswerIsBarrier'
<1> USE DEF BarrierKept, KeptInv, ProtocolInv
<1>1. QueueTypeOK /\ SealInv
  BY DEF SealInv, QueueInv
<1>2. /\ UNCHANGED <<delivered, before>> /\ batch = <<>>
      /\ EventsOf(served') = EventsOf(served)
  BY <1>1, NoEventServed DEF Answers, Answer, FinishFlush, FinishClose, handed
<1>3. EventsOf(served') = delivered
  BY <1>2, ConcatEmptySeq DEF BatchKept, BatchTypes
<1>4. ResponseIsBarrier'
  BY BarrierHolds, PTL
<1>5. served' \in Seq(Job) /\ DOMAIN served' = 1..Len(served') /\ answered' \subseteq Callers
  BY LenProperties DEF QueueInv, QueueTypeOK
<1>6. ASSUME NEW c \in answered', NEW e \in before[c] PROVE e \in ToSet(delivered)
  <2>1. e \in Range(served')
    BY <1>2, <1>4, <1>6 DEF ResponseIsBarrier
  <2>2. PICK i \in 1..Len(served') : served'[i] = e
    BY <1>5, <2>1 DEF Range
  <2>3. IsEvent(e)
    BY <1>5, <1>6 DEF BatchKept
  <2> QED
    BY <1>3, <1>5, <2>2, <2>3, EventsOfAll
<1> QED
  BY <1>2, <1>6 DEF AnswerIsBarrier

\* No other step answers anybody, a new call finds no answer, and what has been
\* delivered stays delivered.
LEMMA BarrierOthers ==
  ASSUME BarrierKept, ~Answers, [Next]_vars
  PROVE  AnswerIsBarrier'
<1> USE DEF BarrierKept, KeptInv, ProtocolInv
<1>1. QueueTypeOK /\ SealInv /\ QueueInv
  BY DEF SealInv, QueueInv
<1>2. \A c \in answered : c \in Callers /\ pc[c] # "idle"
  BY <1>1 DEF QueueInv, BarrierInv, QueueTypeOK
<1>3. CASE Passes
  <2>1. UNCHANGED delivered
    BY <1>3 DEF Passes, handed
  <2>2. ASSUME NEW c \in answered' PROVE c \in answered /\ before'[c] = before[c]
    <3>1. CASE UNCHANGED qvars
      BY <2>2, <3>1 DEF qvars, history
    <3>2. ASSUME NEW d \in Callers, Call(d) PROVE c \in answered /\ before'[c] = before[c]
      <4>1. /\ answered' = answered /\ pc[d] = "idle"
            /\ \A k \in Callers \ {d} : before'[k] = before[k]
        BY <1>1, <3>2, CallEffect
      <4> QED
        BY <1>2, <2>2, <4>1
    <3>3. ASSUME NEW d \in Callers, Continue(d) \/ Expire(d)
          PROVE  c \in answered /\ before'[c] = before[c]
      <4>1. before' = before
        BY <1>1, <3>3, ContinueEffect
      <4>2. answered' \subseteq answered
        BY <3>3 DEF Continue, EnqueueClose, SendJob, Acknowledge, Drop, GiveUp, ResetClosing,
           TakeResponse, AbandonResponse, StopWaiting, Join, WaitDone, Expire
      <4> QED
        BY <2>2, <4>1, <4>2
    <3>4. CASE Receive \/ MarkClosed \/ CloseDone
      BY <2>2, <3>4 DEF Receive, MarkClosed, CloseDone, history
    <3> QED
      BY <1>3, <3>1, <3>2, <3>3, <3>4 DEF Passes
  <2> QED
    BY <2>1, <2>2 DEF AnswerIsBarrier
<1>4. CASE Joins
  BY <1>4 DEF Joins, FinishEvent, AnswerIsBarrier, handed
<1>5. ASSUME NEW b, NEW bad, Flushes(b, bad) PROVE AnswerIsBarrier'
  <2>1. ToSet(delivered) \subseteq ToSet(delivered') /\ UNCHANGED <<answered, before>>
    BY <1>5, FlushKeeps DEF Flushes
  <2> QED
    BY <2>1 DEF AnswerIsBarrier
<1> QED
  BY <1>1, <1>3, <1>4, <1>5, Steps DEF BatchTypes

\* A Sync or Close that is answered finds every earlier acknowledged event
\* handed to the next sink, none of them in the batch.
THEOREM AnswerIsBarrierCorrect == Spec => []AnswerIsBarrier
<1>1. Init => BarrierKept
  <2>1. Init => answered = {}
    BY DEF Init, QueueInit
  <2> QED
    BY <2>1, KeptInit DEF BarrierKept, AnswerIsBarrier
<1>2. BarrierKept /\ [Next]_vars => BarrierKept'
  <2> SUFFICES ASSUME BarrierKept, [Next]_vars PROVE BarrierKept'
    OBVIOUS
  <2>1. KeptInv'
    BY KeptStep DEF BarrierKept
  <2>2. QueueInv'
    BY <2>1 DEF KeptInv, ProtocolInv, SealInv
  <2> QED
    BY <2>1, <2>2, BarrierAnswers, BarrierOthers DEF BarrierKept
<1>3. BarrierKept => AnswerIsBarrier
  BY DEF BarrierKept
<1> QED
  BY <1>1, <1>2, <1>3, PTL DEF Spec

-----------------------------------------------------------------------------
(* BatchSink implements OrderedDelivery. *)

\* A flush delivers: the new end of the deliveries is beyond the old one and
\* not beyond the seal.
LEMMA FlushDelivers ==
  ASSUME KeptInv, NEW b, NEW bad, Flushes(b, bad)
  PROVE  Delivery!Deliver
<1> USE DEF KeptInv, ProtocolInv
<1>0. QueueTypeOK /\ [QueueNext]_qvars
  BY DEF SealInv, QueueInv, Flushes, QueueNext, Work
<1> DEFINE n == Len(delivered')
<1>1. EventsOf(served') = delivered' /\ delivered' = delivered \o b
  BY FlushKeeps
<1>2. /\ delivered' = SubSeq(EventsOf(Trail), 1, n)
      /\ n <= Len(EventsOf(Trail)) /\ Len(EventsOf(Trail)) \in Nat
      /\ \A k \in Seal : k \in Nat /\ n <= k
  <2>1. CASE FinishEvent
    BY <1>1, <2>1, EventPart
  <2>2. CASE UNCHANGED qvars
    <3>1. served' = served /\ worker = "running"
      BY <2>2 DEF Flushes, qvars, history
    <3> QED
      BY <1>1, <3>1, ServedPart
  <2> QED
    BY <2>1, <2>2 DEF Flushes
<1>3. n \in Nat /\ Len(delivered) \in Nat /\ n >= Len(delivered) + 1
  <2>1. b \in Seq(Job) /\ Len(b) \in Nat /\ Len(b) >= 1 /\ delivered \in Seq(Job)
    BY <1>0, FlushTypes DEF BatchTypes
  <2> QED
    BY <1>1, <2>1, ConcatProperties, LenProperties
<1>4. EventsOf(Trail)' = EventsOf(Trail) /\ Seal' = Seal /\ ~(worker # "running")
      /\ (worker # "running")' = (worker # "running")
  <2>1. \A c \in Callers : ~SendJob(c)
    <3>1. UNCHANGED pc
      BY DEF Flushes
    <3> QED
      BY <1>0, <3>1 DEF SendJob, QueueTypeOK
  <2> QED
    BY <1>0, <2>1, TrailStays DEF Flushes
<1> HIDE DEF n
<1>5. Delivery!Limit \in Nat /\ n <= Delivery!Limit
  BY <1>2 DEF Delivery!Limit
<1>6. n \in Len(delivered) + 1 .. Delivery!Limit
  BY <1>3, <1>5
<1> QED
  BY <1>2, <1>4, <1>6 DEF Delivery!Deliver

LEMMA BatchDelivers == KeptInv /\ [Next]_vars => [Delivery!Next]_(Delivery!vars)
<1> SUFFICES ASSUME KeptInv, [Next]_vars PROVE [Delivery!Next]_(Delivery!vars)
  OBVIOUS
<1> USE DEF KeptInv, ProtocolInv
<1>0. QueueTypeOK /\ [QueueNext]_qvars
  BY BatchStep DEF SealInv, QueueInv
<1>1. ASSUME NEW b, NEW bad, Flushes(b, bad) PROVE Delivery!Next
  BY <1>1, FlushDelivers DEF Delivery!Next
<1>2. ASSUME NEW c \in Callers, SendJob(c), Passes PROVE [Delivery!Next]_(Delivery!vars)
  <2>1. UNCHANGED delivered /\ (worker # "running")' = (worker # "running")
    BY <1>2 DEF SendJob, Passes, handed
  <2>2. CASE IsEvent(job[c])
    <3>1. /\ EventsOf(Trail)' = Append(EventsOf(Trail), job[c])
          /\ job[c] \in Events /\ job[c] \notin ToSet(EventsOf(Trail))
          /\ Seal' = Seal
      BY <1>2, <2>2, SendMaps DEF IsEvent
    <3>2. Delivery!Accept
      BY <2>1, <3>1 DEF Delivery!Accept, Delivery!ToSet, ToSet
    <3> QED
      BY <3>2 DEF Delivery!Next
  <2>3. CASE job[c].kind = "close"
    <3>1. /\ EventsOf(Trail)' = EventsOf(Trail)
          /\ Seal = {} /\ Seal' = {Len(EventsOf(Trail))}
      BY <1>2, <2>3, SendMaps DEF IsEvent
    <3>2. Delivery!Seal
      BY <2>1, <3>1 DEF Delivery!Seal
    <3> QED
      BY <3>2 DEF Delivery!Next
  <2>4. CASE ~IsEvent(job[c]) /\ job[c].kind # "close"
    <3>1. EventsOf(Trail)' = EventsOf(Trail) /\ Seal' = Seal
      BY <1>2, <2>4, SendMaps
    <3> QED
      BY <2>1, <3>1 DEF Delivery!vars
  <2> QED
    BY <2>2, <2>3, <2>4
<1>3. ASSUME \A c \in Callers : ~SendJob(c), Passes PROVE UNCHANGED Delivery!vars
  <2>1. EventsOf(Trail)' = EventsOf(Trail) /\ Seal' = Seal
    BY <1>0, <1>3, TrailStays
  <2>2. UNCHANGED delivered
    BY <1>3 DEF Passes, handed
  <2>3. (worker # "running")' = (worker # "running")
    <3>1. CASE UNCHANGED qvars
      BY <3>1 DEF qvars
    <3>2. ASSUME NEW d \in Callers, Call(d) PROVE UNCHANGED worker
      BY <1>0, <3>2, CallEffect
    <3>3. ASSUME NEW d \in Callers, Continue(d) \/ Expire(d) PROVE UNCHANGED worker
      BY <1>0, <3>3, ContinueEffect
    <3>4. CASE Receive \/ MarkClosed \/ CloseDone
      BY <3>4 DEF Receive, MarkClosed, CloseDone
    <3> QED
      BY <1>3, <3>1, <3>2, <3>3, <3>4 DEF Passes
  <2> QED
    BY <2>1, <2>2, <2>3 DEF Delivery!vars
<1>4. ASSUME Joins \/ Answers PROVE [Delivery!Next]_(Delivery!vars)
  <2>1. UNCHANGED <<pc, delivered>>
    BY <1>4 DEF Joins, Answers, Answer, FinishEvent, FinishFlush, FinishClose, handed
  <2>2. EventsOf(Trail)' = EventsOf(Trail) /\ Seal' = Seal
    <3>1. \A c \in Callers : ~SendJob(c)
      BY <1>0, <2>1 DEF SendJob, QueueTypeOK
    <3> QED
      BY <1>0, <3>1, TrailStays
  <2>3. CASE Joins \/ FinishFlush
    <3>1. UNCHANGED worker
      BY <2>3 DEF Joins, FinishEvent, FinishFlush
    <3> QED
      BY <2>1, <2>2, <3>1 DEF Delivery!vars
  <2>4. CASE FinishClose /\ Answer
    <3>1. worker = "running" /\ worker' = "unwinding" /\ Seal = {Len(EventsOf(served))}
      BY <2>4, CloseSeals DEF FinishClose
    <3>2. EventsOf(served) = delivered
      BY <2>4, ConcatEmptySeq DEF Answer, BatchKept, BatchTypes
    <3>3. Delivery!Shut
      BY <2>1, <2>2, <3>1, <3>2 DEF Delivery!Shut
    <3> QED
      BY <3>3 DEF Delivery!Next
  <2> QED
    BY <1>4, <2>3, <2>4 DEF Answers
<1> QED
  BY <1>0, <1>1, <1>2, <1>3, <1>4, Steps DEF BatchTypes

\* The next sink is handed the events in the order of their acceptance, each
\* once; those before the close job all of them, and none behind it.
THEOREM DeliversInOrderCorrect == Spec => DeliversInOrder
<1>1. Init => Delivery!Init
  <2>1. QueueInit => Queue!Init
    BY QueueDeliversInit
  <2> QED
    BY <2>1 DEF Init, Queue!Init, Delivery!Init
<1>2. KeptInv /\ [Next]_vars => [Delivery!Next]_(Delivery!vars)
  BY BatchDelivers
<1> QED
  BY <1>1, <1>2, KeptInvariant, PTL DEF Spec, DeliversInOrder, Delivery!Spec

-----------------------------------------------------------------------------
(* The counters. *)

\* What StatsAccounted says beside StatsBalance, for either kind of next sink.
CountsInv ==
  /\ failed > 0 <=> refused # {}
  /\ Cardinality(refused) <= withheld /\ withheld <= Len(delivered)
  /\ failed <= batches
  /\ batchWriter  => /\ withheld = Cardinality(refused)
                     /\ onErrors = 2 * failed /\ writeErrors = failed
                     /\ flushed = 2 * (Len(delivered) - withheld)
  /\ ~batchWriter => /\ onErrors = failed /\ writeErrors = 0
                     /\ flushed = Len(delivered) - withheld

\* The queue serves no job twice.
ServedOnce == served \in Seq(Job) /\ Distinct(served)

LEMMA ServedDistinct == QueueInv => ServedOnce
<1> SUFFICES ASSUME QueueInv PROVE served \in Seq(Job) /\ Distinct(served)
  BY DEF ServedOnce
<1>1. /\ served \in Seq(Job) /\ DOMAIN served = 1..Len(served) /\ Len(served) \in Nat
  BY LenProperties DEF QueueInv, QueueTypeOK
<1>2. ASSUME NEW i \in 1..Len(served), NEW k \in 1..Len(served), i < k
      PROVE  served[i] # served[k]
  <2>1. /\ i \in DOMAIN Trail /\ k \in DOMAIN Trail
        /\ Trail[i] = served[i] /\ Trail[k] = served[k]
    BY <1>1, ServedIsPrefix DEF QueueInv
  <2>2. Trail[i].by = Trail[k].by => Trail[i].n < Trail[k].n
    BY <1>2, <2>1 DEF QueueInv, OrderInv, PerCallerOrder
  <2>3. Trail[i].n \in Nat
    BY <2>1, TrailElements DEF QueueInv
  <2> QED
    BY <2>1, <2>2, <2>3
<1>3. ASSUME NEW i \in 1..Len(served), NEW k \in 1..Len(served), served[i] = served[k]
      PROVE  i = k
  <2>1. ~(i < k) /\ ~(k < i)
    BY <1>2, <1>3
  <2> QED
    BY <2>1
<1> QED
  BY <1>1, <1>3 DEF Distinct

LEMMA ServedDistinctNext == QueueInv' => ServedOnce'
  BY ServedDistinct, PTL

\* The parts of a sequence without repetitions have nothing in common.
LEMMA DistinctParts ==
  ASSUME NEW s \in Seq(Job), NEW t \in Seq(Job), Distinct(s \o t)
  PROVE  Distinct(t) /\ ToSet(s) \cap ToSet(t) = {}
<1>1. /\ Len(s) \in Nat /\ Len(t) \in Nat
      /\ DOMAIN s = 1..Len(s) /\ DOMAIN t = 1..Len(t)
      /\ Len(s \o t) = Len(s) + Len(t)
      /\ \A i \in 1..Len(s) : (s \o t)[i] = s[i]
      /\ \A i \in 1..Len(t) : (s \o t)[Len(s) + i] = t[i]
  BY ConcatProperties, LenProperties
<1>2. /\ \A i \in 1..Len(s) : i \in 1..Len(s \o t)
      /\ \A k \in 1..Len(t) : Len(s) + k \in 1..Len(s \o t)
  BY <1>1
<1>3. Distinct(t)
  <2>1. ASSUME NEW i \in 1..Len(t), NEW k \in 1..Len(t), t[i] = t[k] PROVE i = k
    <3>1. Len(s) + i = Len(s) + k
      BY <1>1, <1>2, <2>1 DEF Distinct
    <3> QED
      BY <1>1, <3>1
  <2> QED
    BY <2>1 DEF Distinct
<1>4. ASSUME NEW x \in ToSet(s), x \in ToSet(t) PROVE FALSE
  <2>1. PICK i \in 1..Len(s) : s[i] = x
    BY <1>1 DEF ToSet
  <2>2. PICK k \in 1..Len(t) : t[k] = x
    BY <1>1, <1>4 DEF ToSet
  <2>3. i = Len(s) + k
    BY <1>1, <1>2, <2>1, <2>2 DEF Distinct
  <2> QED
    BY <1>1, <2>3
<1> QED
  BY <1>3, <1>4

\* How a flush moves the two sides of the balance.
LEMMA FlushSizes ==
  ASSUME KeptInv, NEW b, NEW bad, Flushes(b, bad), QueueInv'
  PROVE  /\ Len(delivered) \in Nat /\ Len(b) \in Nat /\ Len(b) >= 1
         /\ Len(delivered') = Len(delivered) + Len(b)
         /\ Cardinality(refused) \in Nat /\ Cardinality(refused) <= Len(delivered)
         /\ Cardinality(bad) \in Nat /\ Cardinality(bad) <= Len(b)
         /\ Cardinality(refused') = Cardinality(refused) + Cardinality(bad)
         /\ bad = {} => Cardinality(bad) = 0
         /\ batchWriter => bad = {} \/ Cardinality(bad) = Len(b)
<1>11. EventsOf(served') = delivered \o b
  BY FlushKeeps
<1> USE DEF KeptInv, ProtocolInv
<1>0. QueueTypeOK
  BY DEF SealInv, QueueInv
<1>1. /\ b \in Seq(Job) /\ Len(b) \in Nat /\ Len(b) >= 1 /\ delivered \in Seq(Job)
      /\ bad \subseteq ToSet(b) /\ refused \subseteq ToSet(delivered)
      /\ refused' = refused \cup bad /\ delivered' = delivered \o b
  BY <1>0, FlushTypes DEF Flushes, FlushBatch, Outcome, BatchTypes, BatchKept
<1>2. Len(delivered) \in Nat /\ Len(delivered') = Len(delivered) + Len(b)
  BY <1>1, ConcatProperties, LenProperties
<1>3. Distinct(delivered \o b)
  <2>1. served' \in Seq(Job) /\ Distinct(served')
    BY ServedDistinctNext DEF ServedOnce
  <2> QED
    BY <1>11, <2>1, EventsOfDistinct
<1>4. Distinct(b) /\ ToSet(delivered) \cap ToSet(b) = {}
  BY <1>1, <1>3, DistinctParts
<1>5. /\ IsFiniteSet(ToSet(b)) /\ Cardinality(ToSet(b)) = Len(b)
      /\ IsFiniteSet(ToSet(delivered)) /\ Cardinality(ToSet(delivered)) <= Len(delivered)
      /\ Cardinality(ToSet(delivered)) \in Nat
  BY <1>1, <1>4, ToSetSize
<1>6. /\ IsFiniteSet(refused) /\ Cardinality(refused) \in Nat
      /\ Cardinality(refused) <= Len(delivered)
  BY <1>1, <1>2, <1>5, FS_Subset, FS_CardinalityType
<1>7. IsFiniteSet(bad) /\ Cardinality(bad) \in Nat /\ Cardinality(bad) <= Len(b)
  BY <1>1, <1>5, FS_Subset, FS_CardinalityType
<1>8. Cardinality(refused \cup bad) = Cardinality(refused) + Cardinality(bad)
  <2>1. Cardinality(refused \cap bad) = 0
    <3>1. refused \cap bad = {}
      BY <1>1, <1>4
    <3> QED
      BY <3>1, FS_EmptySet
  <2>2. Cardinality(refused \cup bad)
          = Cardinality(refused) + Cardinality(bad) - Cardinality(refused \cap bad)
    BY <1>6, <1>7, FS_Union
  <2> QED
    BY <1>6, <1>7, <2>1, <2>2
<1>9. bad = {} => Cardinality(bad) = 0
  BY FS_EmptySet
<1>10. batchWriter => bad = {} \/ Cardinality(bad) = Len(b)
  BY <1>5, RefusalsOf DEF Flushes
<1> QED
  BY <1>1, <1>2, <1>6, <1>7, <1>8, <1>9, <1>10

LEMMA FlushCounts ==
  ASSUME KeptInv, CountsInv, NEW b, NEW bad, Flushes(b, bad), QueueInv'
  PROVE  CountsInv'
<1> DEFINE d == Len(delivered)
           r == Cardinality(refused)
           n == Len(b)
           k == Cardinality(bad)
<1>1. /\ d \in Nat /\ n \in Nat /\ n >= 1 /\ r \in Nat /\ k \in Nat /\ k <= n
      /\ Len(delivered') = d + n /\ Cardinality(refused') = r + k
      /\ bad = {} => k = 0
      /\ batchWriter => bad = {} \/ k = n
  BY FlushSizes
<1>2. /\ batches \in Nat /\ flushed \in Nat /\ writeErrors \in Nat /\ onErrors \in Nat
      /\ failed \in Nat /\ withheld \in Nat /\ batchWriter \in BOOLEAN
  BY DEF KeptInv, BatchTypes
<1>3. /\ batchWriter' = batchWriter /\ refused' = refused \cup bad
      /\ failed' = failed + (IF bad = {} THEN 0 ELSE 1)
      /\ withheld' = withheld + (IF bad = {} THEN 0 ELSE n)
      /\ batches' = batches + 1
      /\ flushed' = IF bad # {} THEN flushed
                    ELSE flushed + (IF batchWriter THEN 2 ELSE 1) * n
      /\ writeErrors' = IF bad # {} /\ batchWriter THEN writeErrors + 1 ELSE writeErrors
      /\ onErrors' = IF bad = {} THEN onErrors
                     ELSE onErrors + (IF batchWriter THEN 2 ELSE 1)
  BY DEF Flushes, FlushBatch, Outcome, Count
<1>4. /\ failed > 0 <=> refused # {}
      /\ r <= withheld /\ withheld <= d /\ failed <= batches
      /\ batchWriter => withheld = r
      /\ batchWriter => onErrors = 2 * failed /\ writeErrors = failed
      /\ batchWriter => flushed = 2 * (d - withheld)
      /\ ~batchWriter => onErrors = failed /\ writeErrors = 0
      /\ ~batchWriter => flushed = d - withheld
  BY DEF CountsInv
<1> HIDE DEF d, r, n, k
<1>5. failed' > 0 <=> refused' # {}
  BY <1>2, <1>3, <1>4
<1>6. r + k <= withheld' /\ withheld' <= d + n /\ failed' <= batches'
  <2>1. CASE bad = {}
    BY <1>1, <1>2, <1>3, <1>4, <2>1
  <2>2. CASE bad # {}
    BY <1>1, <1>2, <1>3, <1>4, <2>2
  <2> QED
    BY <2>1, <2>2
<1>7. ASSUME batchWriter
      PROVE  /\ withheld' = r + k
             /\ onErrors' = 2 * failed' /\ writeErrors' = failed'
             /\ flushed' = 2 * ((d + n) - withheld')
  <2>1. CASE bad = {}
    <3>1. /\ k = 0 /\ withheld' = withheld /\ failed' = failed /\ flushed' = flushed + 2 * n
          /\ onErrors' = onErrors /\ writeErrors' = writeErrors
      BY <1>1, <1>2, <1>3, <1>7, <2>1
    <3> QED
      BY <1>1, <1>2, <1>4, <1>7, <3>1
  <2>2. CASE bad # {}
    <3>1. /\ k = n /\ withheld' = withheld + n /\ failed' = failed + 1 /\ flushed' = flushed
          /\ onErrors' = onErrors + 2 /\ writeErrors' = writeErrors + 1
      BY <1>1, <1>2, <1>3, <1>7, <2>2
    <3> QED
      BY <1>1, <1>2, <1>4, <1>7, <3>1
  <2> QED
    BY <2>1, <2>2
<1>8. ASSUME ~batchWriter
      PROVE  /\ onErrors' = failed' /\ writeErrors' = 0
             /\ flushed' = (d + n) - withheld'
  <2>1. CASE bad = {}
    <3>1. /\ withheld' = withheld /\ failed' = failed /\ flushed' = flushed + 1 * n
          /\ onErrors' = onErrors /\ writeErrors' = writeErrors
      BY <1>1, <1>2, <1>3, <1>8, <2>1
    <3> QED
      BY <1>1, <1>2, <1>4, <1>8, <3>1
  <2>2. CASE bad # {}
    <3>1. /\ withheld' = withheld + n /\ failed' = failed + 1 /\ flushed' = flushed
          /\ onErrors' = onErrors + 1 /\ writeErrors' = writeErrors
      BY <1>1, <1>2, <1>3, <1>8, <2>2
    <3> QED
      BY <1>1, <1>2, <1>4, <1>8, <3>1
  <2> QED
    BY <2>1, <2>2
<1>9. d + n = Len(delivered') /\ r + k = Cardinality(refused')
  BY <1>1
<1> QED
  BY <1>3, <1>5, <1>6, <1>7, <1>8, <1>9 DEF CountsInv

LEMMA CountsInit == Init => CountsInv
<1> SUFFICES ASSUME Init PROVE CountsInv
  OBVIOUS
<1>1. /\ batches = 0 /\ flushed = 0 /\ writeErrors = 0 /\ onErrors = 0
      /\ delivered = <<>> /\ refused = {} /\ failed = 0 /\ withheld = 0
  BY DEF Init
<1>2. Len(delivered) = 0 /\ Cardinality(refused) = 0
  BY <1>1, EmptySeq, FS_EmptySet
<1> QED
  BY <1>1, <1>2 DEF CountsInv

LEMMA CountsStep == KeptInv /\ CountsInv /\ [Next]_vars => CountsInv'
<1> SUFFICES ASSUME KeptInv, CountsInv, [Next]_vars PROVE CountsInv'
  OBVIOUS
<1>0. KeptInv' /\ QueueTypeOK
  BY KeptStep DEF KeptInv, ProtocolInv, SealInv, QueueInv
<1>1. CASE Passes \/ Joins \/ Answers
  BY <1>1 DEF Passes, Joins, Answers, Answer, bstats, handed, CountsInv
<1>2. ASSUME NEW b, NEW bad, Flushes(b, bad) PROVE CountsInv'
  <2>1. QueueInv'
    BY <1>0 DEF KeptInv, ProtocolInv, SealInv
  <2> QED
    BY <1>2, <2>1, FlushCounts
<1> QED
  BY <1>0, <1>1, <1>2, Steps DEF KeptInv, BatchTypes

\* Stats accounts for every job, and it and OnError for every batch that failed.
THEOREM StatsAccountedCorrect == Spec => []StatsAccounted
<1>1. Init => KeptInv /\ CountsInv
  BY KeptInit, CountsInit
<1>2. (KeptInv /\ CountsInv) /\ [Next]_vars => (KeptInv /\ CountsInv)'
  BY KeptStep, CountsStep
<1>3. KeptInv /\ CountsInv => StatsAccounted
  <2> SUFFICES ASSUME KeptInv, CountsInv PROVE StatsAccounted
    OBVIOUS
  <2>1. StatsBalance
    BY StatsInvImplies DEF KeptInv, ProtocolInv
  <2>2. batchWriter \in BOOLEAN /\ failed \in Nat /\ flushed \in Nat
    BY DEF KeptInv, BatchTypes
  <2>3. CASE batchWriter
    BY <2>1, <2>3 DEF CountsInv, StatsAccounted
  <2>4. CASE ~batchWriter
    <3>1. failed = 1 * failed /\ flushed = 1 * (Len(delivered) - withheld)
      BY <2>2, <2>4 DEF CountsInv
    <3> QED
      BY <2>1, <2>4, <3>1 DEF CountsInv, StatsAccounted
  <2> QED
    BY <2>2, <2>3, <2>4
<1> QED
  BY <1>1, <1>2, <1>3, PTL DEF Spec

=============================================================================
