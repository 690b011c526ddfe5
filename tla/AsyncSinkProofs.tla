--------------------------- MODULE AsyncSinkProofs ---------------------------
(***************************************************************************)
(* Theorems about AsyncSink.  Its steps are steps of the queue protocol or *)
(* leave the protocol alone, so the protocol's invariants hold of it; on   *)
(* them rests what it does with the errors of its writes.                  *)
(***************************************************************************)
EXTENDS AsyncSink, SinkQueueProofs

LEMMA AsyncStep == [Next]_vars => [QueueNext]_qvars
BY DEF Next, vars, QueueNext, Run, ContinueCall, QueueStep, Continue, Work,
       TakeAnswer, AbandonAnswer, HandleEvent, HandleFlush, HandleClose

\* In AsyncSink too, the flag closing has one owner.
THEOREM AsyncClosingCorrect == Spec => []ClosingOwned
<1>1. Init => ClosingInv
  BY ClosingInit DEF Init
<1>2. ClosingInv /\ [Next]_vars => ClosingInv'
  BY AsyncStep, ClosingStep
<1>3. ClosingInv => ClosingOwned
  BY DEF ClosingInv
<1> QED
  BY <1>1, <1>2, <1>3, PTL DEF Spec

-----------------------------------------------------------------------------
(* The errors of the worker. *)

LEMMA TypeInit == Init => AsyncTypes
BY DEF Init, AsyncTypes

LEMMA TypeStep == QueueTypeOK /\ AsyncTypes /\ [Next]_vars => AsyncTypes'
<1> SUFFICES ASSUME QueueTypeOK, AsyncTypes, [Next]_vars PROVE AsyncTypes'
  OBVIOUS
<1> USE DEF AsyncTypes
<1>1. CASE UNCHANGED avars
  BY <1>1 DEF avars
<1>2. ASSUME cur # <<>> PROVE Head(cur) \in Job /\ Head(cur).by \in Callers
  <2>1. Head(cur) \in Job
    BY <1>2, HeadTailProperties DEF QueueTypeOK
  <2> QED
    BY <2>1 DEF Job
<1>3. CASE HandleEvent
  <2>1. Head(cur) \in {j \in Job : IsEvent(j)}
    BY <1>2, <1>3 DEF HandleEvent, FinishEvent
  <2> QED
    BY <1>3, <2>1 DEF HandleEvent, avars
<1>4. CASE HandleFlush \/ HandleClose
  <2>1. Head(cur) \in Job /\ Answer
    BY <1>2, <1>4 DEF HandleFlush, HandleClose, FinishFlush, FinishClose
  <2>2. PICK nextErr \in SUBSET {Head(cur)} :
          answer' = IF Listening(Head(cur))
                      THEN [answer EXCEPT ![Head(cur).by] = JoinErrors(workerErrs, nextErr)]
                      ELSE answer
    BY <2>1 DEF Answer
  <2>3. JoinErrors(workerErrs, nextErr) \in SUBSET Job
    BY <2>1 DEF JoinErrors
  <2>4. answer' \in [Callers -> SUBSET Job]
    BY <2>2, <2>3
  <2> QED
    BY <2>1, <2>4 DEF Answer
<1>5. ASSUME NEW c \in Callers, TakeAnswer(c) \/ AbandonAnswer(c) PROVE AsyncTypes'
  BY <1>5 DEF TakeAnswer, AbandonAnswer
<1> QED
  BY <1>1, <1>3, <1>4, <1>5 DEF Next, vars, Run, ContinueCall, QueueStep

\* What a job's error token can be: of a served job; the set of all tokens that
\* are somewhere.
Reported == InAnswers \cup reported

\* The inductive invariant: errors are of served jobs, those of events are of
\* refused ones, and no error is in two places.
ErrorInv ==
  /\ workerErrs \subseteq failed
  /\ failed \subseteq Range(served) /\ \A j \in failed : IsEvent(j)
  /\ Reported \subseteq Range(served)
  /\ \A j \in Reported : IsEvent(j) => j \in failed
  /\ workerErrs \cap Reported = {}
  /\ InAnswers \cap reported = {}
  /\ \A c, d \in answered : c # d => answer[c] \cap answer[d] = {}
  /\ AnswerCoversErrors

AsyncInv == QueueInv /\ AsyncTypes /\ ErrorInv

LEMMA ErrorInvImplies == AsyncInv => ErrorsReportedOnce /\ AnswerCoversErrors
BY DEF AsyncInv, ErrorInv, ErrorsReportedOnce, Reported

\* A step that only moves the protocol keeps the errors where they are: it
\* serves no job, and a caller it removes from answered had no error to lose.
LEMMA ErrorFrame ==
  ASSUME AsyncInv, UNCHANGED <<avars, answered>>, Range(served) \subseteq Range(served)',
         \A c \in answered : before'[c] = before[c]
  PROVE  ErrorInv'
BY DEF AsyncInv, ErrorInv, Reported, InAnswers, AnswerCoversErrors, avars

\* Handling an event: its error, if any, is new.
LEMMA ErrorEvent ==
  ASSUME AsyncInv, HandleEvent, QueueInv'
  PROVE  ErrorInv'
<1> USE DEF AsyncInv
<1>1. /\ cur # <<>> /\ IsEvent(Head(cur)) /\ UNCHANGED <<answered, before, jobs>>
      /\ Served
  BY DEF HandleEvent, FinishEvent
<1>2. Head(cur) \notin Range(served)
  BY <1>1, HeadIsNew
<1>3. Range(served) \subseteq Range(served)' /\ Head(cur) \in Range(served)'
  <2>1. served \in Seq(Job) /\ Head(cur) \in Job /\ served' = Append(served, Head(cur))
    BY <1>1, HeadIsNew DEF Served, QueueInv, QueueTypeOK
  <2>2. /\ served' \in Seq(Job) /\ Len(served') = Len(served) + 1
        /\ \A i \in 1..Len(served) : served'[i] = served[i]
        /\ served'[Len(served) + 1] = Head(cur) /\ Len(served) \in Nat
    BY <2>1, AppendProperties, LenProperties
  <2>3. DOMAIN served = 1..Len(served) /\ DOMAIN served' = 1..Len(served) + 1
    BY <2>1, <2>2, LenProperties
  <2> QED
    BY <2>2, <2>3 DEF Range
<1>4. CASE UNCHANGED avars
  BY <1>1, <1>3, <1>4, ErrorFrame
<1>5. CASE /\ workerErrs' = workerErrs \cup {Head(cur)}
           /\ failed' = failed \cup {Head(cur)}
           /\ UNCHANGED <<answer, reported>>
  <2>1. Reported' = Reported /\ InAnswers' = InAnswers
    BY <1>1, <1>5 DEF Reported, InAnswers
  <2>2. Head(cur) \notin Reported
    BY <1>2 DEF ErrorInv
  <2>3. AnswerCoversErrors'
    <3>1. ASSUME NEW c \in answered PROVE Head(cur) \notin before[c]
      BY <1>2, <3>1, BarrierHolds DEF ResponseIsBarrier
    <3> QED
      BY <1>1, <1>5, <3>1 DEF ErrorInv, AnswerCoversErrors
  <2>4. /\ workerErrs' \subseteq failed' /\ failed' \subseteq Range(served)'
        /\ \A j \in failed' : IsEvent(j)
        /\ workerErrs' \cap Reported' = {}
    BY <1>1, <1>3, <1>5, <2>1, <2>2 DEF ErrorInv
  <2>5. /\ Reported' \subseteq Range(served)'
        /\ \A j \in Reported' : IsEvent(j) => j \in failed'
        /\ InAnswers' \cap reported' = {}
        /\ \A c, d \in answered' : c # d => answer'[c] \cap answer'[d] = {}
    BY <1>1, <1>3, <1>5, <2>1 DEF ErrorInv
  <2> QED
    BY <2>3, <2>4, <2>5 DEF ErrorInv, IsEvent
<1> QED
  BY <1>4, <1>5 DEF HandleEvent

\* Handling a control job: the collected errors move to the answer, if the
\* caller still listens.
LEMMA ErrorAnswer ==
  ASSUME AsyncInv, HandleFlush \/ HandleClose, QueueInv'
  PROVE  ErrorInv'
<1> USE DEF AsyncInv
<1> DEFINE j == Head(cur)
<1>1. /\ cur # <<>> /\ ~IsEvent(j) /\ UNCHANGED <<before, jobs>> /\ Served /\ Respond
      /\ Answer
  BY DEF HandleFlush, HandleClose, FinishFlush, FinishClose, IsEvent
<1>2. j \notin Range(served) /\ j \in Job /\ j.by \in Callers
  BY <1>1, HeadIsNew DEF Job
<1>3. Range(served) \subseteq Range(served)' /\ j \in Range(served)'
  <2>1. served \in Seq(Job) /\ served' = Append(served, j)
    BY <1>1 DEF Served, QueueInv, QueueTypeOK
  <2>2. /\ served' \in Seq(Job) /\ Len(served') = Len(served) + 1
        /\ \A i \in 1..Len(served) : served'[i] = served[i]
        /\ served'[Len(served) + 1] = j /\ Len(served) \in Nat
    BY <1>2, <2>1, AppendProperties, LenProperties
  <2>3. DOMAIN served = 1..Len(served) /\ DOMAIN served' = 1..Len(served) + 1
    BY <2>1, <2>2, LenProperties
  <2> QED
    BY <2>2, <2>3 DEF Range
<1>4. PICK nextErr \in SUBSET {j} :
        answer' = IF Listening(j)
                    THEN [answer EXCEPT ![j.by] = JoinErrors(workerErrs, nextErr)]
                    ELSE answer
  BY <1>1 DEF Answer
<1>5. workerErrs' = {} /\ UNCHANGED <<failed, reported>>
  BY <1>1 DEF Answer
<1>6. answered \subseteq Callers /\ answer \in [Callers -> SUBSET Job]
  BY DEF QueueInv, QueueTypeOK, AsyncTypes
<1> HIDE DEF j
<1>7. CASE ~Listening(j)
  <2>1. UNCHANGED <<answer, answered>>
    BY <1>1, <1>4, <1>7 DEF Respond, j
  <2> QED
    BY <1>1, <1>3, <1>5, <2>1 DEF ErrorInv, Reported, InAnswers, AnswerCoversErrors, IsEvent
<1>8. CASE Listening(j)
  <2> DEFINE c == j.by
             new == JoinErrors(workerErrs, nextErr)
  <2>1. c \notin answered
    <3>1. job[c] = j
      BY <1>8 DEF Listening
    <3>2. ASSUME c \in answered PROVE FALSE
      <4>1. \E k \in DOMAIN served : served[k] = j
        BY <3>1, <3>2 DEF QueueInv, BarrierInv
      <4> QED
        BY <1>2, <4>1 DEF Range
    <3> QED
      BY <3>2
  <2>2. /\ answered' = answered \cup {c} /\ answer'[c] = new
        /\ \A d \in answered : answer'[d] = answer[d]
    BY <1>1, <1>2, <1>4, <1>6, <1>8, <2>1 DEF Respond, j
  <2>3. new = workerErrs \/ new \subseteq {j}
    BY <1>4 DEF JoinErrors
  <2> HIDE DEF c, new
  <2>4. InAnswers' = InAnswers \cup new /\ Reported' = Reported \cup new
    BY <1>5, <2>2 DEF InAnswers, Reported
  <2>5. new \cap Reported = {}
    BY <1>2, <2>3 DEF ErrorInv
  <2>6. \A d \in answered : answer[d] \subseteq InAnswers
    BY DEF InAnswers
  <2>7. \A d, e \in answered' : d # e => answer'[d] \cap answer'[e] = {}
    <3>1. ASSUME NEW d \in answered PROVE answer[d] \cap new = {}
      BY <2>5, <2>6 DEF Reported
    <3> QED
      BY <2>2, <3>1 DEF ErrorInv
  <2>8. /\ Reported' \subseteq Range(served)'
        /\ \A e \in Reported' : IsEvent(e) => e \in failed'
        /\ InAnswers' \cap reported' = {}
    <3>1. new \subseteq Range(served)' /\ \A e \in new : IsEvent(e) => e \in failed
      BY <1>1, <1>3, <2>3 DEF ErrorInv, j
    <3> QED
      BY <1>3, <1>5, <2>4, <2>5, <3>1 DEF ErrorInv, Reported
  <2>9. /\ workerErrs' \subseteq failed' /\ failed' \subseteq Range(served)'
        /\ \A e \in failed' : IsEvent(e)
        /\ workerErrs' \cap Reported' = {} /\ AnswerCoversErrors'
    BY <1>3, <1>5 DEF ErrorInv, AnswerCoversErrors
  <2> QED
    BY <2>7, <2>8, <2>9 DEF ErrorInv, IsEvent
<1> QED
  BY <1>7, <1>8

\* A caller leaves, with its answer or without.
LEMMA ErrorLeave ==
  ASSUME AsyncInv, NEW c \in Callers, TakeAnswer(c) \/ AbandonAnswer(c)
  PROVE  ErrorInv'
<1> USE DEF AsyncInv
<1>1. /\ answered' = answered \ {c} /\ UNCHANGED <<workerErrs, failed, served, before>>
      /\ answer' = [answer EXCEPT ![c] = {}]
      /\ \/ UNCHANGED reported
         \/ c \in answered /\ reported' = reported \cup answer[c]
  BY DEF TakeAnswer, AbandonAnswer, TakeResponse, AbandonResponse, StopWaiting, history
<1>2. answered \subseteq Callers /\ answer \in [Callers -> SUBSET Job]
  BY DEF QueueInv, QueueTypeOK, AsyncTypes
<1>3. \A d \in answered' : answer'[d] = answer[d] /\ d \in answered /\ d # c
  BY <1>1, <1>2
<1>4. InAnswers' \subseteq InAnswers /\ \A d \in answered : answer[d] \subseteq InAnswers
  BY <1>3 DEF InAnswers
<1>5. Reported' \subseteq Reported
  BY <1>1, <1>4 DEF Reported
<1>6. InAnswers' \cap reported' = {}
  <2>1. CASE UNCHANGED reported
    BY <1>4, <2>1 DEF ErrorInv
  <2>2. CASE c \in answered /\ reported' = reported \cup answer[c]
    <3>1. InAnswers' \cap answer[c] = {}
      <4>1. \A d \in answered' : answer'[d] \cap answer[c] = {}
        BY <1>3, <2>2 DEF ErrorInv
      <4> QED
        BY <4>1 DEF InAnswers
    <3> QED
      BY <1>4, <2>2, <3>1 DEF ErrorInv
  <2> QED
    BY <1>1, <2>1, <2>2
<1>7. \A d, e \in answered' : d # e => answer'[d] \cap answer'[e] = {}
  BY <1>3 DEF ErrorInv
<1>8. AnswerCoversErrors'
  BY <1>1, <1>3 DEF ErrorInv, AnswerCoversErrors
<1> QED
  BY <1>1, <1>5, <1>6, <1>7, <1>8 DEF ErrorInv, IsEvent

LEMMA AsyncInvInit == Init => AsyncInv
<1> SUFFICES ASSUME Init PROVE AsyncInv
  OBVIOUS
<1>1. Reported = {} /\ InAnswers = {}
  BY DEF Init, QueueInit, Reported, InAnswers
<1> QED
  BY <1>1, TypeInit, QueueInvInit
     DEF Init, QueueInit, AsyncInv, ErrorInv, AnswerCoversErrors

LEMMA AsyncInvStep == AsyncInv /\ [Next]_vars => AsyncInv'
<1> SUFFICES ASSUME AsyncInv, [Next]_vars PROVE AsyncInv'
  OBVIOUS
<1>1. QueueInv' /\ AsyncTypes'
  BY AsyncStep, QueueInvStep, TypeStep DEF AsyncInv, QueueInv
<1>2. ASSUME NEW c \in Callers, Call(c), UNCHANGED avars PROVE ErrorInv'
  <2>1. c \notin answered /\ answered \subseteq Callers
    BY <1>2, CallEffect DEF AsyncInv, QueueInv, BarrierInv, QueueTypeOK
  <2>2. UNCHANGED <<answered, served>> /\ \A d \in answered : before'[d] = before[d]
    BY <1>2, <2>1, CallEffect DEF AsyncInv, QueueInv
  <2>3. Range(served)' = Range(served)
    BY <2>2
  <2> QED
    BY <1>2, <2>2, <2>3, ErrorFrame
<1>3. ASSUME UNCHANGED <<avars, answered, served, before>> PROVE ErrorInv'
  <2>1. Range(served)' = Range(served)
    BY <1>3
  <2> QED
    BY <1>3, <2>1, ErrorFrame
<1>4. ASSUME NEW c \in Callers, QueueStep(c) \/ (Expire(c) /\ UNCHANGED avars)
      PROVE  ErrorInv'
  <2>1. UNCHANGED <<avars, answered, served, before>>
    BY <1>4 DEF QueueStep, EnqueueClose, SendJob, Acknowledge, Drop, GiveUp,
         ResetClosing, Join, WaitDone, Expire, history
  <2> QED
    BY <1>3, <2>1
<1>5. ASSUME (Receive \/ MarkClosed \/ CloseDone) /\ UNCHANGED avars PROVE ErrorInv'
  BY <1>3, <1>5 DEF Receive, MarkClosed, CloseDone, history
<1>6. ASSUME UNCHANGED vars PROVE ErrorInv'
  BY <1>3, <1>6 DEF vars, qvars, history
<1>7. ASSUME NEW c \in Callers, TakeAnswer(c) \/ AbandonAnswer(c) PROVE ErrorInv'
  BY <1>7, ErrorLeave
<1>8. ASSUME HandleEvent \/ HandleFlush \/ HandleClose PROVE ErrorInv'
  BY <1>1, <1>8, ErrorEvent, ErrorAnswer
<1>9. ErrorInv'
  <2>1. ASSUME Run PROVE ErrorInv'
    BY <1>5, <1>8, <2>1 DEF Run
  <2>2. ASSUME NEW c \in Callers, ContinueCall(c) PROVE ErrorInv'
    BY <1>4, <1>7, <2>2 DEF ContinueCall
  <2>3. ASSUME NEW c \in Callers, (Call(c) \/ Expire(c)) /\ UNCHANGED avars
        PROVE  ErrorInv'
    BY <1>2, <1>4, <2>3
  <2> QED
    BY <1>6, <2>1, <2>2, <2>3 DEF Next
<1> QED
  BY <1>1, <1>9 DEF AsyncInv

\* Every reachable state of AsyncSink is well typed.
THEOREM AsyncTypeCorrect == Spec => []TypeOK
<1>1. AsyncInv => TypeOK
  BY DEF AsyncInv, QueueInv, TypeOK
<1> QED
  BY <1>1, AsyncInvInit, AsyncInvStep, PTL DEF Spec

\* No write error is reported twice, and none is reported that no write met.
THEOREM ErrorsReportedOnceCorrect == Spec => []ErrorsReportedOnce
BY AsyncInvInit, AsyncInvStep, ErrorInvImplies, PTL DEF Spec

\* An answer to Sync or Close leaves no error of an earlier acknowledged write
\* uncollected.
THEOREM AnswerCoversErrorsCorrect == Spec => []AnswerCoversErrors
BY AsyncInvInit, AsyncInvStep, ErrorInvImplies, PTL DEF Spec

\* In AsyncSink too, an answer is a barrier for the events written before.
THEOREM AsyncBarrierCorrect == Spec => []ResponseIsBarrier
<1>1. AsyncInv => ResponseIsBarrier
  BY BarrierHolds DEF AsyncInv
<1> QED
  BY <1>1, AsyncInvInit, AsyncInvStep, PTL DEF Spec

-----------------------------------------------------------------------------
(* The async sink implements OrderedDelivery, as the protocol does. *)

\* The worker's handler gets the events it is promised in the order of their
\* acceptance, each once, up to the close job and none behind it.
THEOREM ServesInOrderCorrect == Spec => ServesInOrder
<1>1. Init => SealInv /\ Queue!Init
  BY SealInit, QueueDeliversInit DEF Init
<1>2. SealInv /\ [Next]_vars => SealInv'
  BY AsyncStep, SealStep
<1>3. SealInv /\ [Next]_vars => [Queue!Next]_(Queue!vars)
  BY AsyncStep, QueueDelivers
<1> QED
  BY <1>1, <1>2, <1>3, PTL DEF Spec, ServesInOrder, Queue!Spec

=============================================================================
