----------------------------- MODULE AsyncSink -----------------------------
(***************************************************************************)
(* AsyncSink: Write queues the event and returns, the worker hands it to   *)
(* the next sink later, and keeps the errors of those writes until a Sync  *)
(* or the Close collects them.  The callers' side is SinkQueue's; here the *)
(* worker's handlers gain what they do with the next sink and the errors.  *)
(*                                                                         *)
(* An error is identified by the job whose handling produced it; a set of  *)
(* errors is what errors.Join makes of them, {} is nil.                    *)
(***************************************************************************)
EXTENDS SinkQueue

VARIABLES
  workerErrs,   \* write errors nobody has collected yet
  writeErrors,  \* the counter Stats reads
  answer,       \* the error in a caller's response channel, or {}
  failed,       \* history: events the next sink refused
  reported      \* history: errors that a Sync or a Close has returned

avars == <<workerErrs, writeErrors, answer, failed, reported>>
vars  == <<qvars, avars>>

AsyncTypes ==
  /\ workerErrs \in SUBSET {j \in Job : IsEvent(j)}
  /\ writeErrors \in Nat
  /\ answer \in [Callers -> SUBSET Job]
  /\ failed \in SUBSET Job /\ reported \in SUBSET Job

TypeOK == QueueTypeOK /\ AsyncTypes

Init ==
  /\ QueueInit
  /\ workerErrs = {} /\ writeErrors = 0
  /\ answer = [c \in Callers |-> {}]
  /\ failed = {} /\ reported = {}

\* joinErrors keeps the first error that is not nil and drops the others.
JoinErrors(first, second) == IF first # {} THEN first ELSE second

\* The next sink takes the event or fails; recordWorkerError keeps the error.
HandleEvent ==
  /\ FinishEvent
  /\ \/ UNCHANGED avars
     \/ /\ workerErrs' = workerErrs \cup {Head(cur)}
        /\ writeErrors' = writeErrors + 1
        /\ failed' = failed \cup {Head(cur)}
        /\ UNCHANGED <<answer, reported>>

\* Mutant of Answer: the collected errors are not cleared.
AnswerUncleared ==
  /\ answer' = IF Listening(Head(cur))
                 THEN [answer EXCEPT ![Head(cur).by] = workerErrs]
                 ELSE answer
  /\ UNCHANGED <<workerErrs, writeErrors, failed, reported>>

\* The answer to a control job: the errors collected so far, or else the one
\* of the next sink's own Sync (and Close), which may fail.
Answer ==
  /\ workerErrs' = {}
  /\ \E nextErr \in SUBSET {Head(cur)} :
       answer' = IF Listening(Head(cur))
                   THEN [answer EXCEPT ![Head(cur).by] = JoinErrors(workerErrs, nextErr)]
                   ELSE answer
  /\ UNCHANGED <<writeErrors, failed, reported>>

\* Mutant of HandleFlush: the errors of the worker are left for the Close.
HandleFlushAlone == FinishFlush /\ UNCHANGED avars

HandleFlush == FinishFlush /\ Answer
HandleClose == FinishClose /\ Answer

\* The caller leaves with the answer, or with its context's error only.
TakeAnswer(c) ==
  /\ TakeResponse(c)
  /\ reported' = reported \cup answer[c]
  /\ answer' = [answer EXCEPT ![c] = {}]
  /\ UNCHANGED <<workerErrs, writeErrors, failed>>

AbandonAnswer(c) ==
  /\ AbandonResponse(c)
  /\ answer' = [answer EXCEPT ![c] = {}]
  /\ UNCHANGED <<workerErrs, writeErrors, failed, reported>>

\* The caller's other steps.
QueueStep(c) ==
  /\ \/ EnqueueClose(c) \/ SendJob(c) \/ Acknowledge(c) \/ Drop(c)
     \/ GiveUp(c) \/ ResetClosing(c) \/ Join(c) \/ WaitDone(c)
  /\ UNCHANGED avars

ContinueCall(c) == QueueStep(c) \/ TakeAnswer(c) \/ AbandonAnswer(c)

Run ==
  \/ (Receive \/ MarkClosed \/ CloseDone) /\ UNCHANGED avars
  \/ HandleEvent \/ HandleFlush \/ HandleClose

Next ==
  \/ \E c \in Callers : \/ (Call(c) \/ Expire(c)) /\ UNCHANGED avars
                        \/ ContinueCall(c)
  \/ Run

Spec == Init /\ [][Next]_vars

\* The worker and every call in progress go on; contexts with a deadline end.
Fairness ==
  /\ WF_vars(Run)
  /\ \A c \in Callers : WF_vars(ContinueCall(c))
  /\ \A c \in Callers : WF_vars(Expire(c) /\ UNCHANGED avars)

FairSpec == Spec /\ Fairness

-----------------------------------------------------------------------------
\* Errors still on their way to a caller.
InAnswers == UNION {answer[c] : c \in answered}

\* A write error is in one place at a time: waiting for collection, on its way
\* to one caller, or returned by one call.  No two Syncs return the same error.
ErrorsReportedOnce ==
  /\ workerErrs \cap (InAnswers \cup reported) = {}
  /\ InAnswers \cap reported = {}
  /\ \A c, d \in answered : c # d => answer[c] \cap answer[d] = {}
  /\ (InAnswers \cup reported) \cap {j \in Job : IsEvent(j)} \subseteq failed

\* An answer leaves no earlier error behind: errors of the writes acknowledged
\* before the call began have been collected when the answer is there.
AnswerCoversErrors ==
  \A c \in answered : before[c] \cap workerErrs = {}

=============================================================================
