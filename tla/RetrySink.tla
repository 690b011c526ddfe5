----------------------------- MODULE RetrySink -----------------------------
(***************************************************************************)
(* RetrySink: every call of the next sink is tried up to MaxAttempts       *)
(* times, with growing pauses, as long as the error is retryable and the   *)
(* call's context is not done.  The sink keeps no state of its own; calls  *)
(* meet only in the next sink, which remembers what it has taken and       *)
(* whether it has been closed.                                             *)
(*                                                                         *)
(* Durations are multiples of a unit and the multiplier is a whole number; *)
(* the products stay far below the width of time.Duration.                 *)
(***************************************************************************)
EXTENDS Naturals, Sequences, FiniteSets

CONSTANTS
  Callers,
  MaxAttempts, InitialBackoff, MaxBackoff, Multiplier,
  Deadline,     \* callers whose context may be done; the others' never is, or is nil
  MaxCalls      \* bound of the model: calls a caller makes

\* What NewRetrySink makes of its options: MaxBackoff may well be less than
\* InitialBackoff.
ASSUME RetryAssumption ==
  /\ MaxAttempts \in Nat \ {0}
  /\ InitialBackoff \in Nat \ {0} /\ MaxBackoff \in Nat \ {0}
  /\ Multiplier \in Nat \ {0, 1}
  /\ Deadline \subseteq Callers
  /\ MaxCalls \in Nat

VARIABLES
  pc,         \* a caller's place in do()
  op, n,      \* its operation, and how many calls it has made
  attempts,   \* the loop's counter
  backoff,    \* length of the next pause
  timer,      \* what is left of the current one
  lastErr,    \* the error of the last attempt
  expired,    \* callers whose context is done
  result,     \* what the last call has returned
  closed,     \* external: the next sink has been closed
  tried,      \* history: attempts the current call has made on the next sink
  took,       \* history: those of them that the next sink carried out
  slept,      \* history: the pauses of the current call
  early       \* history: attempts it had made when its context was done

vars == <<pc, op, n, attempts, backoff, timer, lastErr, expired, result,
          closed, tried, took, slept, early>>

Ops     == {"write", "sync", "close"}
Errors  == {"transient", "permanent"}   \* Retryable tells them apart
Results == {"none", "nil", "failed", "context"}

Larger(a, b) == IF a >= b THEN a ELSE b

TypeOK ==
  /\ pc \in [Callers -> {"idle", "check", "calling", "failed", "sleeping"}]
  /\ op \in [Callers -> Ops] /\ n \in [Callers -> 0..MaxCalls]
  /\ attempts \in [Callers -> 0..MaxAttempts]
  /\ backoff \in [Callers -> 0..Larger(InitialBackoff, MaxBackoff)]
  /\ timer \in [Callers -> 0..Larger(InitialBackoff, MaxBackoff)]
  /\ lastErr \in [Callers -> Errors \cup {"nil"}]
  /\ expired \in SUBSET Deadline
  /\ result \in [Callers -> Results]
  /\ closed \in BOOLEAN
  /\ tried \in [Callers -> 0..MaxAttempts]
  /\ early \in [Callers -> 0..MaxAttempts]
  /\ \A c \in Callers : took[c] <= tried[c] /\ Len(slept[c]) <= tried[c]

Init ==
  /\ pc = [c \in Callers |-> "idle"]
  /\ op = [c \in Callers |-> "write"] /\ n = [c \in Callers |-> 0]
  /\ attempts = [c \in Callers |-> 0]
  /\ backoff = [c \in Callers |-> 0] /\ timer = [c \in Callers |-> 0]
  /\ lastErr = [c \in Callers |-> "nil"]
  /\ expired = {} /\ result = [c \in Callers |-> "none"]
  /\ closed = FALSE
  /\ tried = [c \in Callers |-> 0] /\ took = [c \in Callers |-> 0]
  /\ slept = [c \in Callers |-> <<>>] /\ early = [c \in Callers |-> 0]

\* Write, Sync and Close differ only in what they try; do() begins.
Do(c) ==
  /\ pc[c] = "idle" /\ n[c] < MaxCalls
  /\ \E o \in Ops : op' = [op EXCEPT ![c] = o]
  /\ n' = [n EXCEPT ![c] = @ + 1]
  /\ pc' = [pc EXCEPT ![c] = "check"]
  /\ attempts' = [attempts EXCEPT ![c] = 1]
  /\ backoff' = [backoff EXCEPT ![c] = InitialBackoff]
  /\ lastErr' = [lastErr EXCEPT ![c] = "nil"]
  /\ expired' = expired \ {c}
  /\ result' = [result EXCEPT ![c] = "none"]
  /\ tried' = [tried EXCEPT ![c] = 0]
  /\ took' = [took EXCEPT ![c] = 0]
  /\ slept' = [slept EXCEPT ![c] = <<>>]
  /\ UNCHANGED <<timer, closed, early>>

\* The call ends with result r.
Return(c, r) ==
  /\ pc' = [pc EXCEPT ![c] = "idle"]
  /\ result' = [result EXCEPT ![c] = r]

\* Mutant of CheckContext: the loop does not look at the context.
CheckNothing(c) ==
  /\ pc[c] = "check"
  /\ pc' = [pc EXCEPT ![c] = "calling"]
  /\ UNCHANGED <<op, n, attempts, backoff, timer, lastErr, expired, result, closed,
                 tried, took, slept, early>>

\* The head of the loop: a context that is done ends it with its own error.
CheckContext(c) ==
  /\ pc[c] = "check"
  /\ IF c \in expired
       THEN Return(c, "context")
       ELSE pc' = [pc EXCEPT ![c] = "calling"] /\ UNCHANGED result
  /\ UNCHANGED <<op, n, attempts, backoff, timer, lastErr, expired, closed,
                 tried, took, slept, early>>

\* The attempt ends with the error err; done is 1 if the next sink has carried
\* the operation out.
EndAttempt(c, err, done) ==
  /\ pc[c] = "calling"
  /\ tried' = [tried EXCEPT ![c] = @ + 1]
  /\ took' = [took EXCEPT ![c] = @ + done]
  /\ closed' = (closed \/ (op[c] = "close" /\ done = 1))
  /\ IF err = "nil"
       THEN Return(c, "nil") /\ UNCHANGED lastErr
       ELSE /\ lastErr' = [lastErr EXCEPT ![c] = err]
            /\ pc' = [pc EXCEPT ![c] = "failed"]
            /\ UNCHANGED result
  /\ UNCHANGED <<op, n, attempts, backoff, timer, expired, slept, early>>

\* External: what the next sink may answer.  It may have carried the operation out
\* and fail all the same, but it reports no error only for what it has done, or
\* once it has been closed: then it may do nothing more and return nil (AsyncSink,
\* BatchSink and FileSink on a second Close).
Honest(err, done) == err = "nil" => done = 1 \/ closed

Attempt(c) == \E err \in Errors \cup {"nil"}, done \in {0, 1} :
                Honest(err, done) /\ EndAttempt(c, err, done)

\* Mutant of Retryable: every error is retried.
RetryAll(err) == TRUE

Retryable(err) == err = "transient"

\* Give up, or pause before the next attempt.
Pause(c) ==
  /\ pc[c] = "failed"
  /\ IF ~Retryable(lastErr[c]) \/ attempts[c] = MaxAttempts
       THEN Return(c, "failed") /\ UNCHANGED <<timer, slept>>
       ELSE /\ pc' = [pc EXCEPT ![c] = "sleeping"]
            /\ timer' = [timer EXCEPT ![c] = backoff[c]]
            /\ slept' = [slept EXCEPT ![c] = Append(@, backoff[c])]
            /\ UNCHANGED result
  /\ UNCHANGED <<op, n, attempts, backoff, lastErr, expired, closed, tried, took, early>>

NextBackoff(current) ==
  IF current * Multiplier > MaxBackoff THEN MaxBackoff ELSE current * Multiplier

\* The pause is over: on to the next attempt.
WakeUp(c) ==
  /\ pc[c] = "sleeping" /\ timer[c] = 0
  /\ pc' = [pc EXCEPT ![c] = "check"]
  /\ backoff' = [backoff EXCEPT ![c] = NextBackoff(@)]
  /\ attempts' = [attempts EXCEPT ![c] = @ + 1]
  /\ UNCHANGED <<op, n, timer, lastErr, expired, result, closed, tried, took, slept, early>>

\* Or the context is done first; select may prefer either.
Interrupt(c) ==
  /\ pc[c] = "sleeping" /\ c \in expired
  /\ Return(c, "context")
  /\ timer' = [timer EXCEPT ![c] = 0]
  /\ UNCHANGED <<op, n, attempts, backoff, lastErr, expired, closed, tried, took, slept, early>>

\* The clock of one caller's pause; the others' run at their own pace.
Tick(c) ==
  /\ timer[c] > 0
  /\ timer' = [timer EXCEPT ![c] = @ - 1]
  /\ UNCHANGED <<pc, op, n, attempts, backoff, lastErr, expired, result, closed,
                 tried, took, slept, early>>

Expire(c) ==
  /\ c \in Deadline \ expired /\ pc[c] # "idle"
  /\ expired' = expired \cup {c}
  /\ early' = [early EXCEPT ![c] = tried[c]]
  /\ UNCHANGED <<pc, op, n, attempts, backoff, timer, lastErr, result, closed,
                 tried, took, slept>>

Run(c) == \/ CheckContext(c) \/ Attempt(c) \/ Pause(c) \/ WakeUp(c)
          \/ Interrupt(c) \/ Tick(c)

Next == \E c \in Callers : Do(c) \/ Run(c) \/ Expire(c)

Spec == Init /\ [][Next]_vars

\* A call in progress goes on and its next sink answers; no context need end.
FairSpec == Spec /\ \A c \in Callers : WF_vars(Run(c))

-----------------------------------------------------------------------------
\* Every call returns, with or without a deadline: the attempts are bounded.
CallsReturn == \A c \in Callers : pc[c] # "idle" ~> pc[c] = "idle"

Matches(c) ==
  /\ result[c] = "nil" => took[c] > 0 \/ closed
  /\ result[c] = "failed" => tried[c] = MaxAttempts \/ lastErr[c] = "permanent"
  /\ result[c] = "context" => tried[c] < MaxAttempts /\ lastErr[c] # "permanent"
  /\ lastErr[c] = "permanent" => result[c] \in {"none", "failed"}

\* A call that succeeds has had its last attempt succeed, so the operation has
\* been carried out, unless somebody had closed the next sink before; one that
\* fails has used all its attempts or met an error not worth retrying; one that
\* its context ends has not yet been answered for good.
ResultMatches == \A c \in Callers : Matches(c)

Bounded(c) ==
  \A i \in DOMAIN slept[c] :
    /\ slept[c][i] <= (IF i = 1 THEN Larger(InitialBackoff, MaxBackoff) ELSE MaxBackoff)
    /\ i > 1 /\ InitialBackoff <= MaxBackoff => slept[c][i] >= slept[c][i - 1]

\* The pauses never shrink and are at most MaxBackoff, except that the first
\* one is InitialBackoff however long that is.
PausesBounded == \A c \in Callers : Bounded(c)

\* Once the context of a call is done, at most the attempt admitted before
\* still reaches the next sink: neither the loop nor a pause that ends at the
\* same moment lets another one through.
ExpiryStops == \A c \in expired : tried[c] <= early[c] + 1

=============================================================================
