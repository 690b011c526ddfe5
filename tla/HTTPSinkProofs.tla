--------------------------- MODULE HTTPSinkProofs ---------------------------
(***************************************************************************)
(* Theorems about RetrySink, for any number of callers, attempts and       *)
(* calls and any pauses; and about HTTPSink behind it, for any number of   *)
(* writers, attempts and batches of any size: it implements RetrySink, so  *)
(* the theorems of the first part hold of it, what it acknowledges is with *)
(* the server, no more often than it was sent, and batches stay in order.  *)
(***************************************************************************)
EXTENDS HTTPSink, FiniteSetTheorems, TLAPS

LEMMA Constants ==
  /\ MaxAttempts \in Nat /\ MaxAttempts >= 1
  /\ InitialBackoff \in Nat /\ MaxBackoff \in Nat
  /\ Multiplier \in Nat /\ Multiplier >= 1
  /\ MaxCalls \in Nat
BY RetryAssumption

\* A pause that has grown is no shorter, and has not grown past the cap.
LEMMA NextBackoffBounded ==
  ASSUME NEW x \in Nat
  PROVE  /\ NextBackoff(x) \in Nat /\ NextBackoff(x) <= MaxBackoff
         /\ x <= MaxBackoff => NextBackoff(x) >= x
<1>1. x * Multiplier \in Nat /\ x * Multiplier >= x
  BY Constants
<1> QED
  BY <1>1, Constants DEF NextBackoff

LEMMA LargerBounds ==
  /\ Larger(InitialBackoff, MaxBackoff) \in Nat
  /\ InitialBackoff <= Larger(InitialBackoff, MaxBackoff)
  /\ MaxBackoff <= Larger(InitialBackoff, MaxBackoff)
BY Constants DEF Larger

-----------------------------------------------------------------------------
(* The strengthening: how the loop's counter, the attempts made and the      *)
(* pauses taken go together at each place of the loop.                       *)

Histories ==
  /\ took \in [Callers -> Nat] /\ slept \in [Callers -> Seq(Nat)]

Counts(c) ==
  /\ pc[c] \in {"check", "calling"} =>
       /\ attempts[c] = tried[c] + 1 /\ Len(slept[c]) = tried[c]
       /\ lastErr[c] # "permanent" /\ result[c] = "none"
  /\ pc[c] = "failed" =>
       /\ attempts[c] = tried[c] /\ Len(slept[c]) = tried[c] - 1
       /\ lastErr[c] \in Errors /\ result[c] = "none"
  /\ pc[c] = "sleeping" =>
       /\ attempts[c] = tried[c] /\ Len(slept[c]) = tried[c] /\ tried[c] < MaxAttempts
       /\ lastErr[c] = "transient" /\ result[c] = "none"
       /\ tried[c] >= 1
  /\ took[c] <= tried[c] /\ Len(slept[c]) <= tried[c]

\* The length of the pause to come.
NextPause(c) ==
  /\ pc[c] \in {"check", "calling", "failed"} =>
       /\ Len(slept[c]) = 0 => backoff[c] = InitialBackoff
       /\ Len(slept[c]) > 0 =>
            /\ backoff[c] <= MaxBackoff
            /\ InitialBackoff <= MaxBackoff => backoff[c] >= slept[c][Len(slept[c])]
  /\ pc[c] = "sleeping" => backoff[c] = slept[c][Len(slept[c])]

\* A call that is about to try has been seen with its context not yet done.
Stops(c) == c \in expired => tried[c] <= early[c] + (IF pc[c] = "calling" THEN 0 ELSE 1)

CallerInv(c) == Counts(c) /\ NextPause(c) /\ Stops(c) /\ Matches(c) /\ Bounded(c)

RetryInv == TypeOK /\ Histories /\ \A c \in Callers : CallerInv(c)

\* The type invariant in two parts, which are easier to establish.
LoopTypes ==
  /\ pc \in [Callers -> {"idle", "check", "calling", "failed", "sleeping"}]
  /\ op \in [Callers -> Ops] /\ n \in [Callers -> 0..MaxCalls]
  /\ attempts \in [Callers -> 0..MaxAttempts]
  /\ backoff \in [Callers -> 0..Larger(InitialBackoff, MaxBackoff)]
  /\ timer \in [Callers -> 0..Larger(InitialBackoff, MaxBackoff)]

CallTypes ==
  /\ lastErr \in [Callers -> Errors \cup {"nil"}]
  /\ expired \in SUBSET Deadline
  /\ result \in [Callers -> Results]
  /\ closed \in BOOLEAN
  /\ tried \in [Callers -> 0..MaxAttempts]
  /\ early \in [Callers -> 0..MaxAttempts]

LEMMA Parts ==
  ASSUME LoopTypes, CallTypes, Histories, \A c \in Callers : CallerInv(c)
  PROVE  RetryInv
BY DEF RetryInv, TypeOK, LoopTypes, CallTypes, CallerInv, Counts

LEMMA PartsNext ==
  ASSUME LoopTypes', CallTypes', Histories', \A c \in Callers : CallerInv(c)'
  PROVE  RetryInv'
<1>1. \A c \in Callers : took'[c] <= tried'[c] /\ Len(slept'[c]) <= tried'[c]
  BY DEF CallerInv, Counts
<1>2. TypeOK'
  BY <1>1 DEF TypeOK, LoopTypes, CallTypes
<1> QED
  BY <1>2 DEF RetryInv

\* Nothing of the caller changes.
Same(d) ==
  /\ pc'[d] = pc[d] /\ attempts'[d] = attempts[d] /\ backoff'[d] = backoff[d]
  /\ lastErr'[d] = lastErr[d] /\ result'[d] = result[d] /\ tried'[d] = tried[d]
  /\ took'[d] = took[d] /\ slept'[d] = slept[d] /\ early'[d] = early[d]
  /\ (d \in expired' <=> d \in expired)

LEMMA Frame ==
  ASSUME NEW d \in Callers, CallerInv(d), Same(d), closed => closed'
  PROVE  CallerInv(d)'
<1>1. Counts(d)' /\ NextPause(d)'
  BY DEF CallerInv, Same, Counts, NextPause
<1>2. Stops(d)' /\ Matches(d)'
  BY DEF CallerInv, Same, Stops, Matches
<1>3. Bounded(d)'
  BY DEF CallerInv, Same, Bounded
<1> QED
  BY <1>1, <1>2, <1>3 DEF CallerInv

LEMMA RetryInit == Init => RetryInv
<1> SUFFICES ASSUME Init PROVE RetryInv
  OBVIOUS
<1>1. LoopTypes
  BY Constants, LargerBounds DEF Init, LoopTypes, Ops
<1>2. CallTypes
  <2>1. /\ lastErr \in [Callers -> Errors \cup {"nil"}]
        /\ result \in [Callers -> Results]
    BY DEF Init, Errors, Results
  <2>2. expired \in SUBSET Deadline /\ closed \in BOOLEAN
    BY DEF Init
  <2>3. /\ tried \in [Callers -> 0..MaxAttempts]
        /\ early \in [Callers -> 0..MaxAttempts]
    BY Constants DEF Init
  <2> QED
    BY <2>1, <2>2, <2>3 DEF CallTypes
<1>3. Histories
  BY DEF Init, Histories
<1>4. ASSUME NEW c \in Callers PROVE CallerInv(c)
  BY Constants DEF Init, CallerInv, Counts, NextPause, Stops, Matches, Bounded
<1> QED
  BY <1>1, <1>2, <1>3, <1>4, Parts

-----------------------------------------------------------------------------
(* One lemma per action. *)

LEMMA DoKeeps ==
  ASSUME RetryInv, NEW c \in Callers, Do(c) PROVE RetryInv'
<1> USE Constants
<1>a. TypeOK /\ Histories /\ \A d \in Callers : CallerInv(d)
  BY DEF RetryInv
<1> USE <1>a
<1>1. LoopTypes'
  <2>1. PICK o \in Ops : op' = [op EXCEPT ![c] = o]
    BY DEF Do
  <2>2. n[c] + 1 \in 0..MaxCalls /\ n' = [n EXCEPT ![c] = n[c] + 1]
    BY DEF Do, TypeOK
  <2>3. 1 \in 0..MaxAttempts /\ InitialBackoff \in 0..Larger(InitialBackoff, MaxBackoff)
    BY LargerBounds
  <2>4. op' \in [Callers -> Ops] /\ n' \in [Callers -> 0..MaxCalls]
    BY <2>1, <2>2 DEF TypeOK
  <2>5. /\ pc' \in [Callers -> {"idle", "check", "calling", "failed", "sleeping"}]
        /\ attempts' \in [Callers -> 0..MaxAttempts]
        /\ backoff' \in [Callers -> 0..Larger(InitialBackoff, MaxBackoff)]
        /\ timer' \in [Callers -> 0..Larger(InitialBackoff, MaxBackoff)]
    BY <2>3 DEF Do, TypeOK
  <2> QED
    BY <2>4, <2>5 DEF LoopTypes
<1>2. CallTypes'
  BY DEF Do, TypeOK, CallTypes, Errors, Results
<1>3. Histories'
  BY <1>a DEF Do, Histories
<1>4. CallerInv(c)'
  BY DEF Do, TypeOK, Histories, CallerInv, Counts, NextPause, Stops, Matches, Bounded
<1>5. ASSUME NEW d \in Callers, d # c PROVE CallerInv(d)'
  BY <1>5, Frame DEF Do, TypeOK, Histories, Same
<1> QED
  BY <1>1, <1>2, <1>3, <1>4, <1>5, PartsNext

LEMMA CheckContextKeeps ==
  ASSUME RetryInv, NEW c \in Callers, CheckContext(c) PROVE RetryInv'
<1> USE Constants
<1>a. TypeOK /\ Histories /\ \A d \in Callers : CallerInv(d)
  BY DEF RetryInv
<1> USE <1>a
<1>1. CASE c \in expired
  <2>1. /\ pc[c] = "check" /\ pc' = [pc EXCEPT ![c] = "idle"]
        /\ result' = [result EXCEPT ![c] = "context"]
        /\ UNCHANGED <<op, n, attempts, backoff, timer, lastErr, expired, closed,
                       tried, took, slept, early>>
    BY <1>1 DEF CheckContext, Return
  <2>2. LoopTypes' /\ Histories'
    BY <2>1 DEF TypeOK, LoopTypes, Histories
  <2>3. CallTypes'
    BY <2>1 DEF TypeOK, CallTypes, Results
  <2>4. CallerInv(c)'
    <3>1. Counts(c)' /\ NextPause(c)'
      BY <2>1 DEF TypeOK, CallerInv, Counts, NextPause
    <3>2. Stops(c)'
      BY <1>1, <2>1 DEF TypeOK, CallerInv, Stops
    <3>3. Matches(c)'
      BY <2>1 DEF TypeOK, CallerInv, Counts, Matches
    <3>4. Bounded(c)'
      BY <2>1 DEF CallerInv, Bounded
    <3> QED
      BY <3>1, <3>2, <3>3, <3>4 DEF CallerInv
  <2>5. ASSUME NEW d \in Callers, d # c PROVE CallerInv(d)'
    BY <2>1, <2>5, Frame DEF TypeOK, Histories, Same
  <2> QED
    BY <2>2, <2>3, <2>4, <2>5, PartsNext
<1>2. CASE c \notin expired
  <2>1. /\ pc[c] = "check" /\ pc' = [pc EXCEPT ![c] = "calling"]
        /\ UNCHANGED <<op, n, attempts, backoff, timer, lastErr, expired, result, closed,
                       tried, took, slept, early>>
    BY <1>2 DEF CheckContext
  <2>2. LoopTypes' /\ Histories'
    BY <2>1 DEF TypeOK, LoopTypes, Histories
  <2>3. CallTypes'
    BY <2>1 DEF TypeOK, CallTypes
  <2>4. CallerInv(c)'
    <3>1. Counts(c)' /\ NextPause(c)'
      BY <2>1 DEF TypeOK, CallerInv, Counts, NextPause
    <3>2. Stops(c)'
      BY <1>2, <2>1 DEF TypeOK, CallerInv, Stops
    <3>3. Matches(c)'
      BY <2>1 DEF TypeOK, CallerInv, Counts, Matches
    <3>4. Bounded(c)'
      BY <2>1 DEF CallerInv, Bounded
    <3> QED
      BY <3>1, <3>2, <3>3, <3>4 DEF CallerInv
  <2>5. ASSUME NEW d \in Callers, d # c PROVE CallerInv(d)'
    BY <2>1, <2>5, Frame DEF TypeOK, Histories, Same
  <2> QED
    BY <2>2, <2>3, <2>4, <2>5, PartsNext
<1> QED
  BY <1>1, <1>2

LEMMA AttemptKeeps ==
  ASSUME RetryInv, NEW c \in Callers, Attempt(c) PROVE RetryInv'
<1> USE Constants
<1>a. TypeOK /\ Histories /\ \A d \in Callers : CallerInv(d)
  BY DEF RetryInv
<1> USE <1>a
<1>0. PICK err \in Errors \cup {"nil"}, done \in {0, 1} :
        Honest(err, done) /\ EndAttempt(c, err, done)
  BY DEF Attempt
<1>1. /\ err = "nil" => done = 1 \/ closed
      /\ took' = [took EXCEPT ![c] = @ + done]
      /\ closed' = (closed \/ (op[c] = "close" /\ done = 1))
      /\ IF err = "nil"
           THEN Return(c, "nil") /\ UNCHANGED lastErr
           ELSE /\ lastErr' = [lastErr EXCEPT ![c] = err]
                /\ pc' = [pc EXCEPT ![c] = "failed"]
                /\ UNCHANGED result
  BY <1>0 DEF Honest, EndAttempt
<1>2. /\ pc[c] = "calling" /\ tried' = [tried EXCEPT ![c] = @ + 1]
      /\ UNCHANGED <<op, n, attempts, backoff, timer, expired, slept, early>>
  BY <1>0 DEF EndAttempt
<1>3. tried[c] + 1 \in 0..MaxAttempts /\ attempts[c] = tried[c] + 1
  BY <1>2 DEF CallerInv, Counts, TypeOK
<1>4. closed' \in BOOLEAN /\ (closed => closed')
  BY <1>1 DEF TypeOK
<1>5. Histories' /\ took'[c] = took[c] + done /\ took[c] \in Nat
  BY <1>1, <1>2 DEF Histories
<1>6. CASE err = "nil"
  <2>1. /\ pc' = [pc EXCEPT ![c] = "idle"] /\ result' = [result EXCEPT ![c] = "nil"]
        /\ lastErr' = lastErr
    BY <1>1, <1>6 DEF Return
  <2>2. LoopTypes'
    BY <1>2, <2>1 DEF TypeOK, LoopTypes
  <2>3. CallTypes'
    BY <1>2, <1>3, <1>4, <2>1 DEF TypeOK, CallTypes, Results
  <2>4. CallerInv(c)'
    <3>1. Counts(c)'
      <4>1. Len(slept[c]) = tried[c] /\ took[c] <= tried[c] /\ tried[c] \in Nat
        BY <1>2 DEF TypeOK, CallerInv, Counts
      <4>2. /\ pc'[c] = "idle" /\ tried'[c] = tried[c] + 1 /\ slept'[c] = slept[c]
            /\ took[c] + done <= tried[c] + 1
        BY <1>2, <1>5, <2>1, <4>1 DEF TypeOK
      <4> QED
        BY <1>5, <4>1, <4>2 DEF Counts
    <3>2. NextPause(c)'
      BY <2>1 DEF TypeOK, NextPause
    <3>3. Stops(c)'
      BY <1>2, <2>1 DEF TypeOK, CallerInv, Stops
    <3>4. Matches(c)'
      <4>1. /\ result'[c] = "nil" /\ took'[c] = took[c] + done
            /\ lastErr'[c] = lastErr[c] /\ lastErr[c] # "permanent"
        BY <1>2, <1>5, <2>1 DEF TypeOK, CallerInv, Counts
      <4>2. took'[c] > 0 \/ closed'
        BY <1>1, <1>4, <1>5, <1>6, <4>1
      <4> QED
        BY <4>1, <4>2 DEF Matches
    <3>5. Bounded(c)'
      BY <1>2 DEF CallerInv, Bounded
    <3> QED
      BY <3>1, <3>2, <3>3, <3>4, <3>5 DEF CallerInv
  <2>5. ASSUME NEW d \in Callers, d # c PROVE CallerInv(d)'
    BY <1>1, <1>2, <1>4, <2>1, <2>5, Frame DEF TypeOK, Histories, Same
  <2> QED
    BY <1>5, <2>2, <2>3, <2>4, <2>5, PartsNext
<1>7. CASE err # "nil"
  <2>1. /\ pc' = [pc EXCEPT ![c] = "failed"] /\ result' = result
        /\ lastErr' = [lastErr EXCEPT ![c] = err] /\ err \in Errors
    BY <1>1, <1>7
  <2>2. LoopTypes'
    BY <1>2, <2>1 DEF TypeOK, LoopTypes
  <2>3. CallTypes'
    BY <1>2, <1>3, <1>4, <2>1 DEF TypeOK, CallTypes
  <2>4. CallerInv(c)'
    <3>1. Counts(c)'
      <4>1. /\ attempts[c] = tried[c] + 1 /\ Len(slept[c]) = tried[c] /\ result[c] = "none"
            /\ took[c] <= tried[c] /\ tried[c] \in Nat
        BY <1>2 DEF TypeOK, CallerInv, Counts
      <4>2. /\ pc'[c] = "failed" /\ attempts'[c] = tried'[c] /\ Len(slept'[c]) = tried'[c] - 1
            /\ lastErr'[c] \in Errors /\ result'[c] = "none"
        BY <1>2, <2>1, <4>1 DEF TypeOK
      <4>3. took'[c] <= tried'[c] /\ Len(slept'[c]) <= tried'[c]
        <5>1. tried'[c] = tried[c] + 1 /\ slept'[c] = slept[c] /\ Len(slept'[c]) = tried[c]
          BY <1>2, <4>1 DEF TypeOK
        <5>2. took[c] + done <= tried[c] + 1
          BY <1>5, <4>1
        <5> QED
          BY <1>5, <4>1, <5>1, <5>2
      <4> QED
        BY <4>2, <4>3 DEF Counts
    <3>2. NextPause(c)'
      BY <1>2, <2>1 DEF TypeOK, CallerInv, NextPause
    <3>3. Stops(c)'
      BY <1>2, <2>1 DEF TypeOK, CallerInv, Stops
    <3>4. Matches(c)'
      BY <1>2, <2>1 DEF TypeOK, CallerInv, Counts, Matches, Errors
    <3>5. Bounded(c)'
      BY <1>2 DEF CallerInv, Bounded
    <3> QED
      BY <3>1, <3>2, <3>3, <3>4, <3>5 DEF CallerInv
  <2>5. ASSUME NEW d \in Callers, d # c PROVE CallerInv(d)'
    BY <1>1, <1>2, <1>4, <2>1, <2>5, Frame DEF TypeOK, Histories, Same
  <2> QED
    BY <1>5, <2>2, <2>3, <2>4, <2>5, PartsNext
<1> QED
  BY <1>6, <1>7
LEMMA PauseKeeps ==
  ASSUME RetryInv, NEW c \in Callers, Pause(c) PROVE RetryInv'
<1> USE Constants
<1>a. TypeOK /\ Histories /\ \A d \in Callers : CallerInv(d)
  BY DEF RetryInv
<1> USE <1>a
<1>1. CASE ~Retryable(lastErr[c]) \/ attempts[c] = MaxAttempts
  <2>1. /\ pc[c] = "failed" /\ pc' = [pc EXCEPT ![c] = "idle"]
        /\ result' = [result EXCEPT ![c] = "failed"]
        /\ lastErr[c] # "transient" \/ attempts[c] = MaxAttempts
        /\ UNCHANGED <<op, n, attempts, backoff, timer, lastErr, expired, closed,
                       tried, took, slept, early>>
    BY <1>1 DEF Pause, Return, Retryable
  <2>2. LoopTypes' /\ Histories'
    BY <2>1 DEF TypeOK, LoopTypes, Histories
  <2>3. CallTypes'
    BY <2>1 DEF TypeOK, CallTypes, Results, Errors
  <2>4. CallerInv(c)'
    <3>1. Counts(c)' /\ Matches(c)'
      <4>1. attempts[c] = tried[c] /\ lastErr[c] \in Errors /\ result[c] = "none"
        BY <2>1 DEF CallerInv, Counts
      <4>2. Counts(c)'
        BY <2>1 DEF TypeOK, CallerInv, Counts
      <4>3. Matches(c)'
        BY <2>1, <4>1 DEF TypeOK, Matches, Errors
      <4> QED
        BY <4>2, <4>3
    <3>2. NextPause(c)'
      BY <2>1 DEF TypeOK, Histories, CallerInv, Counts, NextPause
    <3>3. Stops(c)'
      BY <2>1 DEF TypeOK, CallerInv, Stops
    <3>4. Bounded(c)'
      BY <2>1 DEF TypeOK, Histories, CallerInv, Bounded
    <3> QED
      BY <3>1, <3>2, <3>3, <3>4 DEF CallerInv
  <2>5. ASSUME NEW d \in Callers, d # c PROVE CallerInv(d)'
    BY <2>1, <2>5, Frame DEF TypeOK, Histories, Same
  <2> QED
    BY <2>2, <2>3, <2>4, <2>5, PartsNext
<1>2. CASE Retryable(lastErr[c]) /\ attempts[c] # MaxAttempts
  <2>1. /\ pc[c] = "failed" /\ pc' = [pc EXCEPT ![c] = "sleeping"]
        /\ timer' = [timer EXCEPT ![c] = backoff[c]]
        /\ slept' = [slept EXCEPT ![c] = Append(@, backoff[c])]
        /\ lastErr[c] = "transient" /\ attempts[c] # MaxAttempts
        /\ UNCHANGED <<op, n, attempts, backoff, lastErr, expired, result, closed,
                       tried, took, early>>
    BY <1>2 DEF Pause, Retryable
  <2>2. LoopTypes' /\ Histories'
    <3>1. LoopTypes'
      BY <2>1 DEF TypeOK, LoopTypes
    <3>2. backoff[c] \in Nat
      BY LargerBounds DEF TypeOK
    <3> QED
      BY <2>1, <3>1, <3>2 DEF Histories
  <2>3. CallTypes'
    BY <2>1 DEF TypeOK, CallTypes
  <2>4. CallerInv(c)'
    <3>1. Counts(c)' /\ Matches(c)'
      BY <2>1 DEF TypeOK, Histories, CallerInv, Counts, Matches
    <3>2. NextPause(c)'
      BY <2>1 DEF TypeOK, Histories, CallerInv, Counts, NextPause
    <3>3. Stops(c)'
      BY <2>1 DEF TypeOK, CallerInv, Stops
    <3>4. Bounded(c)'
      <4> DEFINE s == slept[c]  b == backoff[c]
      <4>1. s \in Seq(Nat) /\ b \in Nat /\ slept'[c] = Append(s, b)
        BY <2>1, LargerBounds DEF TypeOK, Histories
      <4>2. /\ Len(s) = 0 => b <= Larger(InitialBackoff, MaxBackoff)
            /\ Len(s) > 0 => b <= MaxBackoff
            /\ Len(s) > 0 /\ InitialBackoff <= MaxBackoff => b >= s[Len(s)]
        BY <2>1, LargerBounds DEF CallerInv, NextPause
      <4>3. Bounded(c)
        BY DEF CallerInv
      <4> HIDE DEF s, b
      <4>4. ASSUME NEW i \in DOMAIN Append(s, b), i # Len(s) + 1
            PROVE  i \in DOMAIN s /\ Append(s, b)[i] = s[i] /\ (i > 1 => Append(s, b)[i - 1] = s[i - 1])
        BY <4>1, <4>4
      <4>5. /\ Append(s, b)[Len(s) + 1] = b
            /\ Len(s) + 1 > 1 => Append(s, b)[Len(s) + 1 - 1] = s[Len(s)]
        BY <4>1
      <4>6. ASSUME NEW i \in DOMAIN slept'[c]
            PROVE  /\ slept'[c][i] <= (IF i = 1 THEN Larger(InitialBackoff, MaxBackoff) ELSE MaxBackoff)
                   /\ i > 1 /\ InitialBackoff <= MaxBackoff => slept'[c][i] >= slept'[c][i - 1]
        <5>1. CASE i = Len(s) + 1
          BY <4>1, <4>2, <4>5, <5>1
        <5>2. CASE i # Len(s) + 1
          BY <4>1, <4>3, <4>4, <4>6, <5>2 DEF Bounded, s
        <5> QED
          BY <5>1, <5>2
      <4> QED
        BY <4>6 DEF Bounded
    <3> QED
      BY <3>1, <3>2, <3>3, <3>4 DEF CallerInv
  <2>5. ASSUME NEW d \in Callers, d # c PROVE CallerInv(d)'
    BY <2>1, <2>5, Frame DEF TypeOK, Histories, Same
  <2> QED
    BY <2>2, <2>3, <2>4, <2>5, PartsNext
<1> QED
  BY <1>1, <1>2


LEMMA WakeUpKeeps ==
  ASSUME RetryInv, NEW c \in Callers, WakeUp(c) PROVE RetryInv'
<1> USE Constants
<1>a. TypeOK /\ Histories /\ \A d \in Callers : CallerInv(d)
  BY DEF RetryInv
<1> USE <1>a
<1>1. /\ pc[c] = "sleeping" /\ pc' = [pc EXCEPT ![c] = "check"]
      /\ backoff' = [backoff EXCEPT ![c] = NextBackoff(backoff[c])]
      /\ attempts' = [attempts EXCEPT ![c] = @ + 1]
      /\ UNCHANGED <<op, n, timer, lastErr, expired, result, closed, tried, took, slept, early>>
  BY DEF WakeUp
<1>b. /\ NextBackoff(backoff[c]) \in Nat /\ NextBackoff(backoff[c]) <= MaxBackoff
      /\ backoff[c] <= MaxBackoff => NextBackoff(backoff[c]) >= backoff[c]
  <2>1. backoff[c] \in Nat
    BY LargerBounds DEF TypeOK
  <2> QED
    BY <2>1, NextBackoffBounded
<1>2. LoopTypes' /\ Histories'
  <2>1. attempts[c] + 1 \in 0..MaxAttempts
    BY <1>1 DEF TypeOK, CallerInv, Counts
  <2>2. NextBackoff(backoff[c]) \in 0..Larger(InitialBackoff, MaxBackoff)
    BY <1>b, LargerBounds
  <2>3. LoopTypes'
    BY <1>1, <2>1, <2>2 DEF TypeOK, LoopTypes
  <2>4. Histories'
    BY <1>1 DEF Histories
  <2> QED
    BY <2>3, <2>4
<1>3. CallTypes'
  BY <1>1, <1>b DEF TypeOK, CallTypes
<1>4. CallerInv(c)'
  <2>1. Counts(c)' /\ Matches(c)'
    BY <1>1, <1>b DEF TypeOK, Histories, CallerInv, Counts, Matches
  <2>2. NextPause(c)'
    <3>1. backoff[c] = slept[c][Len(slept[c])] /\ Len(slept[c]) >= 1
      BY <1>1 DEF CallerInv, Counts, NextPause
    <3>2. InitialBackoff <= MaxBackoff => backoff[c] <= MaxBackoff
      BY DEF TypeOK, Larger
    <3>3. backoff'[c] = NextBackoff(backoff[c]) /\ slept'[c] = slept[c] /\ pc'[c] = "check"
      BY <1>1 DEF TypeOK
    <3> QED
      BY <1>b, <3>1, <3>2, <3>3 DEF NextPause
  <2>3. Stops(c)'
    BY <1>1, <1>b DEF TypeOK, CallerInv, Stops
  <2>4. Bounded(c)'
    BY <1>1, <1>b DEF TypeOK, Histories, CallerInv, Bounded
  <2> QED
    BY <2>1, <2>2, <2>3, <2>4 DEF CallerInv
<1>5. ASSUME NEW d \in Callers, d # c PROVE CallerInv(d)'
  BY <1>1, <1>b, <1>5, Frame DEF TypeOK, Histories, Same
<1> QED
  BY <1>2, <1>3, <1>4, <1>5, PartsNext


LEMMA InterruptKeeps ==
  ASSUME RetryInv, NEW c \in Callers, Interrupt(c) PROVE RetryInv'
<1> USE Constants
<1>a. TypeOK /\ Histories /\ \A d \in Callers : CallerInv(d)
  BY DEF RetryInv
<1> USE <1>a
<1>1. /\ pc[c] = "sleeping" /\ pc' = [pc EXCEPT ![c] = "idle"] /\ c \in expired
      /\ result' = [result EXCEPT ![c] = "context"] /\ timer' = [timer EXCEPT ![c] = 0]
      /\ UNCHANGED <<op, n, attempts, backoff, lastErr, expired, closed, tried, took, slept, early>>
  BY DEF Interrupt, Return
<1>2. LoopTypes' /\ Histories'
  <2>1. 0 \in 0..Larger(InitialBackoff, MaxBackoff)
    BY LargerBounds
  <2> QED
    BY <1>1, <2>1 DEF TypeOK, LoopTypes, Histories
<1>3. CallTypes'
  BY <1>1 DEF TypeOK, CallTypes, Results
<1>4. CallerInv(c)'
  <2>1. Counts(c)' /\ Matches(c)'
    BY <1>1 DEF TypeOK, Histories, CallerInv, Counts, Matches
  <2>2. NextPause(c)'
    BY <1>1 DEF TypeOK, Histories, CallerInv, Counts, NextPause
  <2>3. Stops(c)'
    BY <1>1 DEF TypeOK, CallerInv, Stops
  <2>4. Bounded(c)'
    BY <1>1 DEF TypeOK, Histories, CallerInv, Bounded
  <2> QED
    BY <2>1, <2>2, <2>3, <2>4 DEF CallerInv
<1>5. ASSUME NEW d \in Callers, d # c PROVE CallerInv(d)'
  BY <1>1, <1>5, Frame DEF TypeOK, Histories, Same
<1> QED
  BY <1>2, <1>3, <1>4, <1>5, PartsNext


LEMMA TickKeeps ==
  ASSUME RetryInv, NEW c \in Callers, Tick(c) PROVE RetryInv'
<1> USE Constants
<1>a. TypeOK /\ Histories /\ \A d \in Callers : CallerInv(d)
  BY DEF RetryInv
<1> USE <1>a
<1>1. /\ timer[c] > 0 /\ timer' = [timer EXCEPT ![c] = @ - 1]
      /\ UNCHANGED <<pc, op, n, attempts, backoff, lastErr, expired, result, closed,
                     tried, took, slept, early>>
  BY DEF Tick
<1>2. LoopTypes'
  <2>1. timer[c] - 1 \in 0..Larger(InitialBackoff, MaxBackoff)
    BY <1>1, LargerBounds DEF TypeOK
  <2> QED
    BY <1>1, <2>1 DEF TypeOK, LoopTypes
<1>3. CallTypes' /\ Histories'
  BY <1>1 DEF TypeOK, CallTypes, Histories
<1>4. ASSUME NEW d \in Callers PROVE CallerInv(d)'
  BY <1>1, Frame DEF Same
<1> QED
  BY <1>2, <1>3, <1>4, PartsNext


LEMMA ExpireKeeps ==
  ASSUME RetryInv, NEW c \in Callers, Expire(c) PROVE RetryInv'
<1> USE Constants
<1>a. TypeOK /\ Histories /\ \A d \in Callers : CallerInv(d)
  BY DEF RetryInv
<1> USE <1>a
<1>1. /\ c \in Deadline /\ expired' = expired \cup {c}
      /\ early' = [early EXCEPT ![c] = tried[c]]
      /\ UNCHANGED <<pc, op, n, attempts, backoff, timer, lastErr, result, closed,
                     tried, took, slept>>
  BY DEF Expire
<1>2. LoopTypes' /\ Histories'
  BY <1>1 DEF TypeOK, LoopTypes, Histories
<1>3. CallTypes'
  BY <1>1 DEF TypeOK, CallTypes
<1>4. CallerInv(c)'
  <2>1. Counts(c)' /\ Matches(c)'
    BY <1>1 DEF TypeOK, Histories, CallerInv, Counts, Matches
  <2>2. NextPause(c)'
    BY <1>1 DEF TypeOK, Histories, CallerInv, Counts, NextPause
  <2>3. Stops(c)'
    BY <1>1 DEF TypeOK, CallerInv, Stops
  <2>4. Bounded(c)'
    BY <1>1 DEF TypeOK, Histories, CallerInv, Bounded
  <2> QED
    BY <2>1, <2>2, <2>3, <2>4 DEF CallerInv
<1>5. ASSUME NEW d \in Callers, d # c PROVE CallerInv(d)'
  BY <1>1, <1>5, Frame DEF TypeOK, Histories, Same
<1> QED
  BY <1>2, <1>3, <1>4, <1>5, PartsNext


-----------------------------------------------------------------------------
LEMMA RetryStep == RetryInv /\ [Next]_vars => RetryInv'
<1> SUFFICES ASSUME RetryInv, [Next]_vars PROVE RetryInv'
  OBVIOUS
<1>1. CASE UNCHANGED vars
  BY <1>1 DEF vars, RetryInv, TypeOK, Histories, CallerInv, Counts, NextPause, Stops,
              Matches, Bounded
<1>2. ASSUME NEW c \in Callers, Do(c) \/ Run(c) \/ Expire(c) PROVE RetryInv'
  BY <1>2, DoKeeps, CheckContextKeeps, AttemptKeeps, PauseKeeps, WakeUpKeeps,
     InterruptKeeps, TickKeeps, ExpireKeeps DEF Run
<1> QED
  BY <1>1, <1>2 DEF Next

LEMMA RetryInvariant == Spec => []RetryInv
BY RetryInit, RetryStep, PTL DEF Spec

\* The retry sink's variables stay in their types, however often it tries.
THEOREM RetryTypeCorrect == Spec => []TypeOK
<1>1. RetryInv => TypeOK
  BY DEF RetryInv
<1> QED
  BY <1>1, RetryInvariant, PTL

\* What a call of RetrySink.do returns agrees with what the next sink has done.
THEOREM ResultMatchesCorrect == Spec => []ResultMatches
<1>1. RetryInv => ResultMatches
  BY DEF RetryInv, CallerInv, ResultMatches
<1> QED
  BY <1>1, RetryInvariant, PTL

\* The pauses of RetrySink.do grow and stay within the cap.
THEOREM PausesBoundedCorrect == Spec => []PausesBounded
<1>1. RetryInv => PausesBounded
  BY DEF RetryInv, CallerInv, PausesBounded
<1> QED
  BY <1>1, RetryInvariant, PTL

\* No attempt begins once the call's context has been seen done.
THEOREM ExpiryStopsCorrect == Spec => []ExpiryStops
<1>1. RetryInv => ExpiryStops
  <2> SUFFICES ASSUME RetryInv, NEW c \in expired PROVE tried[c] <= early[c] + 1
    BY DEF ExpiryStops
  <2>1. c \in Callers /\ TypeOK /\ Stops(c)
    BY RetryAssumption DEF RetryInv, TypeOK, CallerInv
  <2> QED
    BY <2>1, Constants DEF Stops, TypeOK
<1> QED
  BY <1>1, RetryInvariant, PTL

-----------------------------------------------------------------------------
(* What is acknowledged is with the server.                                  *)

Events == {WriteOf(c, k) : c \in Callers, k \in Nat}
          \cup {<<Worker, k, i>> : k \in Nat, i \in 1..BatchSize}

Requests == [by : Clients, seq : Nat, events : SUBSET Events]

Held(r) == \E i \in DOMAIN stored : stored[i] = r

\* A good answer is the answer to the one request the client waits for.
WireInv ==
  /\ request \in [Clients -> SUBSET Requests] /\ response \in [Clients -> {"none", "2xx", "other"}]
  /\ net \in SUBSET Requests /\ stored \in Seq(Requests) /\ sent \in [Clients -> Nat]
  /\ \A x \in Clients : /\ \A r, q \in request[x] : r = q
                        /\ request[x] = {} => response[x] = "none"
                        /\ \A r \in request[x] : response[x] = "2xx" => Held(r)

\* The request of a write carries its event; a write that returned nil is stored.
WriteInv(c) ==
  /\ \A r \in request[c] : /\ op[c] = "write" /\ pc[c] = "calling"
                           /\ r.events = {WriteOf(c, n[c])} /\ Encodes(WriteOf(c, n[c]))
  /\ op[c] = "write" /\ result[c] = "nil" => Stored(WriteOf(c, n[c]))

\* The worker's request carries the head of its bodies, and unless there has been
\* an error every event of the batch is stored or still to be sent.
BatchInv ==
  /\ batchNo \in Nat /\ outcome \in Seq({"nil", "failed"}) /\ todo \in Seq(SUBSET Events)
  /\ batchErr \in BOOLEAN
  /\ Len(outcome) \in {batchNo, batchNo - 1}
  /\ todo # <<>> => Len(outcome) = batchNo - 1
  /\ \A r \in request[Worker] : todo # <<>> /\ r.events = Head(todo)
  /\ Len(outcome) = batchNo - 1 /\ ~batchErr =>
       \A i \in 1..BatchSize : Stored(<<Worker, batchNo, i>>)
                                 \/ \E j \in DOMAIN todo : <<Worker, batchNo, i>> \in todo[j]
  /\ \A k \in DOMAIN outcome : outcome[k] = "nil" =>
       \A i \in 1..BatchSize : Stored(<<Worker, k, i>>)

HTTPInv == RetryInv /\ WireInv /\ (\A c \in Callers : WriteInv(c)) /\ BatchInv

LEMMA ClientsAre == Worker \in Clients /\ Worker \notin Callers /\ Callers \subseteq Clients
BY HTTPAssumption DEF Clients

LEMMA SizesAre == BatchSize \in Nat /\ BatchSize >= 1 /\ MaxBatches \in Nat
BY HTTPAssumption

\* What the server has accepted it keeps.
LEMMA StoredStays ==
  ASSUME stored \in Seq(Requests),
         stored' = stored \/ \E r \in Requests : stored' = Append(stored, r)
  PROVE  /\ stored' \in Seq(Requests)
         /\ \A i \in DOMAIN stored : i \in DOMAIN stored' /\ stored'[i] = stored[i]
OBVIOUS

LEMMA StillHeld ==
  ASSUME \A i \in DOMAIN stored : i \in DOMAIN stored' /\ stored'[i] = stored[i]
  PROVE  /\ \A r : Held(r) => Held(r)'
         /\ \A e : Stored(e) => Stored(e)'
BY DEF Held, Stored

LEMMA HTTPInitInv == HTTPInit => HTTPInv
<1> SUFFICES ASSUME HTTPInit PROVE HTTPInv
  OBVIOUS
<1>1. RetryInv
  BY RetryInit DEF HTTPInit
<1>2. WireInv
  BY DEF HTTPInit, WireInv
<1>3. ASSUME NEW c \in Callers PROVE WriteInv(c)
  BY ClientsAre DEF HTTPInit, Init, WriteInv
<1>4. BatchInv
  <2>1. batchNo = 0 /\ outcome = <<>> /\ todo = <<>> /\ request[Worker] = {}
    BY ClientsAre DEF HTTPInit
  <2>2. batchErr \in BOOLEAN
    BY DEF HTTPInit
  <2> QED
    BY <2>1, <2>2 DEF BatchInv
<1> QED
  BY <1>1, <1>2, <1>3, <1>4 DEF HTTPInv

-----------------------------------------------------------------------------
\* The loop around the sink leaves the sink alone.
LEMMA LoopKeeps ==
  ASSUME HTTPInv, NEW c \in Callers, Loop(c) \/ (Expire(c) /\ UNCHANGED <<setup, wire, batching>>)
  PROVE  WireInv' /\ (\A d \in Callers : WriteInv(d)') /\ BatchInv'
<1> USE DEF HTTPInv
<1>1. UNCHANGED <<setup, wire, batching>>
  BY DEF Loop
<1>2. WireInv' /\ BatchInv'
  BY <1>1 DEF WireInv, BatchInv, wire, batching, Held, Stored
<1>3. ASSUME NEW d \in Callers PROVE WriteInv(d)'
  <2>1. Stored(WriteOf(d, n[d])) /\ n'[d] = n[d] => Stored(WriteOf(d, n[d]))'
    BY <1>1 DEF wire, Stored
  <2>2. pc \in [Callers -> {"idle", "check", "calling", "failed", "sleeping"}]
        /\ op \in [Callers -> Ops] /\ n \in [Callers -> 0..MaxCalls] /\ result \in [Callers -> Results]
    BY DEF RetryInv, TypeOK
  <2>3. CASE Do(c) /\ d = c
    BY <1>1, <2>2, <2>3 DEF Do, WriteInv, wire
  <2>4. CASE ~Do(c) \/ d # c
    <3>1. n'[d] = n[d] /\ op'[d] = op[d]
      BY <2>2, <2>4 DEF Loop, Do, CheckContext, Pause, WakeUp, Interrupt, Tick, Expire
    <3>2. result'[d] = "nil" => result[d] = "nil"
      BY <2>2, <2>4 DEF Loop, Do, CheckContext, Pause, WakeUp, Interrupt, Tick, Expire, Return
    <3>3. pc[d] = "calling" => pc'[d] = "calling"
      BY <2>2, <2>4 DEF Loop, Do, CheckContext, Pause, WakeUp, Interrupt, Tick, Expire, Return
    <3> QED
      BY <1>1, <2>1, <3>1, <3>2, <3>3 DEF WriteInv, wire, setup, Stored, Encodes
  <2> QED
    BY <2>3, <2>4
<1> QED
  BY <1>2, <1>3

-----------------------------------------------------------------------------
(* The steps of a write. *)

\* An attempt that ends touches the caller's own loop only.
LEMMA EndOfAttempt ==
  ASSUME HTTPInv, NEW c \in Callers, NEW ok \in BOOLEAN, NEW accepted \in BOOLEAN,
         Report(c, ok, accepted)
  PROVE  /\ UNCHANGED <<op, n>> /\ pc[c] = "calling"
         /\ result'[c] = "nil" => ok
         /\ \A d \in Callers : d # c => pc'[d] = pc[d] /\ result'[d] = result[d]
<1>1. /\ pc \in [Callers -> {"idle", "check", "calling", "failed", "sleeping"}]
      /\ result \in [Callers -> Results]
  BY DEF HTTPInv, RetryInv, TypeOK
<1>0. PICK err \in (IF ok THEN {"nil"} ELSE Errors) :
        EndAttempt(c, err, IF accepted THEN 1 ELSE 0)
  BY DEF Report
<1>2. UNCHANGED <<op, n>> /\ pc[c] = "calling"
  BY <1>0 DEF EndAttempt
<1>3. result'[c] = "nil" => ok
  <2>1. CASE ~ok
    <3>1. err # "nil" /\ result[c] = "none"
      BY <1>0, <1>2, <2>1 DEF Errors, HTTPInv, RetryInv, CallerInv, Counts
    <3> QED
      BY <1>0, <3>1 DEF EndAttempt
  <2> QED
    BY <2>1
<1>4. \A d \in Callers : d # c => pc'[d] = pc[d] /\ result'[d] = result[d]
  BY <1>0, <1>1 DEF EndAttempt, Return
<1> QED
  BY <1>2, <1>3, <1>4

\* Encoding errors, and Sync and Close, which do nothing, send no request.
LEMMA NoRequestKeeps ==
  ASSUME HTTPInv, NEW c \in Callers, EncodeFails(c) \/ NothingToDo(c)
  PROVE  WireInv' /\ (\A d \in Callers : WriteInv(d)') /\ BatchInv'
<1> USE DEF HTTPInv
<1>1. UNCHANGED <<wire, batching>>
  BY DEF EncodeFails, NothingToDo
<1>2. WireInv' /\ BatchInv'
  BY <1>1 DEF WireInv, BatchInv, wire, batching, Held, Stored
<1>3. PICK ok \in BOOLEAN, accepted \in BOOLEAN : Report(c, ok, accepted) /\ (ok => op[c] # "write")
  BY DEF EncodeFails, NothingToDo
<1>4. request[c] = {} /\ spoilt' = spoilt
  BY DEF EncodeFails, NothingToDo, WriteInv, setup
<1>5. ASSUME NEW d \in Callers PROVE WriteInv(d)'
  BY <1>1, <1>3, <1>4, EndOfAttempt DEF WriteInv, wire, Stored, Encodes
<1> QED
  BY <1>2, <1>5

\* A request is sent: it is the client's only one, with an empty answer.
LEMMA SendKeeps ==
  ASSUME HTTPInv, NEW x \in Clients, NEW events \in SUBSET Events, Send(x, events)
  PROVE  /\ WireInv' /\ UNCHANGED stored
         /\ \A r \in request'[x] : r.events = events
         /\ \A y \in Clients : y # x => request'[y] = request[y]
<1> USE DEF HTTPInv
<1> DEFINE q == [by |-> x, seq |-> sent[x] + 1, events |-> events]
<1>1. /\ request[x] = {} /\ request' = [request EXCEPT ![x] = {q}] /\ net' = net \cup {q}
      /\ sent' = [sent EXCEPT ![x] = @ + 1] /\ response' = response /\ stored' = stored
  BY DEF Send
<1>2. q \in Requests
  BY DEF WireInv, Requests
<1>3. q.events = events
  OBVIOUS
<1> HIDE DEF q
<1>4. request'[x] = {q} /\ \A y \in Clients : y # x => request'[y] = request[y]
  BY <1>1 DEF WireInv
<1>5. response[x] = "none"
  BY <1>1 DEF WireInv
<1>6. /\ request' \in [Clients -> SUBSET Requests] /\ net' \in SUBSET Requests
      /\ sent' \in [Clients -> Nat]
  BY <1>1, <1>2 DEF WireInv
<1>7. ASSUME NEW y \in Clients
      PROVE  /\ \A r, p \in request'[y] : r = p
             /\ request'[y] = {} => response'[y] = "none"
             /\ \A r \in request'[y] : response'[y] = "2xx" => Held(r)'
  <2>1. \A r : Held(r)' <=> Held(r)
    BY <1>1 DEF Held
  <2>2. CASE y = x
    BY <1>1, <1>4, <1>5, <2>2
  <2>3. CASE y # x
    BY <1>1, <1>4, <2>1, <2>3 DEF WireInv
  <2> QED
    BY <2>2, <2>3
<1>8. WireInv'
  BY <1>1, <1>6, <1>7 DEF WireInv
<1> QED
  BY <1>1, <1>3, <1>4, <1>8

\* A client leaves: nothing is stored or forgotten by that.
LEMMA LeaveKeeps ==
  ASSUME HTTPInv, NEW x \in Clients, Leave(x)
  PROVE  /\ WireInv' /\ UNCHANGED stored /\ request'[x] = {}
         /\ \A y \in Clients : y # x => request'[y] = request[y]
<1> USE DEF HTTPInv
<1>1. /\ request' = [request EXCEPT ![x] = {}] /\ response' = [response EXCEPT ![x] = "none"]
      /\ UNCHANGED <<net, stored, sent>>
  BY DEF Leave
<1>2. /\ request'[x] = {} /\ response'[x] = "none"
      /\ \A y \in Clients : y # x => request'[y] = request[y] /\ response'[y] = response[y]
  BY <1>1 DEF WireInv
<1>3. request' \in [Clients -> SUBSET Requests] /\ response' \in [Clients -> {"none", "2xx", "other"}]
  BY <1>1 DEF WireInv
<1>4. \A r : Held(r)' <=> Held(r)
  BY <1>1 DEF Held
<1>5. WireInv'
  BY <1>1, <1>2, <1>3, <1>4 DEF WireInv
<1> QED
  BY <1>1, <1>2, <1>5

LEMMA SendWriteKeeps ==
  ASSUME HTTPInv, NEW c \in Callers, SendWrite(c)
  PROVE  WireInv' /\ (\A d \in Callers : WriteInv(d)') /\ BatchInv'
<1> USE DEF HTTPInv
<1>1. /\ pc[c] = "calling" /\ op[c] = "write" /\ Encodes(WriteOf(c, n[c]))
      /\ Send(c, {WriteOf(c, n[c])}) /\ UNCHANGED <<vars, setup, batching>>
  BY DEF SendWrite
<1>2. n[c] \in Nat
  BY Constants DEF RetryInv, TypeOK
<1>3. {WriteOf(c, n[c])} \in SUBSET Events /\ c \in Clients
  BY <1>2, ClientsAre DEF Events
<1>4. /\ WireInv' /\ UNCHANGED stored
      /\ \A r \in request'[c] : r.events = {WriteOf(c, n[c])}
      /\ \A y \in Clients : y # c => request'[y] = request[y]
  BY <1>1, <1>3, SendKeeps
<1>5. request'[Worker] = request[Worker]
  BY <1>4, ClientsAre
<1>6. BatchInv'
  BY <1>1, <1>4, <1>5 DEF BatchInv, batching, Stored
<1>7. ASSUME NEW d \in Callers PROVE WriteInv(d)'
  <2>1. UNCHANGED <<pc, op, n, result, spoilt, stored>>
    BY <1>1, <1>4 DEF vars, setup
  <2>2. CASE d = c
    BY <1>1, <1>4, <2>1, <2>2 DEF WriteInv, Stored, Encodes
  <2>3. CASE d # c
    BY <1>4, <2>1, <2>3, ClientsAre DEF WriteInv, Stored, Encodes
  <2> QED
    BY <2>2, <2>3
<1> QED
  BY <1>4, <1>6, <1>7

\* The write returns nil only for the good answer to its own request.
LEMMA WriteReturnsKeeps ==
  ASSUME HTTPInv, NEW c \in Callers, WriteReturns(c)
  PROVE  WireInv' /\ (\A d \in Callers : WriteInv(d)') /\ BatchInv'
<1> USE DEF HTTPInv
<1>1. PICK accepted \in BOOLEAN, ok \in BOOLEAN :
        /\ Report(c, ok, accepted)
        /\ ok => Succeeds(c)
        /\ Succeeds(c) \/ Fails(c)
  BY DEF WriteReturns
<1>2. Leave(c) /\ UNCHANGED <<setup, batching>> /\ c \in Clients
  BY ClientsAre DEF WriteReturns
<1>3. /\ WireInv' /\ UNCHANGED stored /\ request'[c] = {}
      /\ \A y \in Clients : y # c => request'[y] = request[y]
  BY <1>2, LeaveKeeps
<1>4. BatchInv'
  BY <1>2, <1>3, ClientsAre DEF BatchInv, batching, Stored
<1>5. /\ UNCHANGED <<op, n>> /\ pc[c] = "calling"
      /\ result'[c] = "nil" => ok
      /\ \A d \in Callers : d # c => pc'[d] = pc[d] /\ result'[d] = result[d]
  BY <1>1, EndOfAttempt
<1>6. ASSUME ok PROVE Stored(WriteOf(c, n[c]))
  <2>1. PICK r \in request[c] : Held(r)
    BY <1>1, <1>2, <1>6 DEF Succeeds, Answered, WireInv
  <2>2. r.events = {WriteOf(c, n[c])}
    BY <2>1 DEF WriteInv
  <2> QED
    BY <2>1, <2>2 DEF Held, Stored
<1>7. ASSUME NEW d \in Callers PROVE WriteInv(d)'
  <2>1. spoilt' = spoilt
    BY <1>2 DEF setup
  <2>2. CASE d = c
    BY <1>3, <1>5, <1>6, <2>2 DEF WriteInv, Stored
  <2>3. CASE d # c
    BY <1>3, <1>5, <2>1, <2>3, ClientsAre DEF WriteInv, Stored, Encodes
  <2> QED
    BY <2>2, <2>3
<1> QED
  BY <1>3, <1>4, <1>7

-----------------------------------------------------------------------------
(* The server, and the steps of a batch. *)

LEMMA ArriveKeeps ==
  ASSUME HTTPInv, NEW r \in net, NEW accepts \in BOOLEAN, NEW status \in {"2xx", "other"},
         Arrive(r, accepts, status)
  PROVE  WireInv' /\ (\A d \in Callers : WriteInv(d)') /\ BatchInv'
<1> USE DEF HTTPInv
<1>1. /\ net' = net \ {r} /\ (status = "2xx" => accepts)
      /\ stored' = IF accepts THEN Append(stored, r) ELSE stored
      /\ response' = IF r \in request[r.by] THEN [response EXCEPT ![r.by] = status] ELSE response
      /\ UNCHANGED <<vars, setup, request, sent, batching>>
  BY DEF Arrive
<1>2. r \in Requests /\ r.by \in Clients
  BY DEF WireInv, Requests
<1>3. /\ stored' \in Seq(Requests)
      /\ \A i \in DOMAIN stored : i \in DOMAIN stored' /\ stored'[i] = stored[i]
  BY <1>1, <1>2, StoredStays DEF WireInv
<1>4. (\A q : Held(q) => Held(q)') /\ (\A e : Stored(e) => Stored(e)')
  BY <1>3, StillHeld
<1>5. accepts => Held(r)'
  BY <1>1, <1>2 DEF WireInv, Held
<1>6. ASSUME NEW x \in Clients
      PROVE  /\ \A q, p \in request'[x] : q = p
             /\ request'[x] = {} => response'[x] = "none"
             /\ \A q \in request'[x] : response'[x] = "2xx" => Held(q)'
  <2>1. CASE r \in request[x] /\ r.by = x
    <3>1. response'[x] = status
      BY <1>1, <2>1 DEF WireInv
    <3> QED
      BY <1>1, <1>5, <2>1, <3>1 DEF WireInv
  <2>2. CASE ~(r \in request[x] /\ r.by = x)
    <3>1. response'[x] = response[x]
      BY <1>1, <1>2, <2>2 DEF WireInv
    <3> QED
      BY <1>1, <1>4, <3>1 DEF WireInv
  <2> QED
    BY <2>1, <2>2
<1>7. /\ response' \in [Clients -> {"none", "2xx", "other"}] /\ net' \in SUBSET Requests
      /\ request' \in [Clients -> SUBSET Requests] /\ sent' \in [Clients -> Nat]
  BY <1>1 DEF WireInv
<1>8. WireInv'
  BY <1>3, <1>6, <1>7 DEF WireInv
<1>9. ASSUME NEW d \in Callers PROVE WriteInv(d)'
  BY <1>1, <1>4 DEF WriteInv, vars, setup, Encodes
<1>10. BatchInv'
  <2>1. UNCHANGED <<request, batchNo, todo, batchErr, outcome>>
    BY <1>1 DEF batching
  <2> QED
    BY <1>4, <2>1 DEF BatchInv
<1> QED
  BY <1>8, <1>9, <1>10

\* The bodies of a batch hold all its events.
LEMMA BodiesCover ==
  ASSUME NEW k \in Nat
  PROVE  /\ Bodies(BatchEvents(k)) \in Seq(SUBSET Events)
         /\ \A i \in 1..BatchSize : \E j \in DOMAIN Bodies(BatchEvents(k)) :
              <<Worker, k, i>> \in Bodies(BatchEvents(k))[j]
<1> DEFINE es == [i \in 1..BatchSize |-> <<Worker, k, i>>]
<1>1. /\ DOMAIN es = 1..BatchSize /\ \A i \in 1..BatchSize : es[i] \in Events /\ es[i] = <<Worker, k, i>>
  BY DEF Events
<1>2. BatchEvents(k) = es
  BY DEF BatchEvents
<1> HIDE DEF es
<1>3. CASE json
  <2>1. Bodies(es) = <<ToSet(es)>>
    BY <1>3 DEF Bodies
  <2>2. ToSet(es) \in SUBSET Events /\ \A i \in 1..BatchSize : <<Worker, k, i>> \in ToSet(es)
    BY <1>1 DEF ToSet
  <2> QED
    BY <1>2, <2>1, <2>2
<1>4. CASE ~json
  <2>1. Bodies(es) = [i \in 1..BatchSize |-> {es[i]}]
    BY <1>1, <1>4 DEF Bodies
  <2>2. [i \in 1..BatchSize |-> {es[i]}] \in [1..BatchSize -> SUBSET Events]
    BY <1>1
  <2>3. Bodies(es) \in Seq(SUBSET Events) /\ DOMAIN Bodies(es) = 1..BatchSize
    BY <2>1, <2>2, SizesAre
  <2>4. \A i \in 1..BatchSize : <<Worker, k, i>> \in Bodies(es)[i]
    BY <1>1, <2>1
  <2> QED
    BY <1>2, <2>3, <2>4
<1> QED
  BY <1>3, <1>4

\* A step of the batch that sends nothing leaves the writes alone.
LEMMA WritesAlone ==
  ASSUME HTTPInv, UNCHANGED <<vars, setup>>, \A e : Stored(e) => Stored(e)',
         \A d \in Callers : request'[d] = request[d]
  PROVE  \A d \in Callers : WriteInv(d)'
BY DEF HTTPInv, WriteInv, vars, setup, Encodes

LEMMA WriteBatchKeeps ==
  ASSUME HTTPInv, WriteBatch
  PROVE  WireInv' /\ (\A d \in Callers : WriteInv(d)') /\ BatchInv'
<1> USE DEF HTTPInv
<1> DEFINE bodies == Bodies(BatchEvents(batchNo'))
<1>1. /\ Len(outcome) = batchNo /\ batchNo' = batchNo + 1
      /\ UNCHANGED <<vars, setup, wire, outcome>>
      /\ \/ todo' = bodies /\ batchErr' = FALSE
         \/ todo' = <<>> /\ batchErr' = TRUE
  BY DEF WriteBatch
<1>2. batchNo' \in Nat /\ UNCHANGED <<request, response, net, stored, sent>>
  BY <1>1 DEF BatchInv, wire
<1>3. WireInv'
  BY <1>2 DEF WireInv, Held
<1>4. \A e : Stored(e)' <=> Stored(e)
  BY <1>2 DEF Stored
<1>5. \A d \in Callers : WriteInv(d)'
  BY <1>1, <1>2, <1>4, WritesAlone
<1>6. /\ bodies \in Seq(SUBSET Events)
      /\ \A i \in 1..BatchSize : \E j \in DOMAIN bodies : <<Worker, batchNo', i>> \in bodies[j]
  BY <1>2, BodiesCover
<1> HIDE DEF bodies
<1>7. /\ todo' \in Seq(SUBSET Events) /\ batchErr' \in BOOLEAN
      /\ outcome' \in Seq({"nil", "failed"}) /\ Len(outcome') = batchNo' - 1
  <2>1. todo' \in Seq(SUBSET Events)
    <3>1. todo' = bodies \/ todo' = <<>>
      BY <1>1
    <3>2. <<>> \in Seq(SUBSET Events)
      OBVIOUS
    <3> QED
      BY <1>6, <3>1, <3>2
  <2>2. batchErr' \in BOOLEAN
    BY <1>1
  <2>3. outcome' \in Seq({"nil", "failed"}) /\ Len(outcome') = batchNo' - 1
    BY <1>1 DEF BatchInv
  <2> QED
    BY <2>1, <2>2, <2>3
<1>8. \A r \in request'[Worker] : FALSE
  BY <1>1, <1>2 DEF BatchInv
<1>9. ~batchErr' => \A i \in 1..BatchSize : \E j \in DOMAIN todo' : <<Worker, batchNo', i>> \in todo'[j]
  BY <1>1, <1>6
<1>10. \A k \in DOMAIN outcome' : outcome'[k] = "nil" =>
         \A i \in 1..BatchSize : Stored(<<Worker, k, i>>)'
  BY <1>1, <1>4 DEF BatchInv
<1>11. BatchInv'
  BY <1>2, <1>7, <1>8, <1>9, <1>10 DEF BatchInv
<1> QED
  BY <1>3, <1>5, <1>11

LEMMA SendBodyKeeps ==
  ASSUME HTTPInv, SendBody
  PROVE  WireInv' /\ (\A d \in Callers : WriteInv(d)') /\ BatchInv'
<1> USE DEF HTTPInv
<1>1. todo # <<>> /\ Send(Worker, Head(todo)) /\ UNCHANGED <<vars, setup, batching>>
  BY DEF SendBody
<1>2. Head(todo) \in SUBSET Events
  BY <1>1 DEF BatchInv
<1>3. /\ WireInv' /\ UNCHANGED stored
      /\ \A r \in request'[Worker] : r.events = Head(todo)
      /\ \A y \in Clients : y # Worker => request'[y] = request[y]
  BY <1>1, <1>2, SendKeeps, ClientsAre
<1>4. \A e : Stored(e)' <=> Stored(e)
  BY <1>3 DEF Stored
<1>5. \A d \in Callers : WriteInv(d)'
  BY <1>1, <1>3, <1>4, WritesAlone, ClientsAre
<1>6. UNCHANGED <<batchNo, todo, batchErr, outcome>>
  BY <1>1 DEF batching
<1>7. BatchInv'
  BY <1>1, <1>3, <1>4, <1>6 DEF BatchInv
<1> QED
  BY <1>3, <1>5, <1>7

\* A body that has been answered well is with the server, the others are still
\* to be sent.
LEMMA BodyReturnsKeeps ==
  ASSUME HTTPInv, BodyReturns
  PROVE  WireInv' /\ (\A d \in Callers : WriteInv(d)') /\ BatchInv'
<1> USE DEF HTTPInv
<1>1. /\ request[Worker] # {} /\ todo' = Tail(todo) /\ Leave(Worker)
      /\ (Succeeds(Worker) /\ batchErr' = batchErr) \/ batchErr' = TRUE
      /\ UNCHANGED <<vars, setup, batchNo, outcome>>
  BY DEF BodyReturns
<1>2. /\ WireInv' /\ UNCHANGED stored /\ request'[Worker] = {}
      /\ \A y \in Clients : y # Worker => request'[y] = request[y]
  BY <1>1, LeaveKeeps, ClientsAre
<1>3. \A e : Stored(e)' <=> Stored(e)
  BY <1>2 DEF Stored
<1>4. \A d \in Callers : WriteInv(d)'
  BY <1>1, <1>2, <1>3, WritesAlone, ClientsAre
<1>5. PICK r \in request[Worker] : todo # <<>> /\ r.events = Head(todo)
  BY <1>1 DEF BatchInv
<1>6. todo' \in Seq(SUBSET Events) /\ batchErr' \in BOOLEAN /\ Len(outcome) = batchNo - 1
  <2>1. todo' \in Seq(SUBSET Events)
    BY <1>1, <1>5 DEF BatchInv
  <2>2. batchErr' \in BOOLEAN
    BY <1>1 DEF BatchInv
  <2>3. Len(outcome) = batchNo - 1
    BY <1>5 DEF BatchInv
  <2> QED
    BY <2>1, <2>2, <2>3
<1>7. ASSUME ~batchErr', NEW i \in 1..BatchSize
      PROVE  Stored(<<Worker, batchNo, i>>)
             \/ \E j \in DOMAIN todo' : <<Worker, batchNo, i>> \in todo'[j]
  <2> DEFINE e == <<Worker, batchNo, i>>
  <2>1. Succeeds(Worker) /\ ~batchErr
    BY <1>1, <1>7
  <2>2. Stored(e) \/ \E j \in DOMAIN todo : e \in todo[j]
    BY <1>6, <2>1 DEF BatchInv
  <2> HIDE DEF e
  <2>3. Held(r)
    BY <2>1, ClientsAre DEF Succeeds, Answered, WireInv
  <2>4. e \in r.events => Stored(e)
    BY <2>3 DEF Held, Stored
  <2>5. ASSUME NEW j \in DOMAIN todo, e \in todo[j], j # 1
        PROVE  \E k \in DOMAIN todo' : e \in todo'[k]
    <3>1. todo \in Seq(SUBSET Events) /\ j \in 1..Len(todo) /\ j - 1 \in 1..Len(todo) - 1
      BY <2>5 DEF BatchInv
    <3>2. j - 1 \in DOMAIN todo' /\ todo'[j - 1] = todo[j]
      BY <1>1, <1>5, <3>1
    <3> QED
      BY <2>5, <3>2
  <2>6. Head(todo) = todo[1]
    BY <1>5 DEF BatchInv
  <2>7. Stored(e) \/ \E k \in DOMAIN todo' : e \in todo'[k]
    BY <1>5, <2>2, <2>4, <2>5, <2>6
  <2> QED
    BY <2>7 DEF e
<1>8. BatchInv'
  <2>1. \A k \in DOMAIN outcome' : outcome'[k] = "nil" =>
          \A i \in 1..BatchSize : Stored(<<Worker, k, i>>)'
    BY <1>1, <1>3 DEF BatchInv
  <2>2. \A q \in request'[Worker] : FALSE
    BY <1>2
  <2>3. batchNo' \in Nat /\ outcome' \in Seq({"nil", "failed"}) /\ Len(outcome') = batchNo' - 1
    BY <1>1, <1>6 DEF BatchInv
  <2>6. batchNo' = batchNo
    BY <1>1
  <2>4. ~batchErr' => \A i \in 1..BatchSize : Stored(<<Worker, batchNo, i>>)'
                         \/ \E j \in DOMAIN todo' : <<Worker, batchNo, i>> \in todo'[j]
    <3>1. ASSUME ~batchErr', NEW i \in 1..BatchSize
          PROVE  Stored(<<Worker, batchNo, i>>)'
                 \/ \E j \in DOMAIN todo' : <<Worker, batchNo, i>> \in todo'[j]
      <4>1. Stored(<<Worker, batchNo, i>>)
            \/ \E j \in DOMAIN todo' : <<Worker, batchNo, i>> \in todo'[j]
        BY <1>7, <3>1
      <4>2. Stored(<<Worker, batchNo, i>>) => Stored(<<Worker, batchNo, i>>)'
        BY <1>2, <2>6 DEF Stored
      <4> QED
        BY <4>1, <4>2
    <3> QED
      BY <3>1
  <2>5. Len(outcome') = batchNo' - 1
    BY <2>3
  <2> QED
    BY <1>6, <2>6, <2>1, <2>2, <2>3, <2>4, <2>5 DEF BatchInv
<1> QED
  BY <1>2, <1>4, <1>8

LEMMA BatchReturnsKeeps ==
  ASSUME HTTPInv, BatchReturns
  PROVE  WireInv' /\ (\A d \in Callers : WriteInv(d)') /\ BatchInv'
<1> USE DEF HTTPInv
<1> DEFINE how == IF batchErr THEN "failed" ELSE "nil"
<1>1. /\ Len(outcome) = batchNo - 1 /\ todo = <<>> /\ outcome' = Append(outcome, how)
      /\ UNCHANGED <<vars, setup, wire, batchNo, todo, batchErr>>
  BY DEF BatchReturns
<1>2. how \in {"nil", "failed"} /\ (how = "nil" => ~batchErr)
  BY DEF BatchInv
<1> HIDE DEF how
<1>3. UNCHANGED <<request, response, net, stored, sent>>
  BY <1>1 DEF wire
<1>4. WireInv'
  BY <1>3 DEF WireInv, Held
<1>5. \A e : Stored(e)' <=> Stored(e)
  BY <1>3 DEF Stored
<1>6. \A d \in Callers : WriteInv(d)'
  BY <1>1, <1>3, <1>5, WritesAlone
<1>7. outcome' \in Seq({"nil", "failed"}) /\ Len(outcome') = batchNo
  BY <1>1, <1>2 DEF BatchInv
<1>8. \A k \in DOMAIN outcome : k \in 1..batchNo - 1 /\ outcome'[k] = outcome[k]
  BY <1>1, <1>2 DEF BatchInv
<1>9. outcome'[batchNo] = how /\ DOMAIN outcome' = (DOMAIN outcome) \cup {batchNo}
  BY <1>1, <1>2 DEF BatchInv
<1>10. ~batchErr => \A i \in 1..BatchSize : Stored(<<Worker, batchNo, i>>)
  BY <1>1 DEF BatchInv
<1>11. \A k \in DOMAIN outcome' : outcome'[k] = "nil" =>
          \A i \in 1..BatchSize : Stored(<<Worker, k, i>>)'
  BY <1>2, <1>5, <1>8, <1>9, <1>10 DEF BatchInv
<1>12. \A q \in request'[Worker] : FALSE
  BY <1>1, <1>3 DEF BatchInv
<1>13. BatchInv'
  BY <1>1, <1>7, <1>11, <1>12 DEF BatchInv
<1> QED
  BY <1>4, <1>6, <1>13

-----------------------------------------------------------------------------
(* The HTTP sink below the retry loop. *)

\* A report is honest when the success it reports has been carried out.
LEMMA HonestReport ==
  ASSUME NEW c \in Callers, NEW ok \in BOOLEAN, NEW accepted \in BOOLEAN,
         Report(c, ok, accepted), ok => accepted
  PROVE  Attempt(c)
<1>1. PICK err \in (IF ok THEN {"nil"} ELSE Errors) :
        EndAttempt(c, err, IF accepted THEN 1 ELSE 0)
  BY DEF Report
<1>2. err \in Errors \cup {"nil"} /\ (IF accepted THEN 1 ELSE 0) \in {0, 1}
  OBVIOUS
<1>3. Honest(err, IF accepted THEN 1 ELSE 0)
  BY DEF Honest, Errors
<1> QED
  BY <1>1, <1>2, <1>3 DEF Attempt

\* A write reports success for the good answer to its own request alone, and the
\* server gives that only for a request it has accepted.
LEMMA WriteReportsHonestly ==
  ASSUME HTTPInv, NEW c \in Callers, WriteReturns(c)
  PROVE  Attempt(c)
<1>1. PICK accepted \in {\E i \in DOMAIN stored : stored[i] \in request[c]} :
        \/ Succeeds(c) /\ Report(c, TRUE, accepted)
        \/ Fails(c) /\ Report(c, FALSE, accepted)
  BY DEF WriteReturns
<1>2. accepted \in BOOLEAN
  OBVIOUS
<1>3. CASE Succeeds(c) /\ Report(c, TRUE, accepted)
  <2>1. PICK r \in request[c] : Held(r)
    BY <1>3, ClientsAre DEF Succeeds, Answered, HTTPInv, WireInv
  <2>2. accepted
    BY <2>1 DEF Held
  <2> QED
    BY <1>2, <1>3, <2>2, HonestReport
<1>4. CASE Fails(c) /\ Report(c, FALSE, accepted)
  BY <1>2, <1>4, HonestReport
<1> QED
  BY <1>1, <1>3, <1>4

\* Every step of the sink is one of the retry loop around it, or none, as long as
\* the answers belong to the requests.
LEMMA HTTPRefines == HTTPInv /\ [HTTPNext]_hvars => [Next]_vars
<1> SUFFICES ASSUME HTTPInv, [HTTPNext]_hvars PROVE [Next]_vars
  OBVIOUS
<1>1. ASSUME NEW c \in Callers, Loop(c) PROVE Next
  BY <1>1 DEF Loop, Next, Run
<1>2. ASSUME NEW c \in Callers, HTTPWrite(c) PROVE [Next]_vars
  <2>1. ASSUME Attempt(c) PROVE Next
    BY <2>1 DEF Next, Run
  <2>2. CASE WriteReturns(c)
    BY <2>1, <2>2, WriteReportsHonestly
  <2>3. CASE EncodeFails(c) \/ NothingToDo(c)
    BY <2>1, <2>3, HonestReport DEF EncodeFails, NothingToDo
  <2>4. CASE SendWrite(c)
    BY <2>4 DEF SendWrite
  <2> QED
    BY <1>2, <2>2, <2>3, <2>4 DEF HTTPWrite
<1>3. ASSUME NEW c \in Callers, Expire(c) PROVE Next
  BY <1>3 DEF Next
<1>4. ASSUME HTTPBatch \/ Server \/ UNCHANGED hvars PROVE UNCHANGED vars
  BY <1>4 DEF HTTPBatch, WriteBatch, SendBody, BodyReturns, BatchReturns, Server, Arrive, hvars
<1> QED
  BY <1>1, <1>2, <1>3, <1>4 DEF HTTPNext

LEMMA HTTPStep == HTTPInv /\ [HTTPNext]_hvars => HTTPInv'
<1> SUFFICES ASSUME HTTPInv, [HTTPNext]_hvars PROVE HTTPInv'
  OBVIOUS
<1>1. RetryInv'
  BY HTTPRefines, RetryStep DEF HTTPInv
<1>2. ASSUME HTTPNext PROVE WireInv' /\ (\A d \in Callers : WriteInv(d)') /\ BatchInv'
  <2>1. ASSUME NEW c \in Callers, Loop(c) \/ (Expire(c) /\ UNCHANGED <<setup, wire, batching>>)
        PROVE WireInv' /\ (\A d \in Callers : WriteInv(d)') /\ BatchInv'
    BY <2>1, LoopKeeps
  <2>2. ASSUME NEW c \in Callers, HTTPWrite(c)
        PROVE WireInv' /\ (\A d \in Callers : WriteInv(d)') /\ BatchInv'
    BY <2>2, NoRequestKeeps, SendWriteKeeps, WriteReturnsKeeps DEF HTTPWrite
  <2>3. ASSUME HTTPBatch
        PROVE WireInv' /\ (\A d \in Callers : WriteInv(d)') /\ BatchInv'
    BY <2>3, WriteBatchKeeps, SendBodyKeeps, BodyReturnsKeeps, BatchReturnsKeeps DEF HTTPBatch
  <2>4. ASSUME Server
        PROVE WireInv' /\ (\A d \in Callers : WriteInv(d)') /\ BatchInv'
    BY <2>4, ArriveKeeps DEF Server
  <2> QED
    BY <1>2, <2>1, <2>2, <2>3, <2>4 DEF HTTPNext
<1>3. ASSUME UNCHANGED hvars PROVE WireInv' /\ (\A d \in Callers : WriteInv(d)') /\ BatchInv'
  BY <1>3 DEF HTTPInv, hvars, vars, setup, wire, batching, WireInv, WriteInv, BatchInv, Held,
              Stored, Encodes
<1> QED
  BY <1>1, <1>2, <1>3 DEF HTTPInv

LEMMA HTTPInvariant == HTTPSpec => []HTTPInv
BY HTTPInitInv, HTTPStep, PTL DEF HTTPSpec

\* HTTPSink under RetrySink keeps RetrySink's assumption on the sink below: an
\* attempt of doRequest that returns nil has been carried out, so the two behave
\* like RetrySink in front of any such sink.
THEOREM HTTPImplementsRetry == HTTPSpec => Spec
<1>1. HTTPInit => Init
  BY DEF HTTPInit
<1>2. HTTPSpec => [][Next]_vars
  BY HTTPInvariant, HTTPRefines, PTL DEF HTTPSpec
<1> QED
  BY <1>1, <1>2, PTL DEF HTTPSpec, Spec

\* So its results, pauses and deadlines are those of RetrySink.
THEOREM HTTPRetriesCorrect ==
  HTTPSpec => [](TypeOK /\ ResultMatches /\ PausesBounded /\ ExpiryStops)
BY HTTPImplementsRetry, RetryTypeCorrect, ResultMatchesCorrect, PausesBoundedCorrect,
   ExpiryStopsCorrect, PTL

\* What HTTPSink.Write or WriteBatch has acknowledged is with the server.
THEOREM AckedStoredCorrect == HTTPSpec => []AckedStored
<1>1. HTTPInv => AckedStored
  <2> SUFFICES ASSUME HTTPInv, NEW e \in Acked PROVE Copies(e) # {}
    BY DEF AckedStored
  <2>1. Stored(e) => Copies(e) # {}
    BY DEF Stored, Copies
  <2>2. ASSUME NEW c \in Callers, op[c] = "write", result[c] = "nil", e = WriteOf(c, n[c])
        PROVE  Stored(e)
    BY <2>2 DEF HTTPInv, WriteInv
  <2>3. ASSUME NEW k \in DOMAIN outcome, outcome[k] = "nil", e \in ToSet(BatchEvents(k))
        PROVE  Stored(e)
    <3>1. PICK i \in 1..BatchSize : e = <<Worker, k, i>>
      BY <2>3 DEF ToSet, BatchEvents
    <3> QED
      BY <2>3, <3>1 DEF HTTPInv, BatchInv
  <2> QED
    BY <2>1, <2>2, <2>3 DEF Acked
<1> QED
  BY <1>1, HTTPInvariant, PTL

-----------------------------------------------------------------------------
(* Every request is sent once and stored once at most, and those of a batch  *)
(* without an error are stored in the order of the batch.                    *)

\* Every request that is on its way, with the server, or waited for.
Known == net \cup {stored[i] : i \in DOMAIN stored} \cup UNION {request[x] : x \in Clients}

\* The number of a request names it; the server has it once at most, and what it
\* has is no longer on its way.
IdInv ==
  /\ \A r \in Known : r.seq >= 1 /\ r.seq <= sent[r.by]
  /\ \A r, q \in Known : r.by = q.by /\ r.seq = q.seq => r = q
  /\ \A r \in net : ~Held(r)
  /\ \A i, j \in DOMAIN stored : stored[i] = stored[j] => i = j
  /\ \A x \in Clients : \A r \in request[x] : r.by = x /\ r.seq = sent[x]

\* A body for batch k.
BodyOf(events, k) ==
  IF json THEN events = {<<Worker, k, i>> : i \in 1..BatchSize}
          ELSE \E i \in 1..BatchSize : events = {<<Worker, k, i>>}

\* What a request carries.
PayloadInv ==
  \A r \in Known :
    /\ \A e \in r.events : Encodes(e)
    /\ r.by = Worker => \E k \in 1..batchNo : BodyOf(r.events, k)
    /\ r.by # Worker => \E k \in 0..n[r.by] : r.events = {WriteOf(r.by, k)}

\* Those that carry the event of the current write are as many as its attempts.
CallInv(c) ==
  \E base \in 0..sent[c] :
    /\ sent[c] <= base + tried[c] + (IF request[c] = {} THEN 0 ELSE 1)
    /\ \A r \in Known : r.by = c /\ WriteOf(c, n[c]) \in r.events => r.seq > base

\* Of one batch, the events of es come before those of fs.
Before(es, fs) ==
  \A k \in Nat, i, j \in 1..BatchSize : <<Worker, k, i>> \in es /\ <<Worker, k, j>> \in fs => i < j

\* The bodies still to be sent come after those that have been.
TodoInv ==
  /\ batchNo <= MaxBatches /\ Len(todo) <= BatchSize
  /\ \A p \in DOMAIN todo : BodyOf(todo[p], batchNo) /\ \A e \in todo[p] : Encodes(e)
  /\ \A p, q \in DOMAIN todo : p < q => Before(todo[p], todo[q])
  /\ \A r \in Known \ request[Worker] : r.by = Worker =>
       \A p \in DOMAIN todo : Before(r.events, todo[p])

SentInOrder ==
  \A r, q \in Known : r.by = Worker /\ q.by = Worker /\ r.seq < q.seq => Before(r.events, q.events)

\* The batch has met no error (so far).
Sound(k) ==
  \/ k \in DOMAIN outcome /\ outcome[k] = "nil"
  \/ k = batchNo /\ Len(outcome) = batchNo - 1 /\ ~batchErr

OfBatch(r, k) == r.by = Worker /\ BodyOf(r.events, k)

\* Nothing of such a batch is on its way but the request waited for, so that it
\* was stored in the order in which it was sent.
InStoreOrder(k) ==
  /\ \A r \in net : OfBatch(r, k) => r \in request[Worker]
  /\ \A a, b \in DOMAIN stored :
       OfBatch(stored[a], k) /\ OfBatch(stored[b], k) /\ stored[a].seq < stored[b].seq => a < b

StoredInOrder == \A k \in 1..batchNo : Sound(k) => InStoreOrder(k)

IntactInv ==
  /\ IdInv /\ PayloadInv /\ TodoInv /\ SentInOrder /\ StoredInOrder
  /\ \A c \in Callers : CallInv(c)

LEMMA KnownAre ==
  ASSUME WireInv
  PROVE  /\ Known \subseteq Requests /\ net \subseteq Known
         /\ \A x \in Clients : request[x] \subseteq Known
         /\ \A i \in DOMAIN stored : stored[i] \in Known
BY DEF WireInv, Known

LEMMA ByWhom == \A r \in Requests : r.by # Worker => r.by \in Callers
BY DEF Requests, Clients

\* A request carries events of one batch only, or the one event of a write.
LEMMA OneBatch ==
  ASSUME NEW events, NEW k, NEW j, BodyOf(events, k), BodyOf(events, j)
  PROVE  k = j
<1>1. 1 \in 1..BatchSize
  BY SizesAre
<1>2. ASSUME NEW i, NEW h, <<Worker, k, i>> = <<Worker, j, h>> PROVE k = j
  BY <1>2
<1>3. CASE json
  <2>1. <<Worker, k, 1>> \in events
    BY <1>1, <1>3 DEF BodyOf
  <2>2. PICK h \in 1..BatchSize : <<Worker, k, 1>> = <<Worker, j, h>>
    BY <1>3, <2>1 DEF BodyOf
  <2> QED
    BY <1>2, <2>2
<1>4. CASE ~json
  <2>1. PICK i \in 1..BatchSize : events = {<<Worker, k, i>>}
    BY <1>4 DEF BodyOf
  <2>2. PICK h \in 1..BatchSize : events = {<<Worker, j, h>>}
    BY <1>4 DEF BodyOf
  <2> QED
    BY <1>2, <2>1, <2>2
<1> QED
  BY <1>3, <1>4

LEMMA BodyCarries ==
  ASSUME NEW events, NEW k, BodyOf(events, k), NEW e \in events
  PROVE  \E i \in 1..BatchSize : e = <<Worker, k, i>>
BY DEF BodyOf

LEMMA Carried ==
  ASSUME NEW events, NEW k, BodyOf(events, k), NEW j, NEW i, <<Worker, j, i>> \in events
  PROVE  j = k /\ i \in 1..BatchSize
<1>1. PICK h \in 1..BatchSize : <<Worker, j, i>> = <<Worker, k, h>>
  BY BodyCarries
<1> QED
  BY <1>1

LEMMA NoWriteOfWorker ==
  ASSUME NEW c \in Callers, NEW k, NEW j, NEW i
  PROVE  WriteOf(c, k) # <<Worker, j, i>>
<1>1. <<c, k>>[1] = c /\ <<Worker, j, i>>[1] = Worker
  OBVIOUS
<1>2. c # Worker
  BY ClientsAre
<1> QED
  BY <1>1, <1>2 DEF WriteOf

-----------------------------------------------------------------------------
(* What a step leaves alone. *)

LEMMA PayloadStays ==
  ASSUME WireInv, PayloadInv, Known' \subseteq Known, UNCHANGED setup,
         batchNo \in Nat, batchNo' \in Nat, batchNo <= batchNo',
         \A c \in Callers : n[c] \in Nat /\ n'[c] \in Nat /\ n[c] <= n'[c]
  PROVE  PayloadInv'
<1>1. json' = json /\ spoilt' = spoilt
  BY DEF setup
<1>2. ASSUME NEW r \in Known'
      PROVE  /\ \A e \in r.events : Encodes(e)'
             /\ r.by = Worker => \E k \in 1..batchNo' : BodyOf(r.events, k)'
             /\ r.by # Worker => \E k \in 0..n'[r.by] : r.events = {WriteOf(r.by, k)}
  <2>1. \A e \in r.events : Encodes(e)'
    BY <1>1, <1>2 DEF PayloadInv, Encodes
  <2>2. ASSUME r.by = Worker PROVE \E k \in 1..batchNo' : BodyOf(r.events, k)'
    <3>1. PICK k \in 1..batchNo : BodyOf(r.events, k)
      BY <1>2, <2>2 DEF PayloadInv
    <3> QED
      BY <1>1, <3>1 DEF BodyOf
  <2>3. ASSUME r.by # Worker PROVE \E k \in 0..n'[r.by] : r.events = {WriteOf(r.by, k)}
    <3>1. r.by \in Callers
      BY <1>2, <2>3, KnownAre, ByWhom
    <3>2. PICK k \in 0..n[r.by] : r.events = {WriteOf(r.by, k)}
      BY <1>2, <2>3 DEF PayloadInv
    <3> QED
      BY <3>1, <3>2
  <2> QED
    BY <2>1, <2>2, <2>3
<1> QED
  BY <1>2 DEF PayloadInv

Waits(c) == IF request[c] = {} THEN 0 ELSE 1

LEMMA CallStays ==
  ASSUME NEW c \in Callers, CallInv(c), n'[c] = n[c], sent'[c] = sent[c],
         \A r \in Known' : r.by = c => r \in Known,
         sent[c] \in Nat, tried[c] \in Nat, tried'[c] \in Nat,
         tried[c] + Waits(c) <= tried'[c] + Waits(c)'
  PROVE  CallInv(c)'
<1>1. PICK base \in 0..sent[c] :
        /\ sent[c] <= base + tried[c] + Waits(c)
        /\ \A r \in Known : r.by = c /\ WriteOf(c, n[c]) \in r.events => r.seq > base
  BY DEF CallInv, Waits
<1>2. Waits(c) \in Nat /\ Waits(c)' \in Nat
  BY DEF Waits
<1>3. sent'[c] <= base + tried'[c] + Waits(c)'
  BY <1>1, <1>2
<1>4. \A r \in Known' : r.by = c /\ WriteOf(c, n'[c]) \in r.events => r.seq > base
  BY <1>1
<1> QED
  BY <1>3, <1>4 DEF CallInv, Waits

LEMMA TodoStays ==
  ASSUME TodoInv, UNCHANGED <<setup, batchNo, todo>>,
         \A r \in Known' \ request'[Worker] : r.by = Worker => r \in Known \ request[Worker]
  PROVE  TodoInv'
BY DEF TodoInv, Before, BodyOf, Encodes, setup

LEMMA SentStays ==
  ASSUME SentInOrder, \A r \in Known' : r.by = Worker => r \in Known
  PROVE  SentInOrder'
BY DEF SentInOrder, Before

LEMMA StoreStays ==
  ASSUME StoredInOrder, UNCHANGED <<setup, stored>>,
         \A k \in 1..batchNo' : Sound(k)' => k \in 1..batchNo /\ Sound(k),
         \A r \in net' : r.by = Worker => r \in net \/ r \in request'[Worker],
         request[Worker] \subseteq request'[Worker]
  PROVE  StoredInOrder'
<1>1. ASSUME NEW k \in 1..batchNo', Sound(k)' PROVE InStoreOrder(k)'
  <2>1. \A r : OfBatch(r, k)' <=> OfBatch(r, k)
    BY DEF OfBatch, BodyOf, setup
  <2>2. InStoreOrder(k)
    BY <1>1 DEF StoredInOrder
  <2>3. ASSUME NEW r \in net', OfBatch(r, k) PROVE r \in request'[Worker]
    BY <2>2, <2>3 DEF InStoreOrder, OfBatch
  <2>4. \A a, b \in DOMAIN stored' :
          OfBatch(stored'[a], k) /\ OfBatch(stored'[b], k) /\ stored'[a].seq < stored'[b].seq => a < b
    BY <2>2 DEF InStoreOrder
  <2> QED
    BY <2>1, <2>3, <2>4 DEF InStoreOrder
<1> QED
  BY <1>1 DEF StoredInOrder

\* The sink and its batches are left alone.
LEMMA WireAlone ==
  ASSUME HTTPInv, IntactInv, UNCHANGED <<setup, wire, batching>>
  PROVE  /\ Known' = Known /\ IdInv' /\ TodoInv' /\ SentInOrder' /\ StoredInOrder'
<1>1. UNCHANGED <<request, response, net, stored, sent, batchNo, todo, batchErr, outcome>>
  BY DEF wire, batching
<1>2. Known' = Known
  BY <1>1 DEF Known
<1>3. IdInv'
  BY <1>1, <1>2 DEF IntactInv, IdInv, Held
<1>4. TodoInv'
  BY <1>1, <1>2, TodoStays DEF IntactInv
<1>5. SentInOrder'
  BY <1>2, SentStays DEF IntactInv
<1>6. \A k : Sound(k)' => Sound(k)
  BY <1>1 DEF Sound
<1>7. StoredInOrder'
  BY <1>1, <1>6, StoreStays DEF IntactInv
<1> QED
  BY <1>2, <1>3, <1>4, <1>5, <1>7

Counted ==
  /\ batchNo \in Nat
  /\ \A c \in Callers : n[c] \in Nat /\ tried[c] \in Nat
  /\ \A x \in Clients : sent[x] \in Nat

LEMMA CountedAre == HTTPInv => Counted
<1> SUFFICES ASSUME HTTPInv PROVE Counted
  OBVIOUS
<1>1. MaxCalls \in Nat /\ MaxAttempts \in Nat
  BY Constants
<1>2. n \in [Callers -> 0..MaxCalls] /\ tried \in [Callers -> 0..MaxAttempts]
  BY DEF HTTPInv, RetryInv, TypeOK
<1>3. batchNo \in Nat /\ sent \in [Clients -> Nat]
  BY DEF HTTPInv, BatchInv, WireInv
<1> QED
  BY <1>1, <1>2, <1>3 DEF Counted

LEMMA CountedNext == HTTPInv' => Counted'
BY CountedAre, PTL

LEMMA IntactStart == HTTPInit => IntactInv
<1> SUFFICES ASSUME HTTPInit PROVE IntactInv
  OBVIOUS
<1>1. /\ net = {} /\ stored = <<>> /\ todo = <<>> /\ batchNo = 0 /\ outcome = <<>>
      /\ sent = [x \in Clients |-> 0] /\ tried = [c \in Callers |-> 0]
      /\ request = [x \in Clients |-> {}]
  BY DEF HTTPInit, Init
<1>2. Known = {}
  BY <1>1 DEF Known
<1>3. IdInv
  BY <1>1, <1>2 DEF IdInv
<1>4. PayloadInv /\ SentInOrder
  BY <1>2 DEF PayloadInv, SentInOrder
<1>5. TodoInv
  BY <1>1, <1>2, SizesAre DEF TodoInv
<1>6. StoredInOrder
  BY <1>1 DEF StoredInOrder
<1>7. ASSUME NEW c \in Callers PROVE CallInv(c)
  <2>1. sent[c] = 0 /\ tried[c] = 0 /\ request[c] = {}
    BY <1>1, ClientsAre
  <2> QED
    BY <1>2, <2>1 DEF CallInv
<1> QED
  BY <1>3, <1>4, <1>5, <1>6, <1>7 DEF IntactInv

-----------------------------------------------------------------------------
(* The loop around the sink. *)

\* A new write has sent nothing yet.
LEMMA CallBegins ==
  ASSUME HTTPInv, IntactInv, HTTPInv', NEW c \in Callers, Do(c), Known' = Known, sent' = sent
  PROVE  CallInv(c)'
<1>1. n'[c] = n[c] + 1 /\ n[c] \in Nat /\ tried'[c] \in Nat /\ sent[c] \in Nat
  BY CountedAre, CountedNext, ClientsAre DEF Counted, Do, HTTPInv, RetryInv, TypeOK
<1>2. ASSUME NEW r \in Known, r.by = c, WriteOf(c, n[c] + 1) \in r.events PROVE FALSE
  <2>1. PICK k \in 0..n[c] : r.events = {WriteOf(c, k)}
    BY <1>2, ClientsAre DEF IntactInv, PayloadInv
  <2>2. <<c, n[c] + 1>> = <<c, k>>
    BY <1>2, <2>1 DEF WriteOf
  <2> QED
    BY <1>1, <2>1, <2>2
<1>3. sent'[c] \in 0..sent'[c]
  BY <1>1
<1>4. sent'[c] <= sent'[c] + tried'[c] + Waits(c)'
  BY <1>1 DEF Waits
<1>5. \A r \in Known' : r.by = c /\ WriteOf(c, n'[c]) \in r.events => r.seq > sent'[c]
  BY <1>1, <1>2
<1> QED
  BY <1>3, <1>4, <1>5 DEF CallInv, Waits

LEMMA LoopIntact ==
  ASSUME HTTPInv, IntactInv, HTTPInv', NEW c \in Callers,
         Loop(c) \/ (Expire(c) /\ UNCHANGED <<setup, wire, batching>>)
  PROVE  IntactInv'
<1>1. UNCHANGED <<setup, wire, batching>>
  BY DEF Loop
<1>2. /\ Known' = Known /\ IdInv' /\ TodoInv' /\ SentInOrder' /\ StoredInOrder'
  BY <1>1, WireAlone
<1>3. UNCHANGED <<request, sent, batchNo>>
  BY <1>1 DEF wire, batching
<1>4. Counted /\ Counted'
  BY CountedAre, CountedNext
<1>5. n \in [Callers -> 0..MaxCalls] /\ tried \in [Callers -> 0..MaxAttempts]
  BY DEF HTTPInv, RetryInv, TypeOK
<1>6. ASSUME NEW d \in Callers
      PROVE  /\ n[d] <= n'[d]
             /\ ~(Do(c) /\ d = c) => n'[d] = n[d] /\ tried'[d] = tried[d]
  BY <1>4, <1>5 DEF Counted, Loop, Do, CheckContext, Pause, WakeUp, Interrupt, Tick, Expire
<1>7. PayloadInv'
  BY <1>1, <1>2, <1>3, <1>4, <1>6, PayloadStays DEF Counted, HTTPInv, IntactInv
<1>8. ASSUME NEW d \in Callers PROVE CallInv(d)'
  <2>1. CASE Do(c) /\ d = c
    BY <1>2, <1>3, <2>1, CallBegins
  <2>2. CASE ~(Do(c) /\ d = c)
    <3>1. Waits(d)' = Waits(d) /\ Waits(d) \in Nat
      BY <1>3 DEF Waits
    <3>2. /\ n'[d] = n[d] /\ tried'[d] = tried[d] /\ tried[d] \in Nat
          /\ sent[d] \in Nat /\ sent'[d] = sent[d] /\ CallInv(d)
      BY <1>3, <1>4, <1>6, <2>2, ClientsAre DEF Counted, IntactInv
    <3>3. tried[d] + Waits(d) <= tried'[d] + Waits(d)'
      BY <3>1, <3>2
    <3> QED
      BY <1>2, <3>2, <3>3, CallStays
  <2> QED
    BY <2>1, <2>2
<1> QED
  BY <1>2, <1>7, <1>8 DEF IntactInv

-----------------------------------------------------------------------------
(* The ways of a request. *)

NextRequest(x, events) == [by |-> x, seq |-> sent[x] + 1, events |-> events]

LEMMA SendIntact ==
  ASSUME HTTPInv, IntactInv, NEW x \in Clients, NEW events \in SUBSET Events, Send(x, events)
  PROVE  /\ IdInv' /\ Known' = Known \cup {NextRequest(x, events)}
         /\ \A r \in Known : r.by = x => r.seq < NextRequest(x, events).seq
         /\ net' = net \cup {NextRequest(x, events)}
         /\ request[x] = {} /\ request'[x] = {NextRequest(x, events)}
         /\ \A y \in Clients : y # x => request'[y] = request[y]
         /\ sent'[x] = sent[x] + 1 /\ \A y \in Clients : y # x => sent'[y] = sent[y]
         /\ stored' = stored
<1> DEFINE q == NextRequest(x, events)
<1>1. /\ request[x] = {} /\ request' = [request EXCEPT ![x] = {q}] /\ net' = net \cup {q}
      /\ sent' = [sent EXCEPT ![x] = @ + 1] /\ stored' = stored
  BY DEF Send, NextRequest
<1>2. q.by = x /\ q.seq = sent[x] + 1
  BY DEF NextRequest
<1> HIDE DEF q
<1>3. /\ request \in [Clients -> SUBSET Requests] /\ sent \in [Clients -> Nat] /\ WireInv
      /\ IdInv
  BY DEF HTTPInv, WireInv, IntactInv
<1>4. /\ request'[x] = {q} /\ \A y \in Clients : y # x => request'[y] = request[y]
  BY <1>1, <1>3
<1>5. sent'[x] = sent[x] + 1 /\ \A y \in Clients : y # x => sent'[y] = sent[y]
  BY <1>1, <1>3
<1>6. Known' = Known \cup {q}
  BY <1>1, <1>4 DEF Known
<1>7. \A r \in Known : r.seq \in Nat /\ r.by \in Clients /\ r.seq >= 1 /\ r.seq <= sent[r.by]
  BY <1>3, KnownAre DEF Requests, IdInv
<1>8. \A r \in Known : r.by = x => r.seq < q.seq
  BY <1>2, <1>3, <1>7
<1>9. q \notin Known
  BY <1>2, <1>3, <1>8
<1>10. \A r : Held(r)' <=> Held(r)
  BY <1>1 DEF Held
<1>11. ~Held(q)
  BY <1>3, <1>9, KnownAre DEF Held
<1>12. \A r \in Known' : r.seq >= 1 /\ r.seq <= sent'[r.by]
  <2>1. q.seq >= 1 /\ q.seq <= sent'[q.by]
    BY <1>2, <1>3, <1>5
  <2>2. ASSUME NEW r \in Known PROVE r.seq >= 1 /\ r.seq <= sent'[r.by]
    BY <1>3, <1>5, <1>7
  <2> QED
    BY <1>6, <2>1, <2>2
<1>13. \A r, p \in Known' : r.by = p.by /\ r.seq = p.seq => r = p
  <2>1. \A r \in Known : ~(r.by = q.by /\ r.seq = q.seq)
    BY <1>2, <1>3, <1>7, <1>8
  <2> QED
    BY <1>3, <1>6, <2>1 DEF IdInv
<1>14. \A r \in net' : ~Held(r)'
  BY <1>1, <1>3, <1>10, <1>11 DEF IdInv
<1>15. \A i, j \in DOMAIN stored' : stored'[i] = stored'[j] => i = j
  BY <1>1, <1>3 DEF IdInv
<1>16. \A y \in Clients : \A r \in request'[y] : r.by = y /\ r.seq = sent'[y]
  BY <1>2, <1>3, <1>4, <1>5 DEF IdInv
<1>17. IdInv'
  BY <1>12, <1>13, <1>14, <1>15, <1>16 DEF IdInv
<1> QED
  BY <1>1, <1>4, <1>5, <1>6, <1>8, <1>17 DEF q

LEMMA LeaveIntact ==
  ASSUME HTTPInv, IntactInv, NEW x \in Clients, Leave(x)
  PROVE  /\ IdInv' /\ Known' \subseteq Known /\ UNCHANGED <<net, stored, sent>>
         /\ request'[x] = {} /\ \A y \in Clients : y # x => request'[y] = request[y]
<1>1. /\ request' = [request EXCEPT ![x] = {}] /\ UNCHANGED <<net, stored, sent>>
  BY DEF Leave
<1>2. request \in [Clients -> SUBSET Requests] /\ IdInv
  BY DEF HTTPInv, WireInv, IntactInv
<1>3. request'[x] = {} /\ \A y \in Clients : y # x => request'[y] = request[y]
  BY <1>1, <1>2
<1>4. Known' \subseteq Known
  BY <1>1, <1>3 DEF Known
<1>5. \A r : Held(r)' <=> Held(r)
  BY <1>1 DEF Held
<1>6. IdInv'
  BY <1>1, <1>2, <1>3, <1>4, <1>5 DEF IdInv
<1> QED
  BY <1>1, <1>3, <1>4, <1>6

-----------------------------------------------------------------------------
(* The steps of a write. *)

\* An attempt that ends counts, for its own caller.
LEMMA AttemptCounts ==
  ASSUME HTTPInv, NEW c \in Callers, NEW ok, NEW accepted, Report(c, ok, accepted)
  PROVE  /\ n' = n /\ tried'[c] = tried[c] + 1
         /\ \A d \in Callers : d # c => tried'[d] = tried[d]
<1>1. tried' = [tried EXCEPT ![c] = @ + 1] /\ n' = n
  BY DEF Report, EndAttempt
<1>2. tried \in [Callers -> 0..MaxAttempts]
  BY DEF HTTPInv, RetryInv, TypeOK
<1> QED
  BY <1>1, <1>2

\* A step of writes leaves the payloads explained, and the other callers'.
LEMMA WritesStay ==
  ASSUME HTTPInv, IntactInv, HTTPInv', UNCHANGED <<setup, sent, n>>, batchNo <= batchNo',
         Known' \subseteq Known
  PROVE  /\ PayloadInv'
         /\ \A d \in Callers : tried[d] + Waits(d) <= tried'[d] + Waits(d)' => CallInv(d)'
<1>1. Counted /\ Counted'
  BY CountedAre, CountedNext
<1>2. PayloadInv'
  BY <1>1, PayloadStays DEF Counted, HTTPInv, IntactInv
<1>3. ASSUME NEW d \in Callers, tried[d] + Waits(d) <= tried'[d] + Waits(d)' PROVE CallInv(d)'
  <2>1. sent[d] \in Nat /\ tried[d] \in Nat /\ tried'[d] \in Nat /\ CallInv(d)
    BY <1>1, ClientsAre DEF Counted, IntactInv
  <2>2. n'[d] = n[d] /\ sent'[d] = sent[d]
    OBVIOUS
  <2> QED
    BY <1>3, <2>1, <2>2, CallStays
<1> QED
  BY <1>2, <1>3

LEMMA NoRequestIntact ==
  ASSUME HTTPInv, IntactInv, HTTPInv', NEW c \in Callers, EncodeFails(c) \/ NothingToDo(c)
  PROVE  IntactInv'
<1>1. UNCHANGED <<setup, wire, batching>>
  BY DEF EncodeFails, NothingToDo
<1>2. /\ Known' = Known /\ IdInv' /\ TodoInv' /\ SentInOrder' /\ StoredInOrder'
  BY <1>1, WireAlone
<1>3. UNCHANGED <<request, sent, batchNo>>
  BY <1>1 DEF wire, batching
<1>4. PICK ok, accepted : Report(c, ok, accepted)
  BY DEF EncodeFails, NothingToDo
<1>5. /\ n' = n /\ tried'[c] = tried[c] + 1
      /\ \A d \in Callers : d # c => tried'[d] = tried[d]
  BY <1>4, AttemptCounts
<1>6. ASSUME NEW d \in Callers PROVE tried[d] + Waits(d) <= tried'[d] + Waits(d)'
  <2>1. tried[d] \in Nat
    BY CountedAre DEF Counted
  <2>2. Waits(d)' = Waits(d) /\ Waits(d) \in Nat
    BY <1>3 DEF Waits
  <2> QED
    BY <1>5, <2>1, <2>2
<1>7. batchNo <= batchNo'
  BY <1>3, CountedAre DEF Counted
<1> QED
  BY <1>1, <1>2, <1>3, <1>5, <1>6, <1>7, WritesStay DEF IntactInv

LEMMA SendWriteIntact ==
  ASSUME HTTPInv, IntactInv, HTTPInv', NEW c \in Callers, SendWrite(c)
  PROVE  IntactInv'
<1> DEFINE e == WriteOf(c, n[c])
           q == NextRequest(c, {e})
<1>1. /\ Encodes(e) /\ Send(c, {e}) /\ UNCHANGED <<vars, setup, batching>>
  BY DEF SendWrite
<1>2. Counted /\ c \in Clients /\ c # Worker /\ {e} \in SUBSET Events
  BY CountedAre, ClientsAre DEF Counted, Events
<1>3. q.by = c /\ q.seq = sent[c] + 1 /\ q.events = {e}
  BY DEF NextRequest
<1>4. /\ IdInv' /\ Known' = Known \cup {q}
      /\ net' = net \cup {q} /\ request[c] = {} /\ request'[c] = {q}
      /\ \A y \in Clients : y # c => request'[y] = request[y]
      /\ sent'[c] = sent[c] + 1 /\ \A y \in Clients : y # c => sent'[y] = sent[y]
      /\ stored' = stored
      /\ \A r \in Known : r.by = c => r.seq < q.seq
  BY <1>1, <1>2, SendIntact
<1> HIDE DEF q
<1>5. /\ UNCHANGED <<n, tried, json, spoilt, batchNo, todo, batchErr, outcome>>
      /\ request'[Worker] = request[Worker]
  BY <1>1, <1>2, <1>4, ClientsAre DEF vars, setup, batching
<1>6. \A r \in Known' : r.by = Worker => r \in Known
  BY <1>2, <1>3, <1>4
<1>7. TodoInv'
  BY <1>1, <1>5, <1>6, TodoStays DEF IntactInv
<1>8. SentInOrder'
  BY <1>6, SentStays DEF IntactInv
<1>9. StoredInOrder'
  <2>1. \A k : Sound(k)' => Sound(k)
    BY <1>5 DEF Sound
  <2>2. \A r \in net' : r.by = Worker => r \in net
    BY <1>2, <1>3, <1>4
  <2> QED
    BY <1>1, <1>4, <1>5, <2>1, <2>2, StoreStays DEF IntactInv
<1>10. PayloadInv'
  <2>1. ASSUME NEW r \in Known
        PROVE  /\ \A f \in r.events : Encodes(f)'
               /\ r.by = Worker => \E k \in 1..batchNo' : BodyOf(r.events, k)'
               /\ r.by # Worker => \E k \in 0..n'[r.by] : r.events = {WriteOf(r.by, k)}
    BY <1>5 DEF IntactInv, PayloadInv, Encodes, BodyOf
  <2>2. /\ \A f \in q.events : Encodes(f)'
        /\ q.by # Worker
        /\ \E k \in 0..n'[q.by] : q.events = {WriteOf(q.by, k)}
    <3>1. n[c] \in 0..n'[c]
      BY <1>2, <1>5 DEF Counted
    <3> QED
      BY <1>1, <1>2, <1>3, <1>5, <3>1 DEF Encodes
  <2> QED
    BY <1>4, <2>1, <2>2 DEF PayloadInv
<1>11. ASSUME NEW d \in Callers PROVE CallInv(d)'
  <2>1. CASE d # c
    <3>1. \A r \in Known' : r.by = d => r \in Known
      BY <1>3, <1>4, <2>1
    <3>2. /\ n'[d] = n[d] /\ tried'[d] = tried[d] /\ tried[d] \in Nat /\ sent[d] \in Nat
          /\ sent'[d] = sent[d] /\ request'[d] = request[d] /\ CallInv(d)
      BY <1>2, <1>4, <1>5, <2>1, ClientsAre DEF Counted, IntactInv
    <3>3. Waits(d)' = Waits(d) /\ Waits(d) \in Nat
      BY <3>2 DEF Waits
    <3>4. tried[d] + Waits(d) <= tried'[d] + Waits(d)'
      BY <3>2, <3>3
    <3> QED
      BY <3>1, <3>2, <3>4, CallStays
  <2>2. CASE d = c
    <3>1. PICK base \in 0..sent[c] :
            /\ sent[c] <= base + tried[c] + 0
            /\ \A r \in Known : r.by = c /\ e \in r.events => r.seq > base
      BY <1>4 DEF IntactInv, CallInv
    <3>2. sent[c] \in Nat /\ tried[c] \in Nat /\ tried'[c] = tried[c] /\ n'[c] = n[c]
      BY <1>2, <1>5 DEF Counted
    <3>3. sent'[c] <= base + tried'[c] + 1 /\ base \in 0..sent'[c] /\ q.seq > base
      BY <1>3, <1>4, <3>1, <3>2
    <3>4. \A r \in Known' : r.by = c /\ e \in r.events => r.seq > base
      BY <1>4, <3>1, <3>3
    <3>5. WriteOf(c, n'[c]) = e /\ request'[c] # {}
      BY <1>4, <3>2
    <3> QED
      BY <2>2, <3>3, <3>4, <3>5 DEF CallInv
  <2> QED
    BY <2>1, <2>2
<1> QED
  BY <1>4, <1>7, <1>8, <1>9, <1>10, <1>11 DEF IntactInv

LEMMA WriteReturnsIntact ==
  ASSUME HTTPInv, IntactInv, HTTPInv', NEW c \in Callers, WriteReturns(c)
  PROVE  IntactInv'
<1>1. Leave(c) /\ UNCHANGED <<setup, batching>> /\ request[c] # {} /\ c # Worker
  BY ClientsAre DEF WriteReturns, Succeeds, Fails
<1>2. PICK ok, accepted : Report(c, ok, accepted)
  BY DEF WriteReturns
<1>3. /\ n' = n /\ tried'[c] = tried[c] + 1
      /\ \A d \in Callers : d # c => tried'[d] = tried[d]
  BY <1>2, AttemptCounts
<1>4. /\ IdInv' /\ Known' \subseteq Known /\ UNCHANGED <<net, stored, sent>>
      /\ request'[c] = {} /\ \A y \in Clients : y # c => request'[y] = request[y]
  BY <1>1, LeaveIntact, ClientsAre
<1>5. request'[Worker] = request[Worker] /\ UNCHANGED <<batchNo, todo, batchErr, outcome>>
  BY <1>1, <1>4, ClientsAre DEF batching
<1>6. TodoInv' /\ SentInOrder'
  BY <1>1, <1>4, <1>5, TodoStays, SentStays DEF IntactInv
<1>7. StoredInOrder'
  <2>1. \A k : Sound(k)' => Sound(k)
    BY <1>5 DEF Sound
  <2> QED
    BY <1>1, <1>4, <1>5, <2>1, StoreStays DEF IntactInv
<1>8. ASSUME NEW d \in Callers PROVE tried[d] + Waits(d) <= tried'[d] + Waits(d)'
  <2>1. tried[d] \in Nat
    BY CountedAre DEF Counted
  <2>2. CASE d = c
    BY <1>1, <1>3, <1>4, <2>1, <2>2 DEF Waits
  <2>3. CASE d # c
    <3>1. Waits(d)' = Waits(d) /\ Waits(d) \in Nat
      BY <1>4, <2>3, ClientsAre DEF Waits
    <3> QED
      BY <1>3, <2>1, <2>3, <3>1
  <2> QED
    BY <2>2, <2>3
<1>9. batchNo <= batchNo'
  BY <1>5, CountedAre DEF Counted
<1> QED
  BY <1>1, <1>3, <1>4, <1>6, <1>7, <1>8, <1>9, WritesStay DEF IntactInv

-----------------------------------------------------------------------------
(* The server. *)

LEMMA ArriveIntact ==
  ASSUME HTTPInv, IntactInv, HTTPInv', NEW q \in net, NEW accepts \in BOOLEAN,
         NEW status \in {"2xx", "other"}, Arrive(q, accepts, status)
  PROVE  IntactInv'
<1>1. /\ net' = net \ {q} /\ stored' = IF accepts THEN Append(stored, q) ELSE stored
      /\ UNCHANGED <<vars, setup, request, sent, batching>>
  BY DEF Arrive
<1>2. UNCHANGED <<n, tried, batchNo, todo, batchErr, outcome, json>>
  BY <1>1 DEF vars, batching, setup
<1>3. /\ WireInv /\ IdInv /\ q \in Known /\ q \in Requests /\ stored \in Seq(Requests)
      /\ Known \subseteq Requests
  BY KnownAre DEF HTTPInv, WireInv, IntactInv
<1>4. /\ Len(stored) \in Nat /\ DOMAIN stored = 1..Len(stored)
      /\ accepts => /\ DOMAIN stored' = 1..Len(stored) + 1 /\ stored'[Len(stored) + 1] = q
                    /\ \A i \in 1..Len(stored) : stored'[i] = stored[i]
      /\ ~accepts => stored' = stored
  BY <1>1, <1>3
<1>5. Known' \subseteq Known
  <2>1. \A i \in DOMAIN stored' : stored'[i] \in Known
    <3>1. \A i \in DOMAIN stored : stored[i] \in Known
      BY <1>3, KnownAre
    <3> QED
      BY <1>3, <1>4, <3>1
  <2> QED
    BY <1>1, <1>3, <2>1, KnownAre DEF Known
<1>6. ~Held(q)
  BY <1>3 DEF IdInv
<1>7. IdInv'
  <2>1. ASSUME NEW r \in net' PROVE ~Held(r)'
    <3>1. r # q /\ ~Held(r)
      BY <1>1, <1>3, <2>1 DEF IdInv
    <3>2. ASSUME NEW i \in DOMAIN stored' PROVE stored'[i] # r
      <4>1. CASE i \in DOMAIN stored /\ stored'[i] = stored[i]
        BY <3>1, <4>1 DEF Held
      <4>2. CASE accepts /\ i = Len(stored) + 1
        BY <1>4, <3>1, <4>2
      <4> QED
        BY <1>4, <3>2, <4>1, <4>2
    <3> QED
      BY <3>2 DEF Held
  <2>2. \A i, j \in DOMAIN stored' : stored'[i] = stored'[j] => i = j
    BY <1>3, <1>4, <1>6 DEF IdInv, Held
  <2> QED
    BY <1>1, <1>3, <1>5, <2>1, <2>2 DEF IdInv
<1>8. TodoInv' /\ SentInOrder'
  BY <1>1, <1>2, <1>5, TodoStays, SentStays DEF IntactInv
<1>9. ASSUME NEW k \in 1..batchNo', Sound(k)' PROVE InStoreOrder(k)'
  <2>1. \A r : OfBatch(r, k)' <=> OfBatch(r, k)
    BY <1>2 DEF OfBatch, BodyOf
  <2>2. InStoreOrder(k)
    BY <1>2, <1>9 DEF Sound, IntactInv, StoredInOrder
  <2>3. \A r \in net' : OfBatch(r, k) => r \in request'[Worker]
    BY <1>1, <2>2 DEF InStoreOrder
  <2>4. ASSUME NEW a \in DOMAIN stored', NEW b \in DOMAIN stored',
               OfBatch(stored'[a], k), OfBatch(stored'[b], k), stored'[a].seq < stored'[b].seq
        PROVE  a < b
    <3>1. CASE ~accepts
      BY <1>4, <2>2, <2>4, <3>1 DEF InStoreOrder
    <3>2. CASE accepts
      <4>1. CASE a \in 1..Len(stored) /\ b \in 1..Len(stored)
        BY <1>4, <2>2, <2>4, <3>2, <4>1 DEF InStoreOrder
      <4>2. CASE a = Len(stored) + 1
        <5>1. q \in request[Worker]
          BY <1>4, <2>2, <2>4, <3>2, <4>2 DEF InStoreOrder
        <5>2. q.seq = sent[Worker]
          BY <1>3, <5>1, ClientsAre DEF IdInv
        <5>3. stored'[b] \in Known /\ stored'[b].by = Worker
          BY <1>3, <1>4, <2>4, <3>2, KnownAre DEF OfBatch
        <5>4. stored'[b].seq <= sent[Worker] /\ stored'[b].seq \in Nat /\ sent[Worker] \in Nat
          BY <1>3, <5>3, ClientsAre DEF IdInv, Requests, WireInv
        <5> QED
          BY <1>4, <2>4, <3>2, <4>2, <5>2, <5>4
      <4>3. CASE a \in 1..Len(stored) /\ b = Len(stored) + 1
        BY <1>4, <4>3
      <4> QED
        BY <1>4, <3>2, <4>1, <4>2, <4>3
    <3> QED
      BY <3>1, <3>2
  <2> QED
    BY <2>1, <2>3, <2>4 DEF InStoreOrder
<1>10. ASSUME NEW d \in Callers PROVE tried[d] + Waits(d) <= tried'[d] + Waits(d)'
  <2>1. tried[d] \in Nat /\ Waits(d) \in Nat /\ Waits(d)' = Waits(d) /\ tried'[d] = tried[d]
    BY <1>1, <1>2, CountedAre DEF Counted, Waits
  <2> QED
    BY <2>1
<1>11. batchNo <= batchNo'
  BY <1>2, CountedAre DEF Counted
<1> QED
  BY <1>1, <1>2, <1>5, <1>7, <1>8, <1>9, <1>10, <1>11, WritesStay DEF IntactInv, StoredInOrder

-----------------------------------------------------------------------------
(* The steps of a batch. *)

\* A step that leaves the writes and what they have sent alone.
LEMMA CallsStay ==
  ASSUME HTTPInv, IntactInv, UNCHANGED vars, \A r \in Known' : r.by # Worker => r \in Known,
         \A x \in Clients : x # Worker => sent'[x] = sent[x] /\ request'[x] = request[x]
  PROVE  \A d \in Callers : CallInv(d)'
<1>1. UNCHANGED <<n, tried>> /\ Counted
  BY CountedAre DEF vars
<1>2. ASSUME NEW d \in Callers PROVE CallInv(d)'
  <2>1. d \in Clients /\ d # Worker
    BY ClientsAre
  <2>2. /\ n'[d] = n[d] /\ tried'[d] = tried[d] /\ tried[d] \in Nat /\ sent[d] \in Nat
        /\ sent'[d] = sent[d] /\ request'[d] = request[d] /\ CallInv(d)
    BY <1>1, <2>1 DEF Counted, IntactInv
  <2>3. Waits(d)' = Waits(d) /\ Waits(d) \in Nat
    BY <2>2 DEF Waits
  <2>4. tried[d] + Waits(d) <= tried'[d] + Waits(d)'
    BY <2>2, <2>3
  <2>5. \A r \in Known' : r.by = d => r \in Known
    BY <2>1
  <2> QED
    BY <2>2, <2>4, <2>5, CallStays
<1> QED
  BY <1>2

LEMMA BodiesInOrder ==
  ASSUME NEW k \in Nat
  PROVE  LET bodies == Bodies(BatchEvents(k)) IN
         /\ Len(bodies) <= BatchSize
         /\ \A p \in DOMAIN bodies : BodyOf(bodies[p], k)
         /\ \A p, q \in DOMAIN bodies : p < q => Before(bodies[p], bodies[q])
<1> DEFINE es == BatchEvents(k)
           b  == Bodies(es)
<1>1. DOMAIN es = 1..BatchSize /\ \A i \in 1..BatchSize : es[i] = <<Worker, k, i>>
  BY DEF BatchEvents
<1> HIDE DEF es
<1>2. CASE json
  <2>1. b = <<ToSet(es)>>
    BY <1>2 DEF Bodies
  <2>2. ToSet(es) = {<<Worker, k, i>> : i \in 1..BatchSize}
    BY <1>1 DEF ToSet
  <2> HIDE DEF b
  <2>3. Len(b) = 1 /\ DOMAIN b = {1} /\ b[1] = ToSet(es)
    BY <2>1
  <2>4. BodyOf(b[1], k)
    BY <1>2, <2>2, <2>3 DEF BodyOf
  <2> QED
    BY <2>3, <2>4, SizesAre DEF b, es
<1>3. CASE ~json
  <2>1. b = [i \in 1..BatchSize |-> {es[i]}]
    BY <1>1, <1>3 DEF Bodies
  <2> HIDE DEF b
  <2>2. DOMAIN b = 1..BatchSize /\ \A i \in 1..BatchSize : b[i] = {<<Worker, k, i>>}
    BY <1>1, <2>1
  <2>3. Len(b) = BatchSize
    BY <2>1, SizesAre
  <2>4. \A p \in DOMAIN b : BodyOf(b[p], k)
    BY <1>3, <2>2 DEF BodyOf
  <2>5. ASSUME NEW p \in DOMAIN b, NEW q \in DOMAIN b, p < q PROVE Before(b[p], b[q])
    <3>1. ASSUME NEW j, NEW i, NEW h, <<Worker, j, i>> = <<Worker, k, h>> PROVE i = h
      BY <3>1
    <3> QED
      BY <2>2, <2>5, <3>1 DEF Before
  <2> QED
    BY <2>3, <2>4, <2>5, SizesAre DEF b, es
<1> QED
  BY <1>2, <1>3

LEMMA WriteBatchIntact ==
  ASSUME HTTPInv, IntactInv, HTTPInv', WriteBatch
  PROVE  IntactInv'
<1> DEFINE k == batchNo'
           b == Bodies(BatchEvents(k))
<1>1. /\ batchNo < MaxBatches /\ Len(outcome) = batchNo /\ k = batchNo + 1
      /\ UNCHANGED <<vars, setup, wire, outcome>>
      /\ \/ todo' = b /\ \A i \in DOMAIN b : \A e \in b[i] : Encodes(e)
         \/ todo' = <<>>
  BY DEF WriteBatch
<1>2. UNCHANGED <<request, response, net, stored, sent, json, spoilt>>
  BY <1>1 DEF wire, setup
<1>3. batchNo \in Nat /\ k \in Nat /\ batchNo <= k /\ Counted /\ Counted'
  BY <1>1, CountedAre, CountedNext DEF Counted
<1>4. Known' = Known
  BY <1>2 DEF Known
<1>5. IdInv'
  BY <1>2, <1>4 DEF IntactInv, IdInv, Held
<1>6. PayloadInv' /\ \A d \in Callers : CallInv(d)'
  <2>1. n' = n
    BY <1>1 DEF vars
  <2> QED
    BY <1>1, <1>2, <1>3, <1>4, <2>1, PayloadStays, CallsStay DEF Counted, HTTPInv, IntactInv
<1>7. SentInOrder'
  BY <1>4, SentStays DEF IntactInv
<1>8. ASSUME NEW r \in Known, r.by = Worker PROVE \E j \in 1..batchNo : BodyOf(r.events, j)
  BY <1>8 DEF IntactInv, PayloadInv
<1>9. /\ Len(b) <= BatchSize
      /\ \A p \in DOMAIN b : BodyOf(b[p], k)
      /\ \A p, q \in DOMAIN b : p < q => Before(b[p], b[q])
  BY <1>3, BodiesInOrder
<1> HIDE DEF b
<1>10. TodoInv'
  <2>1. k <= MaxBatches /\ Len(todo') <= BatchSize
    BY <1>1, <1>3, <1>9, SizesAre
  <2>2. \A p \in DOMAIN todo' : BodyOf(todo'[p], k) /\ \A e \in todo'[p] : Encodes(e)
    BY <1>1, <1>9
  <2>3. \A p, q \in DOMAIN todo' : p < q => Before(todo'[p], todo'[q])
    BY <1>1, <1>9
  <2>4. ASSUME NEW r \in Known, r.by = Worker, NEW p \in DOMAIN todo'
        PROVE  Before(r.events, todo'[p])
    <3>1. PICK j \in 1..batchNo : BodyOf(r.events, j)
      BY <1>8, <2>4
    <3>2. ASSUME NEW h, NEW i, NEW g, <<Worker, h, i>> \in r.events, <<Worker, h, g>> \in todo'[p]
          PROVE  FALSE
      <4>1. h = j /\ h = k
        BY <2>2, <2>4, <3>1, <3>2, Carried
      <4> QED
        BY <1>1, <1>3, <3>1, <4>1
    <3> QED
      BY <3>2 DEF Before
  <2> QED
    BY <1>2, <1>4, <2>1, <2>2, <2>3, <2>4 DEF TodoInv, BodyOf, Encodes, Before
<1>11. ASSUME NEW j \in 1..k, Sound(j)' PROVE InStoreOrder(j)'
  <2>1. \A r : OfBatch(r, j)' <=> OfBatch(r, j)
    BY <1>2 DEF OfBatch, BodyOf
  <2>2. CASE j \in 1..batchNo
    <3>1. Sound(j)
      BY <1>1, <1>3, <1>11, <2>2 DEF Sound
    <3> QED
      BY <1>2, <2>1, <2>2, <3>1 DEF IntactInv, StoredInOrder, InStoreOrder
  <2>3. CASE j = k
    <3>1. ASSUME NEW r \in Known, OfBatch(r, j) PROVE FALSE
      <4>1. PICK i \in 1..batchNo : BodyOf(r.events, i)
        BY <1>8, <3>1 DEF OfBatch
      <4>2. i = j
        BY <3>1, <4>1, OneBatch DEF OfBatch
      <4> QED
        BY <1>1, <1>3, <2>3, <4>2
    <3>2. (\A r \in net : r \in Known) /\ \A i \in DOMAIN stored : stored[i] \in Known
      BY KnownAre DEF HTTPInv
    <3> QED
      BY <1>2, <2>1, <3>1, <3>2 DEF InStoreOrder
  <2> QED
    BY <1>1, <1>3, <2>2, <2>3
<1> QED
  BY <1>5, <1>6, <1>7, <1>10, <1>11 DEF IntactInv, StoredInOrder

LEMMA SendBodyIntact ==
  ASSUME HTTPInv, IntactInv, HTTPInv', SendBody
  PROVE  IntactInv'
<1> DEFINE q == NextRequest(Worker, Head(todo))
<1>1. /\ todo # <<>> /\ Send(Worker, Head(todo)) /\ UNCHANGED <<vars, setup, batching>>
  BY DEF SendBody
<1>2. /\ todo \in Seq(SUBSET Events) /\ Head(todo) \in SUBSET Events /\ Head(todo) = todo[1]
      /\ 1 \in DOMAIN todo
  BY <1>1 DEF HTTPInv, BatchInv
<1>3. q.by = Worker /\ q.seq = sent[Worker] + 1 /\ q.events = Head(todo)
  BY DEF NextRequest
<1>4. /\ IdInv' /\ Known' = Known \cup {q}
      /\ net' = net \cup {q} /\ request[Worker] = {} /\ request'[Worker] = {q}
      /\ \A y \in Clients : y # Worker => request'[y] = request[y]
      /\ \A y \in Clients : y # Worker => sent'[y] = sent[y]
      /\ stored' = stored
      /\ \A r \in Known : r.by = Worker => r.seq < q.seq
  BY <1>1, <1>2, ClientsAre, SendIntact
<1> HIDE DEF q
<1>5. UNCHANGED <<n, tried, json, spoilt, batchNo, todo, batchErr, outcome>>
  BY <1>1 DEF vars, setup, batching
<1>6. Len(outcome) = batchNo - 1 /\ batchNo \in Nat /\ Len(outcome) \in Nat
  BY <1>1 DEF HTTPInv, BatchInv
<1>7. BodyOf(Head(todo), batchNo) /\ \A e \in Head(todo) : Encodes(e)
  BY <1>2 DEF IntactInv, TodoInv
<1>8. TodoInv'
  BY <1>1, <1>4, <1>5, TodoStays DEF IntactInv
<1>9. \A d \in Callers : CallInv(d)'
  BY <1>1, <1>3, <1>4, CallsStay
<1>10. PayloadInv'
  <2>1. ASSUME NEW r \in Known
        PROVE  /\ \A f \in r.events : Encodes(f)'
               /\ r.by = Worker => \E k \in 1..batchNo' : BodyOf(r.events, k)'
               /\ r.by # Worker => \E k \in 0..n'[r.by] : r.events = {WriteOf(r.by, k)}
    BY <1>5 DEF IntactInv, PayloadInv, Encodes, BodyOf
  <2>2. ASSUME NEW p, p = q
        PROVE  /\ \A f \in p.events : Encodes(f)'
               /\ p.by = Worker /\ \E k \in 1..batchNo' : BodyOf(p.events, k)'
    <3>1. batchNo \in 1..batchNo'
      BY <1>5, <1>6
    <3>2. BodyOf(p.events, batchNo) /\ \A f \in p.events : Encodes(f)
      BY <1>3, <1>7, <2>2
    <3>3. \A k : BodyOf(p.events, k) => BodyOf(p.events, k)'
      BY <1>5 DEF BodyOf
    <3> QED
      BY <1>3, <1>5, <2>2, <3>1, <3>2, <3>3 DEF Encodes
  <2> QED
    BY <1>4, <2>1, <2>2 DEF PayloadInv
<1>11. SentInOrder'
  <2>1. ASSUME NEW r \in Known', NEW p \in Known', r.by = Worker, p.by = Worker, r.seq < p.seq
        PROVE  Before(r.events, p.events)
    <3>1. \A x \in Known : x.seq \in Nat
      BY KnownAre DEF HTTPInv, Requests
    <3>2. q.seq \in Nat
      BY <1>3, CountedAre, ClientsAre DEF Counted
    <3>3. CASE r \in Known /\ p \in Known
      BY <2>1, <3>3 DEF IntactInv, SentInOrder
    <3>4. CASE r \in Known /\ p = q
      BY <1>2, <1>3, <1>4, <2>1, <3>4 DEF IntactInv, TodoInv
    <3>5. CASE r = q /\ p \in Known
      BY <1>4, <2>1, <3>1, <3>2, <3>5
    <3>6. CASE r = q /\ p = q
      BY <2>1, <3>2, <3>6
    <3> QED
      BY <1>4, <3>3, <3>4, <3>5, <3>6
  <2> QED
    BY <2>1 DEF SentInOrder, Before
<1>12. StoredInOrder'
  <2>1. \A k : Sound(k)' => Sound(k)
    BY <1>5 DEF Sound
  <2> QED
    BY <1>1, <1>4, <1>5, <2>1, StoreStays DEF IntactInv
<1> QED
  BY <1>4, <1>8, <1>9, <1>10, <1>11, <1>12 DEF IntactInv

LEMMA BodyReturnsIntact ==
  ASSUME HTTPInv, IntactInv, HTTPInv', BodyReturns
  PROVE  IntactInv'
<1>1. /\ request[Worker] # {} /\ todo' = Tail(todo) /\ Leave(Worker)
      /\ (Succeeds(Worker) /\ batchErr' = batchErr) \/ batchErr' = TRUE
      /\ UNCHANGED <<vars, setup, batchNo, outcome>>
  BY DEF BodyReturns
<1>2. /\ IdInv' /\ Known' \subseteq Known /\ UNCHANGED <<net, stored, sent>>
      /\ request'[Worker] = {} /\ \A y \in Clients : y # Worker => request'[y] = request[y]
  BY <1>1, LeaveIntact, ClientsAre
<1>3. PICK q \in request[Worker] : todo # <<>> /\ q.events = Head(todo)
  BY <1>1 DEF HTTPInv, BatchInv
<1>4. /\ \A r \in request[Worker] : r = q
      /\ todo \in Seq(SUBSET Events) /\ batchNo \in Nat /\ Len(outcome) = batchNo - 1
      /\ outcome \in Seq({"nil", "failed"}) /\ batchErr \in BOOLEAN
  BY <1>3, ClientsAre DEF HTTPInv, WireInv, BatchInv
<1>5. /\ Head(todo) = todo[1] /\ 1 \in DOMAIN todo /\ Len(todo) \in Nat
      /\ Len(todo') = Len(todo) - 1 /\ DOMAIN todo' = 1..Len(todo) - 1
      /\ \A p \in DOMAIN todo' : p + 1 \in DOMAIN todo /\ todo'[p] = todo[p + 1]
  BY <1>1, <1>3, <1>4
<1>6. UNCHANGED <<n, tried, json, spoilt>>
  BY <1>1 DEF vars, setup
<1>7. PayloadInv' /\ \A d \in Callers : CallInv(d)'
  <2>1. Counted /\ Counted'
    BY CountedAre, CountedNext
  <2>2. batchNo <= batchNo'
    BY <1>1, <1>4
  <2> QED
    BY <1>1, <1>2, <1>6, <2>1, <2>2, PayloadStays, CallsStay DEF Counted, HTTPInv, IntactInv
<1>8. SentInOrder'
  BY <1>2, SentStays DEF IntactInv
<1>9. TodoInv'
  <2>1. TodoInv
    BY DEF IntactInv
  <2>2. batchNo' <= MaxBatches /\ Len(todo') <= BatchSize
    BY <1>1, <1>5, <2>1, SizesAre DEF TodoInv
  <2>3. \A p \in DOMAIN todo' : BodyOf(todo'[p], batchNo) /\ \A e \in todo'[p] : Encodes(e)
    BY <1>5, <2>1 DEF TodoInv
  <2>4. ASSUME NEW p \in DOMAIN todo', NEW j \in DOMAIN todo', p < j
        PROVE  Before(todo'[p], todo'[j])
    <3>1. p + 1 < j + 1
      BY <1>5, <2>4
    <3> QED
      BY <1>5, <2>1, <3>1 DEF TodoInv
  <2>5. ASSUME NEW r \in Known', r.by = Worker, NEW p \in DOMAIN todo'
        PROVE  Before(r.events, todo'[p])
    <3>1. CASE r \in request[Worker]
      <4>1. 1 < p + 1
        BY <1>5, <2>5
      <4> QED
        BY <1>3, <1>4, <1>5, <2>1, <3>1, <4>1 DEF TodoInv
    <3>2. CASE r \notin request[Worker]
      BY <1>2, <1>5, <2>1, <2>5, <3>2 DEF TodoInv
    <3> QED
      BY <3>1, <3>2
  <2> QED
    BY <1>1, <1>6, <2>2, <2>3, <2>4, <2>5 DEF TodoInv, BodyOf, Encodes, Before
<1>10. ASSUME NEW k \in 1..batchNo', Sound(k)' PROVE InStoreOrder(k)'
  <2>1. \A r : OfBatch(r, k)' <=> OfBatch(r, k)
    BY <1>6 DEF OfBatch, BodyOf
  <2>2. Sound(k) /\ (k = batchNo => ~batchErr')
    BY <1>1, <1>4, <1>10 DEF Sound
  <2>3. InStoreOrder(k)
    BY <1>1, <1>10, <2>2 DEF IntactInv, StoredInOrder
  <2>4. ASSUME NEW r \in net, OfBatch(r, k) PROVE FALSE
    <3>1. r = q
      BY <1>4, <2>3, <2>4 DEF InStoreOrder
    <3>2. BodyOf(q.events, batchNo)
      BY <1>3, <1>5 DEF IntactInv, TodoInv
    <3>3. k = batchNo
      BY <2>4, <3>1, <3>2, OneBatch DEF OfBatch
    <3>4. Held(q)
      BY <1>1, <2>2, <3>3, ClientsAre DEF Succeeds, Answered, HTTPInv, WireInv
    <3> QED
      BY <2>4, <3>1, <3>4 DEF IntactInv, IdInv
  <2> QED
    BY <1>2, <2>1, <2>3, <2>4 DEF InStoreOrder
<1> QED
  BY <1>2, <1>7, <1>8, <1>9, <1>10 DEF IntactInv, StoredInOrder

LEMMA BatchReturnsIntact ==
  ASSUME HTTPInv, IntactInv, HTTPInv', BatchReturns
  PROVE  IntactInv'
<1> DEFINE how == IF batchErr THEN "failed" ELSE "nil"
<1>1. /\ Len(outcome) = batchNo - 1 /\ todo = <<>> /\ outcome' = Append(outcome, how)
      /\ UNCHANGED <<vars, setup, wire, batchNo, todo, batchErr>>
  BY DEF BatchReturns
<1>2. batchNo \in Nat /\ outcome \in Seq({"nil", "failed"}) /\ batchErr \in BOOLEAN
  BY DEF HTTPInv, BatchInv
<1>3. how \in {"nil", "failed"} /\ (how = "nil" => ~batchErr)
  BY <1>2
<1> HIDE DEF how
<1>4. UNCHANGED <<request, response, net, stored, sent>>
  BY <1>1 DEF wire
<1>5. Known' = Known
  BY <1>4 DEF Known
<1>6. IdInv'
  BY <1>4, <1>5 DEF IntactInv, IdInv, Held
<1>7. TodoInv' /\ SentInOrder'
  BY <1>1, <1>4, <1>5, TodoStays, SentStays DEF IntactInv
<1>8. PayloadInv' /\ \A d \in Callers : CallInv(d)'
  <2>1. Counted /\ Counted' /\ n' = n
    BY <1>1, CountedAre, CountedNext DEF vars
  <2>2. batchNo <= batchNo'
    BY <1>1, <1>2
  <2> QED
    BY <1>1, <1>4, <1>5, <2>1, <2>2, PayloadStays, CallsStay DEF Counted, HTTPInv, IntactInv
<1>9. StoredInOrder'
  <2>1. /\ Len(outcome') = batchNo /\ DOMAIN outcome' = 1..batchNo /\ DOMAIN outcome = 1..batchNo - 1
        /\ outcome'[batchNo] = how
        /\ \A k \in DOMAIN outcome : outcome'[k] = outcome[k]
    BY <1>1, <1>2, <1>3
  <2>2. ASSUME NEW k \in 1..batchNo', Sound(k)' PROVE k \in 1..batchNo /\ Sound(k)
    BY <1>1, <1>2, <1>3, <2>1, <2>2 DEF Sound
  <2> QED
    BY <1>1, <1>4, <2>2, StoreStays DEF IntactInv
<1> QED
  BY <1>6, <1>7, <1>8, <1>9 DEF IntactInv

-----------------------------------------------------------------------------
LEMMA IntactStep == HTTPInv /\ HTTPInv' /\ IntactInv /\ [HTTPNext]_hvars => IntactInv'
<1> SUFFICES ASSUME HTTPInv, HTTPInv', IntactInv, [HTTPNext]_hvars PROVE IntactInv'
  OBVIOUS
<1>1. ASSUME NEW c \in Callers, Loop(c) \/ (Expire(c) /\ UNCHANGED <<setup, wire, batching>>)
      PROVE  IntactInv'
  BY <1>1, LoopIntact
<1>2. ASSUME NEW c \in Callers, HTTPWrite(c) PROVE IntactInv'
  BY <1>2, NoRequestIntact, SendWriteIntact, WriteReturnsIntact DEF HTTPWrite
<1>3. ASSUME HTTPBatch PROVE IntactInv'
  BY <1>3, WriteBatchIntact, SendBodyIntact, BodyReturnsIntact, BatchReturnsIntact DEF HTTPBatch
<1>4. ASSUME Server PROVE IntactInv'
  BY <1>4, ArriveIntact DEF Server
<1>5. ASSUME UNCHANGED hvars PROVE IntactInv'
  <2>1. UNCHANGED <<vars, setup, wire, batching>>
    BY <1>5 DEF hvars
  <2>2. /\ Known' = Known /\ IdInv' /\ TodoInv' /\ SentInOrder' /\ StoredInOrder'
    BY <2>1, WireAlone
  <2>3. Counted /\ Counted' /\ n' = n /\ UNCHANGED <<batchNo, request, sent>>
    BY <2>1, CountedAre, CountedNext DEF vars, batching, wire
  <2>4. batchNo <= batchNo'
    BY <2>3 DEF Counted
  <2>5. PayloadInv' /\ \A d \in Callers : CallInv(d)'
    BY <2>1, <2>2, <2>3, <2>4, PayloadStays, CallsStay DEF Counted, HTTPInv, IntactInv
  <2> QED
    BY <2>2, <2>5 DEF IntactInv
<1> QED
  BY <1>1, <1>2, <1>3, <1>4, <1>5 DEF HTTPNext

LEMMA IntactInvariant == HTTPSpec => []IntactInv
<1>1. HTTPInit /\ [][HTTPNext]_hvars /\ []HTTPInv => []IntactInv
  BY IntactStart, IntactStep, PTL
<1> QED
  BY <1>1, HTTPInvariant, PTL DEF HTTPSpec

-----------------------------------------------------------------------------
\* The encoder and what it accepts never change.
SetupInv == json \in BOOLEAN /\ spoilt \in SUBSET Unencodable

LEMMA SetupInvariant == HTTPSpec => []SetupInv
<1>1. HTTPInit => SetupInv
  BY DEF HTTPInit, SetupInv
<1>2. SetupInv /\ [HTTPNext]_hvars => SetupInv'
  <2> SUFFICES ASSUME SetupInv, [HTTPNext]_hvars PROVE UNCHANGED setup
    BY DEF SetupInv, setup
  <2>1. ASSUME NEW c \in Callers, Loop(c) \/ HTTPWrite(c) PROVE UNCHANGED setup
    BY <2>1 DEF Loop, HTTPWrite, EncodeFails, SendWrite, WriteReturns, NothingToDo
  <2>2. ASSUME HTTPBatch \/ Server PROVE UNCHANGED setup
    BY <2>2 DEF HTTPBatch, WriteBatch, SendBody, BodyReturns, BatchReturns, Server, Arrive
  <2> QED
    BY <2>1, <2>2 DEF HTTPNext, hvars
<1> QED
  BY <1>1, <1>2, PTL DEF HTTPSpec

LEMMA RequestSize ==
  ASSUME HTTPInv, NEW x \in Clients
  PROVE  Cardinality(request[x]) = Waits(x)
<1>1. CASE request[x] = {}
  BY <1>1, FS_EmptySet DEF Waits
<1>2. CASE request[x] # {}
  <2>1. PICK r : request[x] = {r}
    <3>1. PICK r \in request[x] : TRUE
      BY <1>2
    <3>2. request[x] = {r}
      BY <3>1 DEF HTTPInv, WireInv
    <3> QED
      BY <3>2
  <2> QED
    BY <1>2, <2>1, FS_Singleton DEF Waits
<1> QED
  BY <1>1, <1>2

\* The variables of the HTTP sink stay in their types; a client waits for one
\* request at a time, which is its own, and has an answer for that one only.
THEOREM HTTPTypeCorrect == HTTPSpec => []HTTPTypeOK
<1>1. HTTPInv /\ IntactInv /\ SetupInv => HTTPTypeOK
  <2> SUFFICES ASSUME HTTPInv, IntactInv, SetupInv PROVE HTTPTypeOK
    OBVIOUS
  <2>1. TypeOK /\ json \in BOOLEAN /\ spoilt \in SUBSET Unencodable
    BY DEF HTTPInv, RetryInv, SetupInv
  <2>2. ASSUME NEW x \in Clients
        PROVE  /\ \A r \in request[x] : r.by = x
               /\ Cardinality(request[x]) <= 1
               /\ response[x] # "none" => request[x] # {}
    BY RequestSize DEF Waits, HTTPInv, WireInv, IntactInv, IdInv
  <2>3. /\ response \in [Clients -> {"none", "2xx", "other"}]
        /\ \A c \in Callers : request[c] # {} => pc[c] = "calling"
    BY DEF HTTPInv, WireInv, WriteInv
  <2>4. /\ batchNo \in 0..MaxBatches /\ Len(outcome) \in {batchNo, batchNo - 1}
        /\ Len(todo) <= BatchSize /\ batchErr \in BOOLEAN
        /\ (request[Worker] # {} \/ todo # <<>>) => Len(outcome) = batchNo - 1
    BY SizesAre DEF HTTPInv, BatchInv, IntactInv, TodoInv
  <2> QED
    BY <2>1, <2>2, <2>3, <2>4 DEF HTTPTypeOK
<1> QED
  BY <1>1, HTTPInvariant, IntactInvariant, SetupInvariant, PTL

\* Who has sent what the server has.
LEMMA CopyOfWrite ==
  ASSUME HTTPInv, IntactInv, NEW c \in Callers, NEW k, NEW i \in Copies(WriteOf(c, k))
  PROVE  /\ i \in DOMAIN stored /\ stored[i] \in Known /\ stored[i].by = c
         /\ WriteOf(c, k) \in stored[i].events
<1>1. i \in DOMAIN stored /\ WriteOf(c, k) \in stored[i].events /\ stored[i] \in Known
  BY KnownAre DEF Copies, HTTPInv
<1>2. stored[i].by # Worker
  BY <1>1, BodyCarries, NoWriteOfWorker DEF IntactInv, PayloadInv
<1>3. PICK j : stored[i].events = {WriteOf(stored[i].by, j)}
  BY <1>1, <1>2 DEF IntactInv, PayloadInv
<1>4. <<c, k>> = <<stored[i].by, j>>
  BY <1>1, <1>3 DEF WriteOf
<1> QED
  BY <1>1, <1>4

LEMMA CopyOfBatch ==
  ASSUME HTTPInv, IntactInv, NEW k, NEW i, NEW a \in Copies(<<Worker, k, i>>)
  PROVE  /\ a \in DOMAIN stored /\ stored[a] \in Known /\ stored[a].by = Worker
         /\ <<Worker, k, i>> \in stored[a].events
         /\ k \in 1..batchNo /\ i \in 1..BatchSize /\ BodyOf(stored[a].events, k)
<1>1. a \in DOMAIN stored /\ <<Worker, k, i>> \in stored[a].events /\ stored[a] \in Known
  BY KnownAre DEF Copies, HTTPInv
<1>2. stored[a].by = Worker
  <2>1. CASE stored[a].by # Worker
    <3>1. stored[a].by \in Callers
      BY <1>1, <2>1, KnownAre, ByWhom DEF HTTPInv
    <3>2. PICK j : stored[a].events = {WriteOf(stored[a].by, j)}
      BY <1>1, <2>1 DEF IntactInv, PayloadInv
    <3> QED
      BY <1>1, <3>1, <3>2, NoWriteOfWorker
  <2> QED
    BY <2>1
<1>3. PICK j \in 1..batchNo : BodyOf(stored[a].events, j)
  BY <1>1, <1>2 DEF IntactInv, PayloadInv
<1>4. k = j /\ i \in 1..BatchSize
  BY <1>1, <1>3, Carried
<1> QED
  BY <1>1, <1>2, <1>3, <1>4

\* A write has no more copies with the server than it has made attempts, each on
\* a request of its own, and none if it cannot be encoded.
THEOREM CopiesExplainedCorrect == HTTPSpec => []CopiesExplained
<1>1. HTTPInv /\ IntactInv => CopiesExplained
  <2> SUFFICES ASSUME HTTPInv, IntactInv, NEW c \in Callers, op[c] = "write"
               PROVE  LET copies == Copies(WriteOf(c, n[c])) IN
                      /\ Cardinality(copies) <= tried[c] + Cardinality(request[c])
                      /\ \A i, j \in copies : i < j => stored[i].seq # stored[j].seq
                      /\ ~Encodes(WriteOf(c, n[c])) => copies = {} /\ result[c] # "nil"
    BY DEF CopiesExplained
  <2> DEFINE e == WriteOf(c, n[c])
             copies == Copies(e)
  <2>1. c \in Clients /\ sent[c] \in Nat /\ tried[c] \in Nat
    BY ClientsAre, CountedAre DEF Counted
  <2>2. ASSUME NEW i \in copies
        PROVE  /\ i \in DOMAIN stored /\ stored[i] \in Known /\ stored[i].by = c
               /\ e \in stored[i].events
    BY CopyOfWrite
  <2>3. PICK base \in 0..sent[c] :
          /\ sent[c] <= base + tried[c] + Waits(c)
          /\ \A r \in Known : r.by = c /\ e \in r.events => r.seq > base
    BY DEF IntactInv, CallInv, Waits
  <2>4. ~Encodes(e) => copies = {} /\ result[c] # "nil"
    <3>1. \A i \in copies : Encodes(e)
      BY <2>2 DEF IntactInv, PayloadInv
    <3>2. result[c] = "nil" => copies # {}
      BY DEF HTTPInv, WriteInv, Stored, Copies
    <3> HIDE DEF e, copies
    <3> QED
      BY <3>1, <3>2
  <2> HIDE DEF e, copies
  <2>5. \A i, j \in copies : stored[i].seq = stored[j].seq => i = j
    BY <2>2 DEF IntactInv, IdInv
  <2>6. \A i \in copies : stored[i].seq \in (base + 1)..sent[c]
    <3>1. ASSUME NEW i \in copies PROVE stored[i].seq \in (base + 1)..sent[c]
      <4>1. stored[i].seq \in Nat /\ stored[i].seq <= sent[c]
        BY <2>2, KnownAre DEF IntactInv, IdInv, HTTPInv, Requests
      <4>2. stored[i].seq > base
        BY <2>2, <2>3
      <4> QED
        BY <2>1, <2>3, <4>1, <4>2
    <3> QED
      BY <3>1
  <2>7. Cardinality(copies) <= sent[c] - base
    <3> DEFINE f == [i \in copies |-> stored[i].seq]
    <3>1. f \in Injection(copies, (base + 1)..sent[c])
      BY <2>5, <2>6 DEF Injection, IsInjective
    <3>2. /\ IsFiniteSet((base + 1)..sent[c])
          /\ Cardinality((base + 1)..sent[c])
               = IF base + 1 > sent[c] THEN 0 ELSE sent[c] - (base + 1) + 1
      <4>1. base + 1 \in Int /\ sent[c] \in Int
        BY <2>1, <2>3
      <4> QED
        BY <4>1, FS_Interval
    <3>3. /\ IsFiniteSet(copies) /\ Cardinality(copies) <= Cardinality((base + 1)..sent[c])
      BY <3>1, <3>2, FS_Injection
    <3>4. Cardinality(copies) \in Nat
      BY <3>3, FS_CardinalityType
    <3> QED
      BY <2>1, <3>2, <3>3, <3>4
  <2>8. Cardinality(copies) \in Nat
    <3>1. IsFiniteSet(DOMAIN stored) /\ copies \subseteq DOMAIN stored
      BY <2>2, FS_Interval DEF HTTPInv, WireInv
    <3> QED
      BY <3>1, FS_Subset, FS_CardinalityType
  <2>9. Waits(c) \in Nat /\ Cardinality(request[c]) = Waits(c)
    BY <2>1, RequestSize DEF Waits
  <2>10. Cardinality(copies) <= tried[c] + Cardinality(request[c])
    BY <2>1, <2>3, <2>7, <2>8, <2>9
  <2>11. \A i, j \in copies : i < j => stored[i].seq # stored[j].seq
    <3>1. \A i \in copies : i \in Nat
      BY <2>2 DEF HTTPInv, WireInv
    <3> QED
      BY <2>5, <3>1
  <2> QED
    BY <2>4, <2>10, <2>11 DEF copies, e
<1> QED
  BY <1>1, HTTPInvariant, IntactInvariant, PTL

LEMMA BatchEventsAre ==
  \A k : DOMAIN BatchEvents(k) = 1..BatchSize /\ \A i \in 1..BatchSize : BatchEvents(k)[i] = <<Worker, k, i>>
BY DEF BatchEvents

LEMMA OrderHolds ==
  ASSUME HTTPInv, IntactInv, NEW k \in DOMAIN outcome, outcome[k] = "nil"
  PROVE  InOrder(k)
<1>1. ASSUME NEW i \in 1..BatchSize, NEW j \in 1..BatchSize, i <= j,
             NEW a \in Copies(<<Worker, k, i>>), NEW b \in Copies(<<Worker, k, j>>)
      PROVE  a <= b /\ (i = j => a = b)
  <2>1. /\ a \in DOMAIN stored /\ stored[a] \in Known /\ stored[a].by = Worker
        /\ <<Worker, k, i>> \in stored[a].events /\ BodyOf(stored[a].events, k)
        /\ k \in 1..batchNo
    BY CopyOfBatch
  <2>2. /\ b \in DOMAIN stored /\ stored[b] \in Known /\ stored[b].by = Worker
        /\ <<Worker, k, j>> \in stored[b].events /\ BodyOf(stored[b].events, k)
    BY CopyOfBatch
  <2>3. /\ stored[a].seq \in Nat /\ stored[b].seq \in Nat /\ a \in Nat /\ b \in Nat
        /\ k \in Nat
    <3>1. stored \in Seq(Requests) /\ batchNo \in Nat /\ Known \subseteq Requests
      BY KnownAre DEF HTTPInv, WireInv, BatchInv
    <3>2. a \in Nat /\ b \in Nat
      BY <2>1, <2>2, <3>1
    <3>3. stored[a].seq \in Nat /\ stored[b].seq \in Nat
      BY <2>1, <2>2, <3>1 DEF Requests
    <3> QED
      BY <2>1, <3>1, <3>2, <3>3
  <2>4. ASSUME stored[a].seq = stored[b].seq PROVE a = b
    BY <2>1, <2>2, <2>4 DEF IntactInv, IdInv
  <2>5. ASSUME stored[a].seq < stored[b].seq PROVE i < j /\ a < b
    <3>1. i < j
      BY <2>1, <2>2, <2>3, <2>5 DEF IntactInv, SentInOrder, Before
    <3>2. InStoreOrder(k)
      BY <2>1 DEF IntactInv, StoredInOrder, Sound
    <3> QED
      BY <2>1, <2>2, <2>5, <3>1, <3>2 DEF InStoreOrder, OfBatch
  <2>6. ~(stored[b].seq < stored[a].seq)
    <3>1. ASSUME stored[b].seq < stored[a].seq PROVE j < i
      BY <2>1, <2>2, <2>3, <3>1 DEF IntactInv, SentInOrder, Before
    <3> QED
      BY <1>1, <3>1
  <2> QED
    BY <2>3, <2>4, <2>5, <2>6
<1>2. \A i \in 1..BatchSize : Copies(BatchEvents(k)[i]) = Copies(<<Worker, k, i>>)
  BY BatchEventsAre
<1>3. \A i, j \in 1..BatchSize :
        i <= j => \A a \in Copies(<<Worker, k, i>>), b \in Copies(<<Worker, k, j>>) :
                    a <= b /\ (i = j => a = b)
  BY <1>1
<1> QED
  BY <1>2, <1>3 DEF InOrder

LEMMA WholeHolds ==
  ASSUME HTTPInv, IntactInv, json, NEW k \in 1..batchNo
  PROVE  Whole(k)
<1> DEFINE events == {<<Worker, k, i>> : i \in 1..BatchSize}
           there  == {e \in events : Copies(e) # {}}
<1>1. ToSet(BatchEvents(k)) = events
  BY BatchEventsAre DEF ToSet
<1>2. ASSUME NEW e \in there PROVE there = events /\ \A f \in events : Encodes(f)
  <2>1. PICK i \in 1..BatchSize : e = <<Worker, k, i>>
    OBVIOUS
  <2>2. PICK a : a \in Copies(<<Worker, k, i>>)
    BY <2>1
  <2>3. a \in DOMAIN stored /\ stored[a] \in Known /\ BodyOf(stored[a].events, k)
    BY <2>2, CopyOfBatch
  <2>4. stored[a].events = events
    BY <2>3 DEF BodyOf
  <2>5. \A f \in events : Copies(f) # {}
    BY <2>3, <2>4 DEF Copies
  <2>6. \A f \in events : Encodes(f)
    BY <2>3, <2>4 DEF IntactInv, PayloadInv
  <2> QED
    BY <2>5, <2>6
<1>3. k \in DOMAIN outcome => outcome[k] \in {"nil", "failed"}
  BY DEF HTTPInv, BatchInv
<1>4. k \in DOMAIN outcome /\ outcome[k] = "nil" => <<Worker, k, 1>> \in there
  BY SizesAre DEF HTTPInv, BatchInv, Stored, Copies
<1>5. there \in {{}, events}
  BY <1>2
<1>6. ASSUME NEW e \in events, ~Encodes(e)
      PROVE  there = {} /\ (k \in DOMAIN outcome => outcome[k] = "failed")
  BY <1>2, <1>3, <1>4, <1>6
<1> QED
  BY <1>1, <1>5, <1>6 DEF Whole

\* An acknowledged batch is with the server in its order and without duplicates,
\* and a JSON batch as a whole or not at all.
THEOREM BatchesIntactCorrect == HTTPSpec => []BatchesIntact
<1>1. HTTPInv /\ IntactInv => BatchesIntact
  BY OrderHolds, WholeHolds DEF BatchesIntact
<1> QED
  BY <1>1, HTTPInvariant, IntactInvariant, PTL
=============================================================================
