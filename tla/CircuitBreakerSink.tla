------------------------- MODULE CircuitBreakerSink -------------------------
(***************************************************************************)
(* CircuitBreakerSink: a write asks beforeWrite for admission under the    *)
(* mutex, writes to the next sink without it, and takes the mutex again to *)
(* report the outcome.  So outcomes may arrive in another order than the   *)
(* admissions, and in another state than the one that admitted the write.  *)
(*                                                                         *)
(* Time only matters as what is left of the open window: openUntil is only *)
(* ever set to now + OpenTimeout, so remaining = openUntil - now, down to  *)
(* zero, says all that beforeWrite asks of it.                             *)
(***************************************************************************)
EXTENDS Naturals

CONSTANTS
  Writers,            \* goroutines that write
  FailureThreshold,   \* failures in a row that open the circuit
  OpenTimeout         \* length of the open window, in ticks of the clock

ASSUME BreakerAssumption ==
  /\ FailureThreshold \in Nat \ {0}
  /\ OpenTimeout \in Nat \ {0}

VARIABLES
  state,       \* of the circuit
  failures,    \* consecutiveFailures
  remaining,   \* openUntil - now, zero when it has passed
  pc,          \* a writer's place: idle, in next.Write, or back with its result
  healthy,     \* external: while true the next sink does not fail
  stale        \* history: writes in progress since before the last failure
               \* that opened the circuit or prolonged its window

cvars == <<state, failures, remaining, pc, healthy, stale>>

BreakerTypeOK ==
  /\ state \in {"closed", "open", "half_open"}
  /\ failures \in 0..FailureThreshold
  /\ remaining \in 0..OpenTimeout
  /\ pc \in [Writers -> {"idle", "writing", "ok", "failed"}]
  /\ healthy \in BOOLEAN
  /\ stale \in SUBSET Writers

BreakerInit ==
  /\ state = "closed" /\ failures = 0 /\ remaining = 0
  /\ pc = [w \in Writers |-> "idle"]
  /\ healthy \in BOOLEAN
  /\ stale = {}

\* The writers whose write to the next sink is not settled yet.
InProgress == {w \in Writers : pc[w] # "idle"}

\* Mutant of Admit: the window is not looked at.
AdmitEarly(w) ==
  /\ pc[w] = "idle"
  /\ state' = IF state = "open" THEN "half_open" ELSE state
  /\ pc' = [pc EXCEPT ![w] = "writing"]
  /\ UNCHANGED <<failures, remaining, healthy, stale>>

\* beforeWrite admits the write, opening the half-open phase if the window is
\* over, or refuses it with ErrCircuitOpen.
Admit(w) ==
  /\ pc[w] = "idle"
  /\ \/ /\ state = "open" /\ remaining = 0
        /\ state' = "half_open"
     \/ /\ state # "open"
        /\ UNCHANGED state
  /\ pc' = [pc EXCEPT ![w] = "writing"]
  /\ UNCHANGED <<failures, remaining, healthy, stale>>

\* External: the next sink takes the event, fails, or panics; a panic unwinds
\* through Write, which then reports no outcome.
NextWrites(w) ==
  /\ pc[w] = "writing"
  /\ \E result \in IF healthy THEN {"ok"} ELSE {"ok", "failed", "idle"} :
       /\ pc' = [pc EXCEPT ![w] = result]
       /\ stale' = IF result = "idle" THEN stale \ {w} ELSE stale
  /\ UNCHANGED <<state, failures, remaining, healthy>>

\* A settled write leaves the set of stale ones.
Settle(w) == pc' = [pc EXCEPT ![w] = "idle"]

\* Mutants of OnSuccess: the failures are not forgotten; the circuit stays half
\* open.
OnSuccessKeeps(w) ==
  /\ pc[w] = "ok"
  /\ state' = "closed"
  /\ Settle(w)
  /\ stale' = stale \ {w}
  /\ UNCHANGED <<failures, remaining, healthy>>

OnSuccessWaits(w) ==
  /\ pc[w] = "ok"
  /\ failures' = 0
  /\ Settle(w)
  /\ stale' = stale \ {w}
  /\ UNCHANGED <<state, remaining, healthy>>

OnSuccess(w) ==
  /\ pc[w] = "ok"
  /\ failures' = 0
  /\ state' = "closed"
  /\ Settle(w)
  /\ stale' = stale \ {w}
  /\ UNCHANGED <<remaining, healthy>>

\* The circuit opens, or stays open, for a whole window from now.
StartWindow(w) ==
  /\ state' = "open"
  /\ remaining' = OpenTimeout
  /\ stale' = InProgress \ {w}

OnFailure(w) ==
  /\ pc[w] = "failed"
  /\ Settle(w)
  /\ \/ /\ state = "half_open"
        /\ failures' = FailureThreshold
        /\ StartWindow(w)
     \/ /\ state = "closed"
        /\ failures' = failures + 1
        /\ IF failures + 1 >= FailureThreshold
             THEN StartWindow(w)
             ELSE UNCHANGED <<state, remaining>> /\ stale' = stale \ {w}
     \/ /\ state = "open"
        /\ StartWindow(w)
        /\ UNCHANGED failures
  /\ UNCHANGED healthy

\* Time passes; it may pass at any moment of a write.
Tick ==
  /\ remaining > 0
  /\ remaining' = remaining - 1
  /\ UNCHANGED <<state, failures, pc, healthy, stale>>

\* External: the next sink fails from now on, or recovers.
HealthChanges ==
  /\ healthy' = ~healthy
  /\ UNCHANGED <<state, failures, remaining, pc, stale>>

Write(w) == Admit(w) \/ NextWrites(w) \/ OnSuccess(w) \/ OnFailure(w)

BreakerNext == (\E w \in Writers : Write(w)) \/ Tick \/ HealthChanges

BreakerSpec == BreakerInit /\ [][BreakerNext]_cvars

\* There is always another write, the next sink returns, and the clock runs.
Fairness == WF_cvars(Tick) /\ \A w \in Writers : WF_cvars(Write(w))

FairBreakerSpec == BreakerSpec /\ Fairness

-----------------------------------------------------------------------------
\* The count of failures and the state agree: the circuit is closed exactly as
\* long as the threshold has not been reached, however late the outcomes of
\* concurrent writes arrive.  So a success, in whatever state it arrives, gives
\* the closed circuit its whole allowance of failures back.
ClosedBelowThreshold == state = "closed" <=> failures < FailureThreshold

\* The window of an open circuit is only ever cut short by a write that was in
\* progress when the window began.
EarlyCloseIsStale ==
  [][state = "open" /\ state' # "open" /\ remaining > 0
       => \E w \in stale : pc[w] = "ok" /\ pc'[w] = "idle"]_cvars

\* No write starts on the next sink before the window is over that the last
\* tripping failure opened.
WindowRespected ==
  [][\A w \in Writers : pc[w] = "idle" /\ pc'[w] = "writing" => remaining = 0]_cvars

\* While the circuit is open, the writes still in progress are those from
\* before the trip: nothing is admitted into an open circuit.
OpenAdmitsNothing == state = "open" => InProgress \subseteq stale

\* Once the next sink stays healthy the circuit closes and stays closed.
Recovers == <>[]healthy => <>[](state = "closed")

=============================================================================
