---------------------------- MODULE LogPipeline ----------------------------
(***************************************************************************)
(* A log call from the application to the sinks: the level check of the    *)
(* logger, the interceptors around the pipeline, the sampling processor, a *)
(* MetricsSink and a FanoutSink whose children stand behind level filters. *)
(* Nothing of it takes a lock; the goroutines meet in the atomic counters  *)
(* of the sampler and of the metrics, and a reader takes Snapshots of the  *)
(* latter one counter at a time.                                           *)
(*                                                                         *)
(* A call is a record; a set of calls records what became of them.  The    *)
(* sinks at the leaves and a user's processor are external: they succeed   *)
(* or show one of Faults.                                                  *)
(***************************************************************************)
EXTENDS Naturals, Sequences, FiniteSets

CONSTANTS
  Goroutines,     \* the application's goroutines
  LoggerLevel,    \* Options.Level
  MinLevel,       \* the sequence of the children's level filters
  Sampling,       \* SamplingOptions: for debug, info, warn (0, 1, 2)
  Interceptors,   \* a sequence over {"timing", "recover"}, outermost first
  Faults,         \* a subset of {"fail", "drop", "panic", "reject"}
  Logged,         \* bound of the model: the levels and messages that are logged
  MaxCalls,       \* bound of the model: calls a goroutine makes
  MaxLoads        \* bound of the model: 4 to have a Snapshot taken, 0 for none

UsedLevels == {e[1] : e \in Logged}
Messages   == {e[2] : e \in Logged}

Valid(level) == level <= 4   \* FatalLevel
ErrorLevel == 3

ASSUME PipelineAssumption ==
  /\ LoggerLevel \in 0..4
  /\ MinLevel \in Seq(0..4)
  /\ Sampling \in [0..2 -> Nat]
  /\ Interceptors \in Seq({"timing", "recover"})
  /\ Faults \subseteq {"fail", "drop", "panic", "reject"}
  /\ Logged # {} /\ \A e \in Logged : e[1] \in Nat
  /\ IsFiniteSet(Goroutines)
  /\ MaxCalls \in Nat /\ MaxLoads \in 0..4

VARIABLES
  pc, call, at,   \* a goroutine's place, its call, the child in its turn
  result,         \* what its call has met so far: a subset of {"fail", "drop", "panic"}
  counters,       \* of the sampler, by level and message: the call that stored
                  \* the counter of the key, a set of at most one
  tally,          \* what each of these counters has counted
  held,           \* the counter a goroutine has got from the map
  metrics,        \* the four counters of Metrics
  snap, loaded,   \* the Snapshot in progress, and how many counters it has
  outstanding,    \* history: writes without an outcome when it began
  answers,        \* history: what each child answered to each call
  sampled, kept,  \* history: what the sampler dropped, and what it let through
  panicked, rejected,   \* history: what else stopped a call short
  reported,       \* history: failures told to OnInternalError or the caller
  recovered,      \* history: panics told to onPanic
  observed,       \* history: calls the timing interceptor observed
  finished        \* history: calls that have ended

sampler == <<counters, tally, held>>
counts  == <<sampler, metrics, snap, loaded, outstanding>>
history == <<answers, sampled, kept, panicked, rejected,
             reported, recovered, observed, finished>>
vars    == <<pc, call, at, result, counts, history>>

Children == DOMAIN MinLevel
Kinds    == {"log", "control"}   \* Sync and Close take the same way
Call     == [kind : Kinds, by : Goroutines, n : 0..MaxCalls,
             level : UsedLevels, message : Messages]
Keys     == UsedLevels \X Messages
Counters == {"writes", "successes", "failures", "dropped"}

TypeOK ==
  /\ pc \in [Goroutines -> {"idle", "process", "count", "metrics", "children", "return"}]
  /\ call \in [Goroutines -> Call]
  /\ at \in [Goroutines -> 0..Len(MinLevel) + 1]
  /\ \A g \in Goroutines : pc[g] = "children" <=> at[g] > 0
  /\ result \in [Goroutines -> SUBSET {"fail", "drop", "panic"}]
  /\ counters \in [Keys -> SUBSET Call]
  /\ DOMAIN tally \subseteq Call /\ tally \in [DOMAIN tally -> Nat]
  /\ held \in [Goroutines -> SUBSET Call]
  /\ metrics \in [Counters -> Nat]
  /\ snap \in [Counters -> Nat] /\ loaded \in 0..4 /\ outstanding \in Nat
  /\ answers \subseteq Children \X Call \X {"nil", "fail", "drop"}
  /\ {sampled, kept, panicked, rejected, reported, recovered, observed, finished}
       \subseteq SUBSET Call

Init ==
  /\ pc = [g \in Goroutines |-> "idle"]
  /\ call = [g \in Goroutines |-> [kind |-> "log", by |-> g, n |-> 0,
                                   level   |-> CHOOSE l \in UsedLevels : TRUE,
                                   message |-> CHOOSE m \in Messages : TRUE]]
  /\ at = [g \in Goroutines |-> 0]
  /\ result = [g \in Goroutines |-> {}]
  /\ counters = [k \in Keys |-> {}] /\ tally = [c \in {} |-> 0]
  /\ held = [g \in Goroutines |-> {}]
  /\ metrics = [c \in Counters |-> 0]
  /\ snap = metrics /\ loaded = 0 /\ outstanding = 0
  /\ answers = {} /\ sampled = {} /\ kept = {} /\ panicked = {} /\ rejected = {}
  /\ reported = {} /\ recovered = {} /\ observed = {} /\ finished = {}

Goto(g, place) == pc' = [pc EXCEPT ![g] = place]

\* The handler returns, or panics, to the interceptors.
Leave(g, met) ==
  /\ Goto(g, "return")
  /\ result' = [result EXCEPT ![g] = met]
  /\ at' = [at EXCEPT ![g] = 0]

Finish(g) ==
  /\ Goto(g, "idle")
  /\ result' = [result EXCEPT ![g] = {}]
  /\ finished' = finished \cup {call[g]}

-----------------------------------------------------------------------------
NextCall(g, kind, l, m) ==
  [kind |-> kind, by |-> g, n |-> call[g].n + 1, level |-> l, message |-> m]

Enabled(level) == Valid(level) /\ level >= LoggerLevel

\* LogErr: a disabled level ends the call at once.
Log(g) ==
  /\ pc[g] = "idle" /\ call[g].n < MaxCalls
  /\ \E l \in UsedLevels, m \in Messages :
       /\ <<l, m>> \in Logged
       /\ call' = [call EXCEPT ![g] = NextCall(g, "log", l, m)]
       /\ Goto(g, IF Enabled(l) THEN "process" ELSE "idle")
  /\ UNCHANGED <<at, result, counts, history>>

\* External: a processor of the user's, ahead of the sampler, returns an error.
Reject(g) ==
  /\ pc[g] = "process" /\ "reject" \in Faults
  /\ rejected' = rejected \cup {call[g]}
  /\ Leave(g, {"fail"})
  /\ UNCHANGED <<call, counts, answers, sampled, kept, panicked, reported, recovered,
                 observed, finished>>

\* normalizeEvery and everyFor.
EveryFor(level) == IF level \in 0..2 /\ Sampling[level] # 0 THEN Sampling[level] ELSE 1

\* Mutant of Drops: the counter is taken for zero-based.
DropsFirst(n, every) == n % every # 0

Drops(n, every) == (n - 1) % every # 0

Key(c) == <<c.level, c.message>>

\* Mutant of LoadOrStore: a Load and a Store, so that a goroutine may replace the
\* counter that another one has stored meanwhile and not counted on yet.
LoadAndStore(g) ==
  LET key   == Key(call[g])
      found == {c \in counters[key] : tally[c] > 0}
      own   == IF found = {} THEN {call[g]} ELSE {}
  IN /\ held' = [held EXCEPT ![g] = found \cup own]
     /\ counters' = [counters EXCEPT ![key] = found \cup own]
     /\ tally' = [c \in DOMAIN tally \cup own |-> IF c \in own THEN 0 ELSE tally[c]]

\* The counter of the call's key, a new one if there is none.
LoadOrStore(g) ==
  LET key == Key(call[g])
      own == IF counters[key] = {} THEN {call[g]} ELSE {}
  IN /\ held' = [held EXCEPT ![g] = counters[key] \cup own]
     /\ counters' = [counters EXCEPT ![key] = counters[key] \cup own]
     /\ tally' = [c \in DOMAIN tally \cup own |-> IF c \in own THEN 0 ELSE tally[c]]

\* Process of the sampler: errors and unsampled levels have no counter; for the
\* others it looks the counter up in the map,
Sample(g) ==
  /\ pc[g] = "process"
  /\ LET l == call[g].level
     IN IF EveryFor(l) <= 1 \/ l >= ErrorLevel
          THEN Goto(g, "metrics") /\ UNCHANGED sampler
          ELSE Goto(g, "count") /\ LoadOrStore(g)
  /\ UNCHANGED <<call, at, result, metrics, snap, loaded, outstanding, history>>

\* and counts on the one it has got, which tells whether the event goes on.
Count(g) ==
  /\ pc[g] = "count"
  /\ \E c \in held[g] :
       /\ tally' = [tally EXCEPT ![c] = @ + 1]
       /\ IF Drops(tally[c] + 1, EveryFor(call[g].level))
            THEN /\ Leave(g, {"drop"})
                 /\ sampled' = sampled \cup {call[g]}
                 /\ UNCHANGED kept
            ELSE /\ Goto(g, "metrics")
                 /\ kept' = kept \cup {call[g]}
                 /\ UNCHANGED <<at, result, sampled>>
  /\ held' = [held EXCEPT ![g] = {}]
  /\ UNCHANGED <<call, counters, metrics, snap, loaded, outstanding, answers, panicked,
                 rejected, reported, recovered, observed, finished>>

Bump(c) == metrics' = [metrics EXCEPT ![c] = @ + 1]

\* MetricsSink.Write counts the write before it hands it on.
CountWrite(g) ==
  /\ pc[g] = "metrics"
  /\ Bump("writes")
  /\ Goto(g, "children")
  /\ at' = [at EXCEPT ![g] = 1]
  /\ UNCHANGED <<call, result, sampler, snap, loaded, outstanding, history>>

\* Sync and Close of the logger go to every child as they are.
Control(g) ==
  /\ pc[g] = "idle" /\ call[g].n < MaxCalls
  /\ call' = [call EXCEPT ![g] = NextCall(g, "control", call[g].level, call[g].message)]
  /\ Goto(g, "children")
  /\ at' = [at EXCEPT ![g] = 1]
  /\ UNCHANGED <<result, counts, history>>

\* What the level filter in front of child i lets through.
Passes(c, i) == c.kind = "log" => (Valid(c.level) /\ c.level >= MinLevel[i])

\* The fan-out's loop: the next child gets the call, if its filter lets it, and
\* an error of its does not keep the call from the others.
InTurn(g, i) == pc[g] = "children" /\ at[g] = i /\ i \in Children

GoOn(g, i) ==
  /\ at' = [at EXCEPT ![g] = i + 1]
  /\ UNCHANGED <<pc, call, counts, sampled, kept, panicked, rejected, reported,
                 recovered, observed, finished>>

ChildSkipped(g, i) ==
  /\ InTurn(g, i) /\ ~Passes(call[g], i)
  /\ GoOn(g, i)
  /\ UNCHANGED <<result, answers>>

\* Child i answers to the call; what is not nil joins the result.
Answers(g, i, met) ==
  /\ InTurn(g, i) /\ Passes(call[g], i)
  /\ answers' = answers \cup {<<i, call[g], met>>}
  /\ result' = [result EXCEPT ![g] = @ \cup ({met} \ {"nil"})]

\* Mutant of ChildServes: its nil replaces the errors of the children before it.
ChildServesForgets(g, i) ==
  /\ InTurn(g, i) /\ Passes(call[g], i)
  /\ answers' = answers \cup {<<i, call[g], "nil">>}
  /\ result' = [result EXCEPT ![g] = {}]
  /\ GoOn(g, i)

ChildServes(g, i) == Answers(g, i, "nil") /\ GoOn(g, i)

\* Mutant of ChildFails: the loop returns at the first error.
ChildFailsAll(g, i) ==
  "fail" \in Faults /\ Answers(g, i, "fail") /\ GoOn(g, Len(MinLevel))

ChildFails(g, i) == "fail" \in Faults /\ Answers(g, i, "fail") /\ GoOn(g, i)

\* A child that drops events itself says so with ErrDropEvent.
ChildDrops(g, i) ==
  /\ "drop" \in Faults /\ call[g].kind = "log"
  /\ Answers(g, i, "drop")
  /\ GoOn(g, i)

\* A panic takes the call away from the children that follow.
ChildPanics(g, i) ==
  /\ InTurn(g, i) /\ Passes(call[g], i) /\ "panic" \in Faults /\ call[g].kind = "log"
  /\ panicked' = panicked \cup {call[g]}
  /\ Leave(g, {"panic"})
  /\ UNCHANGED <<call, counts, answers, sampled, kept, rejected, reported, recovered,
                 observed, finished>>

Child(g) == \E i \in Children :
  \/ ChildSkipped(g, i) \/ ChildServes(g, i) \/ ChildFails(g, i)
  \/ ChildDrops(g, i) \/ ChildPanics(g, i)

\* An error that wraps ErrDropEvent, alone or joined with others.
IsDropEvent(met) == "drop" \in met

\* MetricsSink.Write counts the outcome of the joined error.
CountOutcome(g) ==
  /\ pc[g] = "children" /\ at[g] \notin Children /\ call[g].kind = "log"
  /\ Bump(IF IsDropEvent(result[g]) THEN "dropped"
          ELSE IF result[g] # {} THEN "failures" ELSE "successes")
  /\ Leave(g, result[g])
  /\ UNCHANGED <<call, sampler, snap, loaded, outstanding, history>>

\* A Sync or Close returns the joined error to its caller.
ReturnControl(g) ==
  /\ pc[g] = "children" /\ at[g] \notin Children /\ call[g].kind # "log"
  /\ reported' = IF result[g] # {} THEN reported \cup {call[g]} ELSE reported
  /\ Finish(g)
  /\ at' = [at EXCEPT ![g] = 0]
  /\ UNCHANGED <<call, counts, answers, sampled, kept, panicked, rejected, recovered,
                 observed>>

\* ChainInterceptors wraps the last interceptor of the list around the pipeline
\* first: interceptor k runs inside interceptor i.
Inside(k, i) == k > i

Recovering == \E i \in DOMAIN Interceptors : Interceptors[i] = "recover"

\* The end of LogErr.  A panic skips the observations up to the innermost
\* recovering interceptor, which turns it into a nil error; with none it goes
\* on to the application.
Return(g) ==
  /\ pc[g] = "return"
  /\ LET panics       == "panic" \in result[g]
         Recovered(i) == \E k \in DOMAIN Interceptors :
                           Inside(k, i) /\ Interceptors[k] = "recover"
     IN /\ observed' = IF \E i \in DOMAIN Interceptors :
                            Interceptors[i] = "timing" /\ (panics => Recovered(i))
                         THEN observed \cup {call[g]} ELSE observed
        /\ recovered' = IF panics /\ Recovering
                          THEN recovered \cup {call[g]} ELSE recovered
  /\ reported' = IF "fail" \in result[g] /\ ~IsDropEvent(result[g])
                   THEN reported \cup {call[g]} ELSE reported
  /\ Finish(g)
  /\ UNCHANGED <<call, at, counts, answers, sampled, kept, panicked, rejected>>

\* Writes that MetricsSink has counted and that are still in the children.
InFlight == {call[g] : g \in {h \in Goroutines : pc[h] = "children" /\ call[h].kind = "log"}}

\* Mutant of LoadOrder: the writes are loaded last.
LoadWritesLast == <<"successes", "failures", "dropped", "writes">>

\* Snapshot loads the counters one after the other.
LoadOrder == <<"writes", "successes", "failures", "dropped">>

Snapshot ==
  /\ loaded < MaxLoads
  /\ loaded' = loaded + 1
  /\ snap' = [snap EXCEPT ![LoadOrder[loaded + 1]] = metrics[LoadOrder[loaded + 1]]]
  /\ outstanding' = IF loaded = 0 THEN Cardinality(InFlight \cup panicked) ELSE outstanding
  /\ UNCHANGED <<pc, call, at, result, sampler, metrics, history>>

Step(g) ==
  \/ Log(g) \/ Control(g) \/ Reject(g) \/ Sample(g) \/ Count(g) \/ CountWrite(g)
  \/ Child(g) \/ CountOutcome(g) \/ ReturnControl(g) \/ Return(g)

Next == (\E g \in Goroutines : Step(g)) \/ Snapshot

Spec == Init /\ [][Next]_vars

-----------------------------------------------------------------------------
\* The fan-out isolates its children: a call that was neither sampled out,
\* rejected nor cut short by a panic has reached every child whose filter
\* admits it, once the call ends, whatever the other children answered; and no
\* child ever sees a call below its level or the logger's.
ChildrenServed ==
  /\ \A c \in finished \ (sampled \cup rejected \cup panicked) : \A i \in Children :
       Passes(c, i) => \E a \in answers : a[1] = i /\ a[2] = c
  /\ \A a \in answers : Passes(a[2], a[1])
  /\ \A a \in answers : a[2].kind = "log" => Enabled(a[2].level)

Failed(c)  == c \in rejected \/ \E i \in Children : <<i, c, "fail">> \in answers
Dropped(c) == \E i \in Children : <<i, c, "drop">> \in answers

\* A failure of a Sync or Close is returned to the caller, and nothing else is; one
\* of a log call reaches OnInternalError when its call has ended unless another child
\* drops the same event (the two errors are joined, and IsDropEvent takes the joined
\* error for a drop) or a later child panics; and a panic reaches onPanic if an
\* interceptor recovers, even when it is the processor's or another child's failure
\* that it hides.
FailuresReported ==
  \A c \in finished :
    /\ c \in reported <=> /\ Failed(c)
                          /\ c.kind = "log" => ~Dropped(c) /\ c \notin panicked
    /\ c \in recovered <=> c \in panicked /\ Recovering

\* "Internal pipeline failures are routed to OnInternalError" (README.md:380): what
\* is said there of every failed log call.
FailuresRouted == \A c \in finished : c.kind = "log" /\ Failed(c) => c \in reported

\* The counters of MetricsSink lose no write: each is counted by its outcome,
\* is still in the children, or ended in a panic.
MetricsBalance ==
  metrics["writes"] = metrics["successes"] + metrics["failures"] + metrics["dropped"]
    + Cardinality(InFlight \cup panicked)

\* Though a Snapshot is not atomic, it never shows more writes without an
\* outcome than there were when it began.
SnapshotInFlight ==
  loaded = 4 => snap["writes"] <= snap["successes"] + snap["failures"] + snap["dropped"]
                                    + outstanding

\* Of the calls with one level and message that the sampler has counted it lets
\* through one for every EveryFor(level) begun, in whatever way the goroutines
\* interleave between the lookup of the counter and the count: none is counted on
\* a counter of its own.  (README.md:275 promises every n-th event of the level;
\* that is so as long as one logger logs one message, for the key of a counter has
\* all three.)
SamplingKeeps ==
  \A key \in Keys :
    LET Of(calls) == Cardinality({c \in calls : Key(c) = key})
        every     == EveryFor(key[1])
    IN Of(kept) = (Of(kept \cup sampled) + every - 1) \div every

\* A timing interceptor outside a recovering one observes every call that ends,
\* those that panicked included.
TimingObserves == {c \in finished : c.kind = "log"} \subseteq observed

=============================================================================
