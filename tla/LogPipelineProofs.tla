------------------------- MODULE LogPipelineProofs -------------------------
(***************************************************************************)
(* Theorems about LogPipeline, for any number of goroutines and calls, any *)
(* fan-out, sampling and chain of interceptors.                            *)
(***************************************************************************)
EXTENDS LogPipeline, FiniteSetTheorems, SequenceTheorems, TLAPS

Places == {"idle", "process", "count", "metrics", "children", "return"}

LEMMA FirstChild ==
  0 \in 0..Len(MinLevel) + 1 /\ 1 \in 0..Len(MinLevel) + 1 /\ ~(0 > 0) /\ 1 > 0
BY PipelineAssumption, LenProperties

LEMMA Constants ==
  /\ MinLevel \in Seq(0..4) /\ Len(MinLevel) \in Nat /\ Children = 1..Len(MinLevel)
  /\ UsedLevels \subseteq Nat /\ UsedLevels # {} /\ Messages # {}
  /\ IsFiniteSet(Goroutines)
  /\ MaxCalls \in Nat /\ MaxLoads \in 0..4
BY PipelineAssumption, LenProperties DEF Children, UsedLevels, Messages

Stopped == sampled \cup rejected \cup panicked

Answered(c, i) == \E a \in answers : a[1] = i /\ a[2] = c

ServedAll(c) == \A i \in Children : Passes(c, i) => Answered(c, i)

\* Whether somebody is told of a call's failures and panics as he should be.
Told(c) ==
  /\ c \in reported <=> /\ Failed(c)
                        /\ c.kind = "log" => ~Dropped(c) /\ c \notin panicked
  /\ c \in recovered <=> c \in panicked /\ Recovering

\* A timing interceptor stands outside of one that recovers from panics, if any.
Times == \E i \in DOMAIN Interceptors :
           /\ Interceptors[i] = "timing"
           /\ "panic" \in Faults => \E k \in DOMAIN Interceptors :
                                      Inside(k, i) /\ Interceptors[k] = "recover"

\* What the history knows of a call in progress, place by place: until it ends nobody
\* is told of it, and what it has met is what the history says of it.
InProgress(g) ==
  /\ call[g].by = g
  /\ pc[g] \in {"process", "count", "metrics", "return"} => call[g].kind = "log"
  /\ pc[g] # "idle" => /\ call[g] \notin finished \cup reported \cup recovered
                       /\ call[g].kind = "log" => Enabled(call[g].level)
  /\ pc[g] \in {"idle", "process", "count", "metrics"} => result[g] = {}
  /\ "panic" \in result[g] => pc[g] = "return" /\ "panic" \in Faults
  /\ pc[g] \in {"process", "count"} => call[g] \notin kept
  /\ pc[g] \in {"process", "count", "metrics"} =>
       /\ call[g] \notin Stopped
       /\ \A a \in answers : a[2] # call[g]
  /\ pc[g] = "children" =>
       /\ call[g] \notin Stopped
       /\ \A i \in Children : i < at[g] /\ Passes(call[g], i) => Answered(call[g], i)
       /\ Failed(call[g]) <=> "fail" \in result[g]
       /\ Dropped(call[g]) <=> "drop" \in result[g]
       /\ call[g].kind # "log" => ~Dropped(call[g])
  /\ pc[g] = "return" =>
       /\ call[g] \in Stopped \/ ServedAll(call[g])
       /\ call[g] \in panicked <=> "panic" \in result[g]
       /\ "panic" \in result[g] => "fail" \notin result[g]
       /\ "panic" \notin result[g] => /\ Failed(call[g]) <=> "fail" \in result[g]
                                      /\ Failed(call[g]) => (Dropped(call[g])
                                                               <=> "drop" \in result[g])

\* The history is about calls that have been made.
Past == Stopped \cup kept \cup finished \cup reported \cup recovered

PastInv ==
  /\ IsFiniteSet(Stopped \cup kept)
  /\ \A c \in Past : c.n <= call[c.by].n
  /\ \A a \in answers : a[2].n <= call[a[2].by].n

AnswersInv == \A a \in answers :
  Passes(a[2], a[1]) /\ (a[2].kind = "log" => Enabled(a[2].level))

\* What is true of every call that has ended.
FinishedInv == \A c \in finished :
  /\ c \in Stopped \/ ServedAll(c)
  /\ Told(c)
  /\ Times /\ c.kind = "log" => c \in observed

PipelineInv ==
  /\ TypeOK /\ PastInv /\ AnswersInv /\ FinishedInv
  /\ \A g \in Goroutines : InProgress(g)

-----------------------------------------------------------------------------
\* A set grows by at most the call of g.
Grows(now, was, c) == was \subseteq now /\ now \subseteq was \cup {c}

\* A step of g in the middle of its call tells the history of that call only.
TellsOf(g) ==
  /\ pc[g] # "idle" /\ call' = call
  /\ answers \subseteq answers' /\ \A a \in answers' : a \in answers \/ a[2] = call[g]
  /\ Grows(sampled', sampled, call[g]) /\ Grows(kept', kept, call[g])
  /\ Grows(panicked', panicked, call[g]) /\ Grows(rejected', rejected, call[g])
  /\ Grows(reported', reported, call[g]) /\ Grows(recovered', recovered, call[g])
  /\ Grows(finished', finished, call[g])
  /\ observed \subseteq observed'
  /\ \A h \in Goroutines \ {g} : pc'[h] = pc[h] /\ at'[h] = at[h] /\ result'[h] = result[h]

\* What is known of another call stays as it is.
LEMMA HistoryStays ==
  ASSUME NEW g, TellsOf(g), NEW c, c # call[g]
  PROVE  /\ c \in Stopped' <=> c \in Stopped
         /\ c \in kept' <=> c \in kept
         /\ c \in panicked' <=> c \in panicked
         /\ c \in finished' <=> c \in finished
         /\ c \in reported' <=> c \in reported
         /\ c \in recovered' <=> c \in recovered
         /\ Failed(c)' <=> Failed(c)
         /\ Dropped(c)' <=> Dropped(c)
         /\ \A i \in Children : Answered(c, i)' <=> Answered(c, i)
         /\ ServedAll(c)' <=> ServedAll(c)
         /\ Told(c)' <=> Told(c)
<1>1. /\ c \in sampled' <=> c \in sampled
      /\ c \in kept' <=> c \in kept
      /\ c \in panicked' <=> c \in panicked
      /\ c \in rejected' <=> c \in rejected
      /\ c \in reported' <=> c \in reported
      /\ c \in recovered' <=> c \in recovered
      /\ c \in finished' <=> c \in finished
  BY DEF TellsOf, Grows
<1>2. \A i \in Children : /\ <<i, c, "fail">> \in answers' <=> <<i, c, "fail">> \in answers
                          /\ <<i, c, "drop">> \in answers' <=> <<i, c, "drop">> \in answers
  BY DEF TellsOf
<1>3. (Failed(c)' <=> Failed(c)) /\ (Dropped(c)' <=> Dropped(c))
  BY <1>1, <1>2 DEF Failed, Dropped
<1>4. \A i \in Children : Answered(c, i)' <=> Answered(c, i)
  BY DEF TellsOf, Answered
<1>5. ServedAll(c)' <=> ServedAll(c)
  BY <1>4 DEF ServedAll
<1>6. Told(c)' <=> Told(c)
  BY <1>1, <1>3 DEF Told
<1>7. c \in Stopped' <=> c \in Stopped
  BY <1>1 DEF Stopped
<1> QED
  BY <1>1, <1>3, <1>4, <1>5, <1>6, <1>7

LEMMA OthersKeep ==
  ASSUME PipelineInv, NEW g \in Goroutines, TellsOf(g), NEW h \in Goroutines, h # g
  PROVE  InProgress(h)'
<1>1. /\ InProgress(h) /\ call[h] # call[g] /\ call'[h] = call[h] /\ pc'[h] = pc[h]
      /\ at'[h] = at[h] /\ result'[h] = result[h]
  BY DEF PipelineInv, InProgress, TellsOf
<1>2. (\A a \in answers : a[2] # call[h]) => \A a \in answers' : a[2] # call[h]
  BY <1>1 DEF TellsOf
<1>3. /\ call[h] \in Stopped' <=> call[h] \in Stopped
      /\ call[h] \in kept' <=> call[h] \in kept
      /\ call[h] \in panicked' <=> call[h] \in panicked
      /\ call[h] \in finished' <=> call[h] \in finished
      /\ call[h] \in reported' <=> call[h] \in reported
      /\ call[h] \in recovered' <=> call[h] \in recovered
  BY <1>1, HistoryStays
<1>4. /\ Failed(call[h])' <=> Failed(call[h])
      /\ Dropped(call[h])' <=> Dropped(call[h])
      /\ \A i \in Children : Answered(call[h], i)' <=> Answered(call[h], i)
      /\ ServedAll(call[h])' <=> ServedAll(call[h])
  <2> DEFINE c == call[h]
  <2>1. /\ Failed(c)' <=> Failed(call[h])
        /\ Dropped(c)' <=> Dropped(call[h])
        /\ \A i \in Children : Answered(c, i)' <=> Answered(call[h], i)
        /\ ServedAll(c)' <=> ServedAll(call[h])
    <3>1. PICK d : d = call[h]
      OBVIOUS
    <3>2. d # call[g] /\ c' = d
      BY <1>1, <3>1
    <3>3. /\ Failed(d)' <=> Failed(d)
          /\ Dropped(d)' <=> Dropped(d)
          /\ \A i \in Children : Answered(d, i)' <=> Answered(d, i)
          /\ ServedAll(d)' <=> ServedAll(d)
      BY <3>2, HistoryStays
    <3> QED
      BY <3>1, <3>2, <3>3 DEF Failed, Dropped, Answered, ServedAll
  <2> QED
    BY <2>1
<1> QED
  BY <1>1, <1>2, <1>3, <1>4 DEF InProgress

LEMMA PastKeeps ==
  ASSUME PipelineInv, NEW g \in Goroutines, TellsOf(g) PROVE PastInv'
<1>1. call[g].by = g /\ call[g].n \in Nat /\ call' = call
  BY Constants DEF PipelineInv, InProgress, TellsOf, TypeOK, Call
<1>2. \A c \in Past' : c \in Past \/ c = call[g]
  BY DEF TellsOf, Grows, Past, Stopped
<1>3. \A a \in answers' : a \in answers \/ a[2] = call[g]
  BY DEF TellsOf
<1>4. /\ IsFiniteSet((Stopped \cup kept) \cup {call[g]})
      /\ (Stopped \cup kept)' \subseteq (Stopped \cup kept) \cup {call[g]}
  BY FS_AddElement DEF PipelineInv, PastInv, TellsOf, Grows, Stopped
<1>5. IsFiniteSet((Stopped \cup kept)')
  BY <1>4, FS_Subset
<1> QED
  BY <1>1, <1>2, <1>3, <1>5 DEF PipelineInv, PastInv

\* The calls that have ended before it are as they were.
LEMMA FinishedKeep ==
  ASSUME PipelineInv, NEW g \in Goroutines, TellsOf(g), NEW c \in finished
  PROVE  /\ c \in Stopped' \/ ServedAll(c)'
         /\ Told(c)'
         /\ Times /\ c.kind = "log" => c \in observed'
<1>1. c # call[g]
  BY DEF PipelineInv, InProgress, TellsOf
<1>2. /\ c \in Stopped' <=> c \in Stopped
      /\ ServedAll(c)' <=> ServedAll(c)
      /\ Told(c)' <=> Told(c)
  BY <1>1, HistoryStays
<1> QED
  BY <1>2 DEF TellsOf, PipelineInv, FinishedInv

\* So that a step of g has to account for its own call alone.
LEMMA StepOfOne ==
  ASSUME PipelineInv, NEW g \in Goroutines, TellsOf(g), TypeOK', InProgress(g)',
         AnswersInv', finished' = finished
  PROVE  PipelineInv'
<1>1. FinishedInv'
  BY FinishedKeep DEF FinishedInv
<1> QED
  BY <1>1, PastKeeps, OthersKeep DEF PipelineInv

-----------------------------------------------------------------------------
LEMMA PipelineInit == Init => PipelineInv
<1> SUFFICES ASSUME Init PROVE PipelineInv
  OBVIOUS
<1>1. (CHOOSE l \in UsedLevels : TRUE) \in UsedLevels /\ (CHOOSE m \in Messages : TRUE) \in Messages
  BY Constants
<1>2. call \in [Goroutines -> Call] /\ \A g \in Goroutines : call[g].by = g
  BY <1>1, Constants DEF Init, Call, Kinds
<1>3. TypeOK
  <2>1. DOMAIN tally \subseteq Call /\ tally \in [DOMAIN tally -> Nat]
    BY DEF Init
  <2>2. counters \in [Keys -> SUBSET Call] /\ held \in [Goroutines -> SUBSET Call]
    BY DEF Init
  <2> QED
    BY <1>2, <2>1, <2>2, Constants DEF Init, TypeOK
<1>4. PastInv /\ AnswersInv /\ FinishedInv
  BY FS_EmptySet DEF Init, Past, PastInv, AnswersInv, FinishedInv, Stopped
<1>5. \A g \in Goroutines : InProgress(g)
  BY <1>2 DEF Init, InProgress
<1> QED
  BY <1>3, <1>4, <1>5 DEF PipelineInv

\* A new call has no history yet.
LEMMA NewCall ==
  ASSUME PipelineInv, NEW g \in Goroutines, NEW c, c.by = g, c.n = call[g].n + 1
  PROVE  c \notin Past /\ \A a \in answers : a[2] # c
<1>1. call[g].n \in Nat /\ ~(c.n <= call[c.by].n)
  BY Constants DEF PipelineInv, TypeOK, Call
<1> QED
  BY <1>1 DEF PipelineInv, PastInv

LEMMA BeginKeeps ==
  ASSUME PipelineInv, NEW g \in Goroutines, Log(g) \/ Control(g)
  PROVE  PipelineInv'
<1> USE DEF PipelineInv, Goto
<1>1. /\ pc[g] = "idle" /\ UNCHANGED <<result, counts, history>>
      /\ call[g].by = g /\ call[g].n \in Nat /\ call[g].n < MaxCalls /\ result[g] = {}
  BY Constants DEF Log, Control, InProgress, TypeOK, Call
<1>2. PICK c \in Call :
        /\ c.by = g /\ c.n = call[g].n + 1 /\ call' = [call EXCEPT ![g] = c]
        /\ \/ /\ c.kind = "log" /\ at' = at
              /\ pc' = [pc EXCEPT ![g] = IF Enabled(c.level) THEN "process" ELSE "idle"]
           \/ /\ c.kind # "log" /\ at' = [at EXCEPT ![g] = 1]
              /\ pc' = [pc EXCEPT ![g] = "children"]
  <2>1. \A kind \in Kinds, l \in UsedLevels, m \in Messages : NextCall(g, kind, l, m) \in Call
    BY <1>1, Constants DEF Call, NextCall
  <2>2. call[g].level \in UsedLevels /\ call[g].message \in Messages
    BY DEF TypeOK, Call
  <2>3. CASE Log(g)
    <3>1. PICK l \in UsedLevels, m \in Messages :
            /\ call' = [call EXCEPT ![g] = NextCall(g, "log", l, m)]
            /\ pc' = [pc EXCEPT ![g] = IF Enabled(l) THEN "process" ELSE "idle"]
      BY <2>3 DEF Log
    <3> DEFINE d == NextCall(g, "log", l, m)
    <3>2. /\ d \in Call /\ d.by = g /\ d.n = call[g].n + 1 /\ d.kind = "log"
          /\ d.level = l /\ call' = [call EXCEPT ![g] = d] /\ at' = at
      BY <2>1, <2>3, <3>1 DEF Log, NextCall, Kinds
    <3> HIDE DEF d
    <3> QED
      BY <3>1, <3>2
  <2>4. CASE Control(g)
    <3> DEFINE d == NextCall(g, "control", call[g].level, call[g].message)
    <3>1. d \in Call
      BY <2>1, <2>2 DEF Kinds
    <3>2. /\ d.by = g /\ d.n = call[g].n + 1 /\ d.kind # "log"
          /\ call' = [call EXCEPT ![g] = d] /\ at' = [at EXCEPT ![g] = 1]
          /\ pc' = [pc EXCEPT ![g] = "children"]
      BY <2>4 DEF Control, NextCall
    <3> HIDE DEF d
    <3> QED
      BY <3>1, <3>2
  <2> QED
    BY <2>3, <2>4
<1>3. c \notin Past /\ \A a \in answers : a[2] # c
  BY <1>2, NewCall
<1>4. /\ call' \in [Goroutines -> Call] /\ call'[g] = c
      /\ pc'[g] = "process" => c.kind = "log" /\ Enabled(c.level)
      /\ pc'[g] = "children" => c.kind # "log" /\ at'[g] = 1
      /\ pc'[g] \in {"idle", "process", "children"}
      /\ \A h \in Goroutines \ {g} : call'[h] = call[h] /\ pc'[h] = pc[h] /\ at'[h] = at[h]
  BY <1>2 DEF TypeOK
<1>5. TypeOK'
  <2>1. pc' \in [Goroutines -> Places]
    BY <1>2 DEF TypeOK, Places
  <2>2. at' \in [Goroutines -> 0..Len(MinLevel) + 1]
    BY <1>2, FirstChild DEF TypeOK
  <2>3. \A h \in Goroutines : pc'[h] = "children" <=> at'[h] > 0
    BY <1>1, <1>2, <1>4 DEF TypeOK
  <2> QED
    BY <1>1, <1>4, <2>1, <2>2, <2>3 DEF TypeOK, Places, counts, sampler, history
<1>6. UNCHANGED <<Stopped, Past, answers, kept, panicked, finished, rejected, reported,
                  recovered, observed, result>>
  BY <1>1 DEF Stopped, Past, history
<1>7. PastInv'
  <2>1. \A h \in Goroutines : call[h].n <= call'[h].n
    BY <1>1, <1>2, <1>4, Constants DEF TypeOK, Call
  <2>2. \A d \in Past : d.by \in Goroutines /\ d.n \in Nat
    BY Constants DEF TypeOK, Stopped, Past, Call
  <2>3. \A a \in answers : a[2].by \in Goroutines /\ a[2].n \in Nat
    BY Constants DEF TypeOK, Call
  <2>4. \A h \in Goroutines : call[h].n \in Nat /\ call'[h].n \in Nat
    BY <1>4, Constants DEF TypeOK, Call
  <2> QED
    BY <1>6, <2>1, <2>2, <2>3, <2>4 DEF PastInv
<1>8. AnswersInv' /\ FinishedInv'
  BY <1>6 DEF AnswersInv, FinishedInv, Told, ServedAll, Answered, Failed, Dropped
<1>9. ASSUME NEW h \in Goroutines PROVE InProgress(h)'
  <2>1. CASE h = g
    <3>1. \A i \in Children : ~(i < 1)
      BY Constants
    <3>2. ~Failed(c) /\ ~Dropped(c)
      BY <1>3 DEF Failed, Dropped, Past, Stopped
    <3>3. ~Failed(c)' /\ ~Dropped(c)' /\ call'[g] = c
      BY <1>4, <1>6, <3>2 DEF Failed, Dropped
    <3>4. c \notin Stopped \cup kept \cup finished \cup reported \cup recovered
      BY <1>3 DEF Past
    <3> QED
      BY <1>1, <1>2, <1>3, <1>4, <1>6, <2>1, <3>1, <3>3, <3>4 DEF InProgress
  <2>2. CASE h # g
    <3>1. call'[h] = call[h] /\ pc'[h] = pc[h] /\ at'[h] = at[h] /\ result'[h] = result[h]
      BY <1>1, <1>4, <2>2
    <3>2. InProgress(h)
      OBVIOUS
    <3>3. /\ Failed(call[h])' <=> Failed(call[h])
          /\ Dropped(call[h])' <=> Dropped(call[h])
          /\ ServedAll(call[h])' <=> ServedAll(call[h])
          /\ \A i \in Children : Answered(call[h], i)' <=> Answered(call[h], i)
      BY <1>6, <3>1 DEF ServedAll, Answered, Failed, Dropped
    <3> QED
      BY <1>6, <3>1, <3>2, <3>3 DEF InProgress
  <2> QED
    BY <2>1, <2>2
<1> QED
  BY <1>5, <1>7, <1>8, <1>9

-----------------------------------------------------------------------------
\* Steps on the way to the children.
LEMMA RejectKeeps ==
  ASSUME PipelineInv, NEW g \in Goroutines, Reject(g) PROVE PipelineInv'
<1> USE DEF PipelineInv, Goto, Leave
<1>1. /\ pc[g] = "process" /\ rejected' = rejected \cup {call[g]}
      /\ UNCHANGED <<call, counts, answers, sampled, kept, panicked, reported, recovered,
                     observed, finished>>
      /\ pc' = [pc EXCEPT ![g] = "return"] /\ result' = [result EXCEPT ![g] = {"fail"}]
      /\ at' = [at EXCEPT ![g] = 0]
  BY DEF Reject
<1>2. TypeOK'
  <2>1. rejected' \subseteq Call
    BY <1>1 DEF TypeOK
  <2>2. at' \in [Goroutines -> 0..Len(MinLevel) + 1]
        /\ \A h \in Goroutines : pc'[h] = "children" <=> at'[h] > 0
    BY <1>1, FirstChild DEF TypeOK
  <2>3. pc' \in [Goroutines -> Places]
        /\ result' \in [Goroutines -> SUBSET {"fail", "drop", "panic"}]
    BY <1>1 DEF TypeOK, Places
  <2> QED
    BY <1>1, <2>1, <2>2, <2>3 DEF TypeOK, Places, counts, sampler
<1>3. TellsOf(g)
  BY <1>1 DEF TellsOf, Grows, TypeOK
<1>4. InProgress(g)'
  <2>1. InProgress(g) /\ ~Dropped(call[g])
    BY <1>1 DEF InProgress, Dropped
  <2>2. ~Dropped(call[g])' /\ Failed(call[g])'
    BY <1>1, <2>1 DEF Dropped, Failed
  <2>3. pc'[g] = "return" /\ result'[g] = {"fail"} /\ call'[g] = call[g]
    BY <1>1 DEF TypeOK
  <2> QED
    BY <1>1, <2>1, <2>2, <2>3 DEF InProgress, Stopped
<1>5. AnswersInv'
  BY <1>1 DEF AnswersInv
<1> QED
  BY <1>1, <1>2, <1>3, <1>4, <1>5, StepOfOne

\* The sampler's lookup of its counter stores the call at most.
LEMMA SamplerTypes ==
  ASSUME TypeOK, NEW g \in Goroutines, LoadOrStore(g)
  PROVE  /\ counters' \in [Keys -> SUBSET Call]
         /\ DOMAIN tally' \subseteq Call /\ tally' \in [DOMAIN tally' -> Nat]
         /\ held' \in [Goroutines -> SUBSET Call]
<1> DEFINE key == Key(call[g])
           own == IF counters[key] = {} THEN {call[g]} ELSE {}
<1>1. /\ held' = [held EXCEPT ![g] = counters[key] \cup own]
      /\ counters' = [counters EXCEPT ![key] = counters[key] \cup own]
      /\ tally' = [c \in DOMAIN tally \cup own |-> IF c \in own THEN 0 ELSE tally[c]]
  BY DEF LoadOrStore
<1>2. key \in Keys /\ call[g] \in Call
  BY DEF TypeOK, Call, Key, Keys
<1>3. counters[key] \subseteq Call
  BY <1>2 DEF TypeOK
<1>4. own \subseteq Call
  BY <1>2
<1> HIDE DEF key, own
<1>5. counters' \in [Keys -> SUBSET Call] /\ held' \in [Goroutines -> SUBSET Call]
  BY <1>1, <1>3, <1>4 DEF TypeOK
<1>6. DOMAIN tally' \subseteq Call /\ tally' \in [DOMAIN tally' -> Nat]
  <2>1. DOMAIN tally' = DOMAIN tally \cup own
    BY <1>1
  <2>2. \A c \in DOMAIN tally' : tally'[c] \in Nat
    BY <1>1, <2>1 DEF TypeOK
  <2>3. tally' = [c \in DOMAIN tally' |-> tally'[c]]
    BY <1>1, <2>1
  <2>4. DOMAIN tally' \subseteq Call
    BY <1>4, <2>1 DEF TypeOK
  <2> QED
    BY <2>2, <2>3, <2>4
<1> QED
  BY <1>5, <1>6

LEMMA SampleKeeps ==
  ASSUME PipelineInv, NEW g \in Goroutines, Sample(g) PROVE PipelineInv'
<1> USE DEF PipelineInv, Goto
<1>1. /\ pc[g] = "process"
      /\ UNCHANGED <<call, at, result, metrics, snap, loaded, outstanding, history>>
  BY DEF Sample
<1>2. \/ pc' = [pc EXCEPT ![g] = "metrics"] /\ UNCHANGED sampler
      \/ pc' = [pc EXCEPT ![g] = "count"] /\ LoadOrStore(g)
  BY DEF Sample
<1>3. TypeOK'
  <2>1. pc' \in [Goroutines -> Places]
        /\ \A h \in Goroutines : pc'[h] = "children" <=> at'[h] > 0
    BY <1>1, <1>2 DEF TypeOK, Places
  <2>2. /\ counters' \in [Keys -> SUBSET Call]
        /\ DOMAIN tally' \subseteq Call /\ tally' \in [DOMAIN tally' -> Nat]
        /\ held' \in [Goroutines -> SUBSET Call]
    <3>1. CASE UNCHANGED sampler
      BY <3>1 DEF sampler, TypeOK
    <3> QED
      BY <1>2, <3>1, SamplerTypes
  <2> QED
    BY <1>1, <2>1, <2>2 DEF TypeOK, Places, history
<1>4. TellsOf(g)
  BY <1>1, <1>2 DEF TellsOf, Grows, TypeOK, history
<1>5. InProgress(g)'
  <2>1. InProgress(g) /\ pc'[g] \in {"metrics", "count"}
    BY <1>1, <1>2 DEF TypeOK
  <2> QED
    BY <1>1, <2>1 DEF InProgress, Stopped, history
<1>6. AnswersInv'
  BY <1>1 DEF AnswersInv, history
<1> QED
  BY <1>1, <1>3, <1>4, <1>5, <1>6, StepOfOne DEF history

LEMMA CountKeeps ==
  ASSUME PipelineInv, NEW g \in Goroutines, Count(g) PROVE PipelineInv'
<1> USE DEF PipelineInv, Goto, Leave
<1>1. PICK c \in held[g] :
        /\ tally' = [tally EXCEPT ![c] = tally[c] + 1]
        /\ \/ /\ pc' = [pc EXCEPT ![g] = "metrics"] /\ UNCHANGED <<at, result, sampled>>
              /\ kept' = kept \cup {call[g]}
           \/ /\ pc' = [pc EXCEPT ![g] = "return"] /\ result' = [result EXCEPT ![g] = {"drop"}]
              /\ at' = [at EXCEPT ![g] = 0] /\ sampled' = sampled \cup {call[g]}
              /\ kept' = kept
  BY DEF Count
<1>2. /\ pc[g] = "count" /\ held' = [held EXCEPT ![g] = {}]
      /\ UNCHANGED <<call, counters, metrics, snap, loaded, outstanding, answers, panicked,
                     rejected, reported, recovered, observed, finished>>
  BY DEF Count
<1>3. TypeOK'
  <2>1. pc' \in [Goroutines -> Places]
    BY <1>1 DEF TypeOK, Places
  <2>2. at' \in [Goroutines -> 0..Len(MinLevel) + 1]
    BY <1>1, FirstChild DEF TypeOK
  <2>3. \A h \in Goroutines : pc'[h] = "children" <=> at'[h] > 0
    BY <1>1, <1>2 DEF TypeOK
  <2>4. /\ result' \in [Goroutines -> SUBSET {"fail", "drop", "panic"}]
        /\ sampled' \subseteq Call /\ kept' \subseteq Call
    <3>1. call[g] \in Call /\ sampled \subseteq Call /\ kept \subseteq Call
      BY DEF TypeOK
    <3>2. sampled' \subseteq Call /\ kept' \subseteq Call
      BY <1>1, <3>1
    <3>3. result' \in [Goroutines -> SUBSET {"fail", "drop", "panic"}]
      <4>1. result' = result \/ result' = [result EXCEPT ![g] = {"drop"}]
        BY <1>1
      <4> QED
        BY <4>1 DEF TypeOK
    <3> QED
      BY <3>2, <3>3
  <2>5. DOMAIN tally' \subseteq Call /\ tally' \in [DOMAIN tally' -> Nat]
    <3>1. DOMAIN tally' = DOMAIN tally /\ tally \in [DOMAIN tally -> Nat]
      BY <1>1 DEF TypeOK
    <3>2. \A d \in DOMAIN tally : tally'[d] \in Nat
      BY <1>1, <3>1
    <3>3. tally' = [d \in DOMAIN tally |-> tally'[d]]
      BY <1>1
    <3> QED
      BY <3>1, <3>2, <3>3 DEF TypeOK
  <2>6. held' \in [Goroutines -> SUBSET Call]
    BY <1>2 DEF TypeOK
  <2> QED
    BY <1>2, <2>1, <2>2, <2>3, <2>4, <2>5, <2>6 DEF TypeOK, Places
<1>4. TellsOf(g)
  BY <1>1, <1>2 DEF TellsOf, Grows, TypeOK
<1>5. InProgress(g)'
  <2>1. InProgress(g) /\ ~Failed(call[g])
    BY <1>2 DEF InProgress, Failed, Stopped
  <2>2. ~Failed(call[g])' /\ call'[g] = call[g]
    BY <1>2, <2>1 DEF Failed
  <2>3. CASE pc' = [pc EXCEPT ![g] = "metrics"] /\ UNCHANGED <<at, result, sampled>>
    <3>1. pc'[g] = "metrics" /\ result'[g] = result[g] /\ Stopped' = Stopped
      BY <1>2, <2>3 DEF TypeOK, Stopped
    <3> QED
      BY <1>2, <2>1, <2>2, <3>1 DEF InProgress
  <2>4. CASE /\ pc' = [pc EXCEPT ![g] = "return"] /\ result' = [result EXCEPT ![g] = {"drop"}]
             /\ sampled' = sampled \cup {call[g]}
    <3>1. pc'[g] = "return" /\ result'[g] = {"drop"} /\ call[g] \in Stopped'
      BY <2>4 DEF TypeOK, Stopped
    <3>2. call[g] \notin panicked'
      BY <1>2, <2>1 DEF InProgress, Stopped
    <3> QED
      BY <1>2, <2>1, <2>2, <3>1, <3>2 DEF InProgress
  <2> QED
    BY <1>1, <2>3, <2>4
<1>6. AnswersInv'
  BY <1>2 DEF AnswersInv
<1> QED
  BY <1>2, <1>3, <1>4, <1>5, <1>6, StepOfOne

LEMMA CountWriteKeeps ==
  ASSUME PipelineInv, NEW g \in Goroutines, CountWrite(g) PROVE PipelineInv'
<1> USE DEF PipelineInv, Goto
<1>1. /\ pc[g] = "metrics" /\ metrics' = [metrics EXCEPT !["writes"] = @ + 1]
      /\ UNCHANGED <<call, result, sampler, snap, loaded, outstanding, history>>
      /\ pc' = [pc EXCEPT ![g] = "children"] /\ at' = [at EXCEPT ![g] = 1]
  BY DEF CountWrite, Bump
<1>2. TypeOK'
  <2>1. metrics' \in [Counters -> Nat]
    BY <1>1 DEF TypeOK, Counters
  <2>2. at' \in [Goroutines -> 0..Len(MinLevel) + 1]
        /\ \A h \in Goroutines : pc'[h] = "children" <=> at'[h] > 0
    BY <1>1, FirstChild DEF TypeOK
  <2>3. pc' \in [Goroutines -> Places]
    BY <1>1 DEF TypeOK, Places
  <2> QED
    BY <1>1, <2>1, <2>2, <2>3 DEF TypeOK, Places, sampler, history
<1>3. TellsOf(g)
  BY <1>1 DEF TellsOf, Grows, TypeOK, history
<1>4. InProgress(g)'
  <2>1. \A i \in Children : ~(i < 1)
    BY Constants
  <2>2. InProgress(g) /\ ~Failed(call[g]) /\ ~Dropped(call[g])
    BY <1>1 DEF InProgress, Failed, Dropped, Stopped
  <2>3. ~Failed(call[g])' /\ ~Dropped(call[g])' /\ call'[g] = call[g]
    BY <1>1, <2>2 DEF Failed, Dropped, history
  <2>4. pc'[g] = "children" /\ at'[g] = 1 /\ result'[g] = result[g]
    BY <1>1 DEF TypeOK
  <2> QED
    BY <1>1, <2>1, <2>2, <2>3, <2>4 DEF InProgress, Stopped, history
<1>5. AnswersInv'
  BY <1>1 DEF AnswersInv, history
<1> QED
  BY <1>1, <1>2, <1>3, <1>4, <1>5, StepOfOne DEF history

-----------------------------------------------------------------------------
\* A child answers, or its filter keeps the call from it.
LEMMA ChildKeeps ==
  ASSUME PipelineInv, NEW g \in Goroutines, Child(g) PROVE PipelineInv'
<1> USE DEF PipelineInv
<1>1. PICK i \in Children : \/ ChildSkipped(g, i) \/ ChildServes(g, i) \/ ChildFails(g, i)
                           \/ ChildDrops(g, i) \/ ChildPanics(g, i)
  BY DEF Child
<1>2. /\ pc[g] = "children" /\ at[g] = i /\ i \in 1..Len(MinLevel) /\ call' = call
      /\ UNCHANGED <<counts, sampled, kept, rejected, reported, recovered, observed, finished>>
      /\ call[g] \in Call
  BY <1>1, Constants DEF ChildSkipped, ChildServes, ChildFails, ChildDrops, ChildPanics,
                        Answers, InTurn, GoOn, TypeOK
<1>3. CASE ChildPanics(g, i)
  <2>1. /\ panicked' = panicked \cup {call[g]} /\ answers' = answers /\ "panic" \in Faults
        /\ pc' = [pc EXCEPT ![g] = "return"] /\ result' = [result EXCEPT ![g] = {"panic"}]
        /\ at' = [at EXCEPT ![g] = 0] /\ call[g].kind = "log"
    BY <1>3 DEF ChildPanics, Leave, Goto
  <2>2. TypeOK'
    <3>1. at' \in [Goroutines -> 0..Len(MinLevel) + 1]
          /\ \A h \in Goroutines : pc'[h] = "children" <=> at'[h] > 0
      BY <1>2, <2>1, FirstChild DEF TypeOK
    <3>2. pc' \in [Goroutines -> Places] /\ panicked' \subseteq Call
          /\ result' \in [Goroutines -> SUBSET {"fail", "drop", "panic"}]
      BY <1>2, <2>1 DEF TypeOK, Places
    <3> QED
      BY <1>2, <2>1, <3>1, <3>2 DEF TypeOK, Places, counts, sampler
  <2>3. TellsOf(g)
    BY <1>2, <2>1 DEF TellsOf, Grows, TypeOK
  <2>4. InProgress(g)'
    <3>1. InProgress(g) /\ pc'[g] = "return" /\ result'[g] = {"panic"} /\ call'[g] = call[g]
      BY <1>2, <2>1 DEF TypeOK
    <3> QED
      BY <1>2, <2>1, <3>1 DEF InProgress, Stopped
  <2>5. AnswersInv'
    BY <2>1 DEF AnswersInv
  <2> QED
    BY <1>2, <2>2, <2>3, <2>4, <2>5, StepOfOne
<1>4. CASE ~ChildPanics(g, i)
  <2>1. PICK met \in {"skip", "nil", "fail", "drop"} :
          /\ met = "skip" => ~Passes(call[g], i) /\ answers' = answers /\ result' = result
          /\ met # "skip" =>
               /\ Passes(call[g], i)
               /\ answers' = answers \cup {<<i, call[g], met>>}
               /\ result' = [result EXCEPT ![g] = @ \cup ({met} \ {"nil"})]
          /\ met = "drop" => call[g].kind = "log"
    BY <1>1, <1>4 DEF ChildSkipped, ChildServes, ChildFails, ChildDrops, Answers
  <2>2. pc' = pc /\ at' = [at EXCEPT ![g] = i + 1] /\ panicked' = panicked
    BY <1>1, <1>4 DEF ChildSkipped, ChildServes, ChildFails, ChildDrops, GoOn
  <2>3. TypeOK'
    <3>1. at' \in [Goroutines -> 0..Len(MinLevel) + 1]
          /\ \A h \in Goroutines : pc'[h] = "children" <=> at'[h] > 0
      BY <1>2, <2>2, Constants DEF TypeOK
    <3>2. result' \in [Goroutines -> SUBSET {"fail", "drop", "panic"}]
      <4>1. result \in [Goroutines -> SUBSET {"fail", "drop", "panic"}]
        BY DEF TypeOK
      <4>2. met = "skip" \/ {met} \ {"nil"} \in SUBSET {"fail", "drop", "panic"}
        OBVIOUS
      <4>3. met = "skip" \/ result[g] \cup ({met} \ {"nil"}) \in SUBSET {"fail", "drop", "panic"}
        BY <4>1, <4>2
      <4> QED
        BY <2>1, <4>1, <4>3
    <3>3. answers' \subseteq Children \X Call \X {"nil", "fail", "drop"}
      BY <1>2, <2>1 DEF TypeOK
    <3> QED
      BY <1>2, <2>2, <3>1, <3>2, <3>3 DEF TypeOK, counts, sampler
  <2>4. TellsOf(g)
    <3>1. answers \subseteq answers' /\ \A a \in answers' : a \in answers \/ a[2] = call[g]
      BY <2>1
    <3>2. \A h \in Goroutines \ {g} : pc'[h] = pc[h] /\ at'[h] = at[h] /\ result'[h] = result[h]
      BY <2>1, <2>2 DEF TypeOK
    <3> QED
      BY <1>2, <2>2, <3>1, <3>2 DEF TellsOf, Grows
  <2>5. AnswersInv'
    <3>1. InProgress(g)
      OBVIOUS
    <3>2. met # "skip" => Passes(call[g], i)
                          /\ (call[g].kind = "log" => Enabled(call[g].level))
      BY <1>2, <2>1, <3>1 DEF InProgress
    <3> QED
      BY <2>1, <3>2 DEF AnswersInv
  <2>6. InProgress(g)'
    <3>1. InProgress(g)
      OBVIOUS
    <3>2. \A k \in Children : k < i + 1 /\ Passes(call[g], k) => Answered(call[g], k)'
      <4>1. \A k \in Children : k < i + 1 => k < i \/ k = i
        BY Constants
      <4>2. Passes(call[g], i) => Answered(call[g], i)'
        <5>1. Passes(call[g], i) => <<i, call[g], met>> \in answers'
          BY <2>1
        <5>2. <<i, call[g], met>>[1] = i /\ <<i, call[g], met>>[2] = call[g] /\ call'[g] = call[g]
          BY <1>2
        <5> QED
          BY <5>1, <5>2 DEF Answered
      <4>3. \A k \in Children : Answered(call[g], k) => Answered(call[g], k)'
        BY <1>2, <2>1 DEF Answered
      <4> QED
        BY <1>2, <3>1, <4>1, <4>2, <4>3 DEF InProgress
    <3>3. result'[g] = result[g] \cup ({met} \ {"nil", "skip"})
      BY <2>1 DEF TypeOK
    <3>4. Failed(call[g])' <=> Failed(call[g]) \/ met = "fail"
      <4>1. \A k \in Children : <<k, call[g], "fail">> \in answers'
              <=> <<k, call[g], "fail">> \in answers \/ (k = i /\ met = "fail")
        BY <2>1
      <4> QED
        BY <1>2, <4>1 DEF Failed
    <3>5. Dropped(call[g])' <=> Dropped(call[g]) \/ met = "drop"
      <4>1. \A k \in Children : <<k, call[g], "drop">> \in answers'
              <=> <<k, call[g], "drop">> \in answers \/ (k = i /\ met = "drop")
        BY <2>1
      <4> QED
        BY <1>2, <4>1 DEF Dropped
    <3>6. /\ call[g] \notin Stopped /\ "panic" \notin result[g]
          /\ Failed(call[g]) <=> "fail" \in result[g]
          /\ Dropped(call[g]) <=> "drop" \in result[g]
          /\ call[g].kind # "log" => ~Dropped(call[g])
      BY <1>2, <3>1 DEF InProgress
    <3>7. /\ Failed(call[g])' <=> "fail" \in result'[g]
          /\ Dropped(call[g])' <=> "drop" \in result'[g]
          /\ call[g].kind # "log" => ~Dropped(call[g])'
          /\ "panic" \notin result'[g]
      BY <2>1, <3>3, <3>4, <3>5, <3>6
    <3>8. pc'[g] = "children" /\ at'[g] = i + 1 /\ call'[g] = call[g]
      BY <1>2, <2>2 DEF TypeOK
    <3>9. call[g] \notin Stopped'
      BY <1>2, <2>2, <3>6 DEF Stopped
    <3>10. /\ call[g] \notin finished' \cup reported' \cup recovered' /\ call[g].by = g
           /\ call[g].kind = "log" => Enabled(call[g].level)
      BY <1>2, <3>1 DEF InProgress
    <3> QED
      BY <3>2, <3>7, <3>8, <3>9, <3>10 DEF InProgress
  <2> QED
    BY <1>2, <2>3, <2>4, <2>5, <2>6, StepOfOne
<1> QED
  BY <1>3, <1>4

-----------------------------------------------------------------------------
\* The write's outcome is counted.
LEMMA CountOutcomeKeeps ==
  ASSUME PipelineInv, NEW g \in Goroutines, CountOutcome(g) PROVE PipelineInv'
<1> USE DEF PipelineInv, Goto, Leave
<1>1. /\ pc[g] = "children" /\ at[g] \notin Children /\ call[g].kind = "log"
      /\ UNCHANGED <<call, sampler, snap, loaded, outstanding, history>>
      /\ pc' = [pc EXCEPT ![g] = "return"] /\ result' = [result EXCEPT ![g] = result[g]]
      /\ at' = [at EXCEPT ![g] = 0]
      /\ \E o \in {"successes", "failures", "dropped"} : metrics' = [metrics EXCEPT ![o] = @ + 1]
  BY DEF CountOutcome, Bump
<1>2. TypeOK'
  <2>1. metrics' \in [Counters -> Nat]
    BY <1>1 DEF TypeOK, Counters
  <2>2. at' \in [Goroutines -> 0..Len(MinLevel) + 1]
        /\ \A h \in Goroutines : pc'[h] = "children" <=> at'[h] > 0
    BY <1>1, FirstChild DEF TypeOK
  <2>3. pc' \in [Goroutines -> Places] /\ result' = result
    BY <1>1 DEF TypeOK, Places
  <2> QED
    BY <1>1, <2>1, <2>2, <2>3 DEF TypeOK, Places, sampler, history
<1>3. TellsOf(g)
  BY <1>1 DEF TellsOf, Grows, TypeOK, history
<1>4. InProgress(g)'
  <2>1. InProgress(g) /\ ServedAll(call[g])
    <3>1. \A i \in Children : i < at[g]
      BY <1>1, Constants DEF TypeOK
    <3> QED
      BY <1>1, <3>1 DEF InProgress, ServedAll
  <2>2. /\ Failed(call[g]) <=> "fail" \in result[g]
        /\ Dropped(call[g]) <=> "drop" \in result[g]
        /\ call[g] \notin panicked
        /\ call[g] \notin finished \cup reported \cup recovered /\ call[g].by = g
        /\ "panic" \notin result[g] /\ Enabled(call[g].level)
    BY <1>1, <2>1 DEF InProgress, Stopped
  <2>3. call'[g] = call[g] /\ result'[g] = result[g] /\ pc'[g] = "return"
    BY <1>1 DEF TypeOK
  <2>4. /\ Failed(call[g])' <=> Failed(call[g])
        /\ Dropped(call[g])' <=> Dropped(call[g])
        /\ ServedAll(call[g])'
    BY <1>1, <2>1, <2>3 DEF history, ServedAll, Answered, Failed, Dropped
  <2>5. UNCHANGED <<finished, reported, recovered, panicked>>
    BY <1>1 DEF history
  <2> QED
    BY <1>1, <2>2, <2>3, <2>4, <2>5 DEF InProgress
<1>5. AnswersInv'
  BY <1>1 DEF AnswersInv, history
<1> QED
  BY <1>1, <1>2, <1>3, <1>4, <1>5, StepOfOne DEF history

-----------------------------------------------------------------------------
\* The two ways a call ends.
LEMMA EndKeeps ==
  ASSUME PipelineInv, NEW g \in Goroutines, TellsOf(g), finished' = finished \cup {call[g]},
         pc' = [pc EXCEPT ![g] = "idle"], result' = [result EXCEPT ![g] = {}],
         TypeOK', UNCHANGED <<answers, sampled, panicked, rejected>>,
         call[g] \in Stopped \/ ServedAll(call[g]),
         call[g] \in reported' <=> /\ Failed(call[g])
                                   /\ call[g].kind = "log" => /\ ~Dropped(call[g])
                                                              /\ call[g] \notin panicked,
         call[g] \in recovered' <=> call[g] \in panicked /\ Recovering,
         Times /\ call[g].kind = "log" => call[g] \in observed'
  PROVE  PipelineInv'
<1> USE DEF PipelineInv
<1>1. InProgress(g)'
  <2>1. pc'[g] = "idle" /\ result'[g] = {} /\ call'[g] = call[g] /\ call[g].by = g
    BY DEF TypeOK, TellsOf, InProgress
  <2> QED
    BY <2>1 DEF InProgress
<1>2. AnswersInv'
  BY DEF AnswersInv
<1>3. FinishedInv'
  <2>1. ASSUME NEW c \in finished', c \notin finished
        PROVE  /\ c \in Stopped' \/ ServedAll(c)'
               /\ Told(c)'
               /\ Times /\ c.kind = "log" => c \in observed'
    <3>1. c = call[g]
      BY <2>1
    <3>2. c \in Stopped <=> c \in Stopped'
      BY DEF Stopped
    <3>3. /\ ServedAll(c)' <=> ServedAll(c)
          /\ Failed(c)' <=> Failed(c)
          /\ Dropped(c)' <=> Dropped(c)
      BY DEF ServedAll, Answered, Failed, Dropped
    <3>4. Told(c)'
      BY <3>1, <3>3 DEF Told
    <3> QED
      BY <3>1, <3>2, <3>3, <3>4
  <2> QED
    BY <2>1, FinishedKeep DEF FinishedInv
<1> QED
  BY <1>1, <1>2, <1>3, PastKeeps, OthersKeep

LEMMA ReturnControlKeeps ==
  ASSUME PipelineInv, NEW g \in Goroutines, ReturnControl(g) PROVE PipelineInv'
<1> USE DEF PipelineInv, Goto, Finish
<1>1. /\ pc[g] = "children" /\ at[g] \notin Children /\ call[g].kind # "log"
      /\ UNCHANGED <<call, counts, answers, sampled, kept, panicked, rejected, recovered,
                     observed>>
      /\ reported' = IF result[g] # {} THEN reported \cup {call[g]} ELSE reported
      /\ pc' = [pc EXCEPT ![g] = "idle"] /\ result' = [result EXCEPT ![g] = {}]
      /\ at' = [at EXCEPT ![g] = 0] /\ finished' = finished \cup {call[g]}
  BY DEF ReturnControl
<1>2. TypeOK'
  <2>1. reported' \subseteq Call /\ finished' \subseteq Call
    BY <1>1 DEF TypeOK
  <2>2. at' \in [Goroutines -> 0..Len(MinLevel) + 1]
        /\ \A h \in Goroutines : pc'[h] = "children" <=> at'[h] > 0
    BY <1>1, FirstChild DEF TypeOK
  <2>3. pc' \in [Goroutines -> Places]
        /\ result' \in [Goroutines -> SUBSET {"fail", "drop", "panic"}]
    BY <1>1 DEF TypeOK, Places
  <2> QED
    BY <1>1, <2>1, <2>2, <2>3 DEF TypeOK, Places, counts, sampler
<1>3. TellsOf(g)
  BY <1>1 DEF TellsOf, Grows, TypeOK
<1>4. InProgress(g) /\ ServedAll(call[g])
  <2>1. \A i \in Children : i < at[g]
    BY <1>1, Constants DEF TypeOK
  <2> QED
    BY <1>1, <2>1 DEF InProgress, ServedAll
<1>5. /\ Failed(call[g]) <=> "fail" \in result[g]
      /\ "drop" \notin result[g] /\ "panic" \notin result[g]
      /\ call[g] \notin panicked /\ call[g] \notin reported \cup recovered
  BY <1>1, <1>4 DEF InProgress, Stopped
<1>6. result[g] # {} <=> "fail" \in result[g]
  BY <1>5 DEF TypeOK
<1>7. call[g] \in reported' <=> Failed(call[g])
  BY <1>1, <1>5, <1>6
<1>8. call[g] \in recovered' <=> call[g] \in panicked /\ Recovering
  BY <1>1, <1>5
<1> QED
  BY <1>1, <1>2, <1>3, <1>4, <1>7, <1>8, EndKeeps

LEMMA ReturnKeeps ==
  ASSUME PipelineInv, NEW g \in Goroutines, Return(g) PROVE PipelineInv'
<1> USE DEF PipelineInv, Goto, Finish
<1>1. /\ pc[g] = "return"
      /\ UNCHANGED <<call, at, counts, answers, sampled, kept, panicked, rejected>>
      /\ pc' = [pc EXCEPT ![g] = "idle"] /\ result' = [result EXCEPT ![g] = {}]
      /\ finished' = finished \cup {call[g]}
  BY DEF Return
<1>2. reported' = IF "fail" \in result[g] /\ "drop" \notin result[g]
                    THEN reported \cup {call[g]} ELSE reported
  BY DEF Return, IsDropEvent
<1>3. recovered' = IF "panic" \in result[g] /\ Recovering
                     THEN recovered \cup {call[g]} ELSE recovered
  BY DEF Return
<1>4. /\ observed \subseteq observed' /\ observed' \subseteq observed \cup {call[g]}
      /\ Times /\ ("panic" \in result[g] => "panic" \in Faults) => call[g] \in observed'
  BY DEF Return, Times
<1>5. TypeOK'
  <2>1. /\ reported' \subseteq Call /\ finished' \subseteq Call /\ recovered' \subseteq Call
        /\ observed' \subseteq Call
    <3>1. call[g] \in Call /\ {reported, finished, recovered, observed} \subseteq SUBSET Call
      BY DEF TypeOK
    <3> QED
      BY <1>1, <1>2, <1>3, <1>4, <3>1
  <2>2. /\ pc' \in [Goroutines -> Places]
        /\ result' \in [Goroutines -> SUBSET {"fail", "drop", "panic"}]
        /\ \A h \in Goroutines : pc'[h] = "children" <=> at'[h] > 0
    BY <1>1 DEF TypeOK, Places
  <2> QED
    BY <1>1, <2>1, <2>2 DEF TypeOK, Places, counts, sampler
<1>6. TellsOf(g)
  BY <1>1, <1>2, <1>3, <1>4 DEF TellsOf, Grows, TypeOK
<1>7. InProgress(g)
  OBVIOUS
<1>8. call[g] \in reported' <=> /\ Failed(call[g])
                                /\ ~Dropped(call[g]) /\ call[g] \notin panicked
  BY <1>1, <1>2, <1>7 DEF InProgress
<1>9. call[g] \in recovered' <=> call[g] \in panicked /\ Recovering
  BY <1>1, <1>3, <1>7 DEF InProgress
<1>10. Times => call[g] \in observed'
  BY <1>1, <1>4, <1>7 DEF InProgress
<1>11. call[g].kind = "log" /\ (call[g] \in Stopped \/ ServedAll(call[g]))
  BY <1>1, <1>7 DEF InProgress
<1> QED
  BY <1>1, <1>5, <1>6, <1>8, <1>9, <1>10, <1>11, EndKeeps

-----------------------------------------------------------------------------
LEMMA Finite ==
  ASSUME PipelineInv PROVE IsFiniteSet(InFlight) /\ IsFiniteSet(panicked)
<1> DEFINE S == {h \in Goroutines : pc[h] = "children" /\ call[h].kind = "log"}
           f == [h \in S |-> call[h]]
<1>1. IsFiniteSet(S)
  BY Constants, FS_Subset
<1>2. IsFiniteSet(InFlight)
  <2>1. f \in Surjection(S, InFlight)
    BY DEF InFlight, Surjection
  <2> QED
    BY <1>1, <2>1, FS_Surjection
<1>3. IsFiniteSet(panicked)
  BY FS_Subset DEF PipelineInv, PastInv, Stopped
<1> QED
  BY <1>2, <1>3

\* What a call in progress has met depends on nothing but these.
LEMMA InProgressStays ==
  ASSUME NEW g, InProgress(g),
         UNCHANGED <<pc, call, at, result, answers, sampled, kept, panicked, rejected,
                     reported, recovered, finished>>
  PROVE  InProgress(g)'
<1>1. /\ Failed(call[g])' <=> Failed(call[g])
      /\ Dropped(call[g])' <=> Dropped(call[g])
      /\ ServedAll(call[g])' <=> ServedAll(call[g])
      /\ \A i \in Children : Answered(call[g], i)' <=> Answered(call[g], i)
  BY DEF ServedAll, Answered, Failed, Dropped
<1>2. Stopped' = Stopped
  BY DEF Stopped
<1> QED
  BY <1>1, <1>2 DEF InProgress

LEMMA SnapshotKeeps == ASSUME PipelineInv, Snapshot PROVE PipelineInv'
<1>1. /\ UNCHANGED <<pc, call, at, result, sampler, metrics, history>>
      /\ loaded < MaxLoads /\ loaded' = loaded + 1
  BY DEF Snapshot
<1>2. IsFiniteSet(InFlight \cup panicked) /\ Cardinality(InFlight \cup panicked) \in Nat
  BY Finite, FS_Union, FS_CardinalityType
<1>3. outstanding' \in Nat
  BY <1>2 DEF Snapshot, PipelineInv, TypeOK
<1>4. loaded' \in 0..4
  BY <1>1, Constants DEF PipelineInv, TypeOK
<1>5. snap' \in [Counters -> Nat]
  <2>1. /\ snap \in [Counters -> Nat] /\ metrics \in [Counters -> Nat]
        /\ loaded \in 0..3
    BY <1>1, Constants DEF PipelineInv, TypeOK
  <2>2. LoadOrder[loaded + 1] \in Counters
    BY <2>1 DEF LoadOrder, Counters
  <2> QED
    BY <2>1, <2>2 DEF Snapshot
<1>6. TypeOK'
  BY <1>1, <1>3, <1>4, <1>5 DEF PipelineInv, TypeOK, sampler, history
<1>7. PastInv' /\ AnswersInv' /\ FinishedInv'
  BY <1>1 DEF history, PipelineInv, Past, PastInv, AnswersInv, FinishedInv, Stopped, Told,
              ServedAll, Answered, Failed, Dropped
<1>8. ASSUME NEW g \in Goroutines PROVE InProgress(g)'
  BY <1>1, InProgressStays DEF history, PipelineInv
<1> QED
  BY <1>6, <1>7, <1>8 DEF PipelineInv

LEMMA PipelineStep == PipelineInv /\ [Next]_vars => PipelineInv'
<1> SUFFICES ASSUME PipelineInv, [Next]_vars PROVE PipelineInv'
  OBVIOUS
<1>1. ASSUME NEW g \in Goroutines, Step(g) PROVE PipelineInv'
  BY <1>1, BeginKeeps, RejectKeeps, SampleKeeps, CountKeeps, CountWriteKeeps, ChildKeeps,
     CountOutcomeKeeps, ReturnControlKeeps, ReturnKeeps DEF Step
<1>2. CASE UNCHANGED vars
  <2>1. UNCHANGED <<pc, call, at, result, counters, tally, held, metrics, snap, loaded,
                    outstanding, answers, sampled, kept, panicked, rejected, reported,
                    recovered, observed, finished>>
    BY <1>2 DEF vars, counts, sampler, history
  <2>2. TypeOK'
    BY <2>1 DEF PipelineInv, TypeOK
  <2>3. PastInv' /\ AnswersInv' /\ FinishedInv'
    BY <2>1 DEF PipelineInv, Past, PastInv, AnswersInv, FinishedInv, Stopped, Told,
                ServedAll, Answered, Failed, Dropped
  <2>4. ASSUME NEW g \in Goroutines PROVE InProgress(g)'
    BY <2>1, InProgressStays DEF PipelineInv
  <2> QED
    BY <2>2, <2>3, <2>4 DEF PipelineInv
<1> QED
  BY <1>1, <1>2, SnapshotKeeps DEF Next

LEMMA PipelineInvariant == Spec => []PipelineInv
BY PipelineInit, PipelineStep, PTL DEF Spec

-----------------------------------------------------------------------------
\* The variables of the pipeline stay in their types, and a goroutine has a
\* child in its turn exactly while it is in the fan-out.
THEOREM PipelineTypeCorrect == Spec => []TypeOK
<1>1. PipelineInv => TypeOK
  BY DEF PipelineInv
<1> QED
  BY <1>1, PipelineInvariant, PTL

\* Every call that went through reached every child whose filter admits it.
THEOREM ChildrenServedCorrect == Spec => []ChildrenServed
<1>1. PipelineInv => ChildrenServed
  BY DEF PipelineInv, FinishedInv, AnswersInv, ChildrenServed, Stopped, ServedAll, Answered
<1> QED
  BY <1>1, PipelineInvariant, PTL

\* Exactly the failures of Syncs and Closes, and those of log calls that no drop and no
\* panic hides, are told to the caller or OnInternalError; and onPanic is told of every
\* panic that an interceptor recovers from.
THEOREM FailuresReportedCorrect == Spec => []FailuresReported
<1>1. PipelineInv => FailuresReported
  BY DEF PipelineInv, FinishedInv, Told, FailuresReported
<1> QED
  BY <1>1, PipelineInvariant, PTL

\* A timing interceptor outside of one that recovers observes every call.
THEOREM TimingObservesCorrect == ASSUME Times PROVE Spec => []TimingObserves
<1>1. PipelineInv => TimingObserves
  BY DEF PipelineInv, FinishedInv, TimingObserves
<1> QED
  BY <1>1, PipelineInvariant, PTL

-----------------------------------------------------------------------------
\* The counters grow, and those that a Snapshot in progress has yet to load can
\* only make up for more of the writes it has seen.
SnapshotInv ==
  loaded > 0 => snap["writes"] <= outstanding
                  + (IF loaded > 1 THEN snap["successes"] ELSE metrics["successes"])
                  + (IF loaded > 2 THEN snap["failures"] ELSE metrics["failures"])
                  + (IF loaded > 3 THEN snap["dropped"] ELSE metrics["dropped"])

BalanceInv == MetricsBalance /\ SnapshotInv

\* A step of g changes g's part of the writes in flight only.
IsOpen(h) == pc[h] = "children" /\ call[h].kind = "log"
Own(g)  == IF IsOpen(g) THEN {call[g]} ELSE {}
Rest(g) == {call[h] : h \in {k \in Goroutines \ {g} : IsOpen(k)}}

LEMMA Parts ==
  ASSUME PipelineInv, NEW g \in Goroutines
  PROVE  InFlight = Own(g) \cup Rest(g) /\ call[g] \notin Rest(g)
BY DEF PipelineInv, InProgress, InFlight, Own, Rest, IsOpen

LEMMA PartsAfter ==
  ASSUME PipelineInv, [Next]_vars, NEW g \in Goroutines,
         \A h \in Goroutines \ {g} : pc'[h] = pc[h] /\ call'[h] = call[h]
  PROVE  InFlight' = Own(g)' \cup Rest(g)
<1>1. InFlight' = Own(g)' \cup Rest(g)'
  BY DEF InFlight, Own, Rest, IsOpen
<1>2. Rest(g)' = Rest(g)
  BY DEF Rest, IsOpen
<1> QED
  BY <1>1, <1>2

LEMMA OthersStay ==
  ASSUME PipelineInv, NEW g \in Goroutines, Step(g), NEW h \in Goroutines \ {g}
  PROVE  pc'[h] = pc[h] /\ call'[h] = call[h]
<1> USE DEF PipelineInv, TypeOK, Goto, Leave, Finish
<1>1. CASE Log(g) \/ Control(g) \/ Reject(g) \/ CountWrite(g)
  BY <1>1 DEF Log, Control, Reject, CountWrite
<1>2. CASE Sample(g) \/ Count(g)
  BY <1>2 DEF Sample, Count
<1>3. CASE Child(g)
  BY <1>3 DEF Child, ChildSkipped, ChildServes, ChildFails, ChildDrops, ChildPanics, GoOn,
              Answers
<1>4. CASE CountOutcome(g) \/ ReturnControl(g) \/ Return(g)
  BY <1>4 DEF CountOutcome, ReturnControl, Return
<1> QED
  BY <1>1, <1>2, <1>3, <1>4 DEF Step

\* Only the sink of the metrics opens and closes writes; a panic takes a write
\* from those in flight to those that panicked.
LEMMA OpenStays ==
  ASSUME PipelineInv, NEW g \in Goroutines, Step(g), ~CountWrite(g), ~CountOutcome(g)
  PROVE  /\ (InFlight \cup panicked)' = InFlight \cup panicked
         /\ UNCHANGED <<metrics, snap, loaded, outstanding>>
<1> USE DEF Goto, Leave, Finish
<1>1. InFlight = Own(g) \cup Rest(g)
  BY Parts
<1>2. InFlight' = Own(g)' \cup Rest(g)
  BY OthersStay, PartsAfter DEF Next
<1>3. pc \in [Goroutines -> Places]
      /\ call \in [Goroutines -> Call]
  BY DEF PipelineInv, TypeOK, Places
<1>4. CASE Log(g) \/ Control(g) \/ Reject(g) \/ Sample(g) \/ Count(g) \/ ReturnControl(g) \/ Return(g)
  <2>1. Own(g) = {}
    BY <1>4 DEF Log, Control, Reject, Sample, Count, ReturnControl, Return, Own, IsOpen
  <2>2. Own(g)' = {}
    <3>1. CASE Log(g) \/ Reject(g) \/ Sample(g) \/ Count(g) \/ ReturnControl(g) \/ Return(g)
      BY <1>3, <3>1 DEF Log, Reject, Sample, Count, ReturnControl, Return, Own, IsOpen
    <3>2. CASE Control(g)
      BY <1>3, <3>2 DEF Control, NextCall, Own, IsOpen
    <3> QED
      BY <1>4, <3>1, <3>2
  <2>3. UNCHANGED <<panicked, metrics, snap, loaded, outstanding>>
    BY <1>4 DEF Log, Control, Reject, Sample, Count, ReturnControl, Return, counts, history
  <2> QED
    BY <1>1, <1>2, <2>1, <2>2, <2>3
<1>5. ASSUME NEW i \in Children, ChildSkipped(g, i) \/ ChildServes(g, i) \/ ChildFails(g, i)
                                 \/ ChildDrops(g, i)
      PROVE  UNCHANGED <<pc, call, panicked, metrics, snap, loaded, outstanding>>
  BY <1>5 DEF ChildSkipped, ChildServes, ChildFails, ChildDrops, GoOn, counts
<1>6. ASSUME NEW i \in Children, ChildPanics(g, i)
      PROVE  /\ (InFlight \cup panicked)' = InFlight \cup panicked
             /\ UNCHANGED <<metrics, snap, loaded, outstanding>>
  <2>1. /\ pc[g] = "children" /\ call[g].kind = "log" /\ panicked' = panicked \cup {call[g]}
        /\ pc' = [pc EXCEPT ![g] = "return"]
        /\ UNCHANGED <<metrics, snap, loaded, outstanding>>
    BY <1>6 DEF ChildPanics, InTurn, counts
  <2>2. Own(g) = {call[g]} /\ Own(g)' = {}
    BY <1>3, <2>1 DEF Own, IsOpen
  <2> QED
    BY <1>1, <1>2, <2>1, <2>2
<1>7. CASE Child(g)
  BY <1>5, <1>6, <1>7 DEF Child, InFlight
<1> QED
  BY <1>4, <1>7 DEF Step

LEMMA Numbers ==
  ASSUME PipelineInv
  PROVE  /\ \A c \in Counters : metrics[c] \in Nat /\ snap[c] \in Nat
         /\ outstanding \in Nat /\ loaded \in 0..4
         /\ IsFiniteSet(InFlight \cup panicked) /\ Cardinality(InFlight \cup panicked) \in Nat
<1>1. IsFiniteSet(InFlight \cup panicked) /\ Cardinality(InFlight \cup panicked) \in Nat
  BY Finite, FS_Union, FS_CardinalityType
<1> QED
  BY <1>1 DEF PipelineInv, TypeOK

LEMMA CountWriteBalances ==
  ASSUME PipelineInv, BalanceInv, NEW g \in Goroutines, CountWrite(g) PROVE BalanceInv'
<1>1. /\ pc[g] = "metrics" /\ metrics' = [metrics EXCEPT !["writes"] = @ + 1]
      /\ UNCHANGED <<call, snap, loaded, outstanding, panicked>>
      /\ pc' = [pc EXCEPT ![g] = "children"]
  BY DEF CountWrite, Bump, Goto, history
<1>2. /\ call[g].kind = "log" /\ call[g] \notin panicked
      /\ pc \in [Goroutines -> Places]
  BY <1>1 DEF PipelineInv, InProgress, Stopped, TypeOK, Places
<1>3. Own(g) = {} /\ Own(g)' = {call[g]}
  BY <1>1, <1>2 DEF Own, IsOpen
<1>4. /\ (InFlight \cup panicked)' = (InFlight \cup panicked) \cup {call[g]}
      /\ call[g] \notin InFlight \cup panicked
  <2>1. InFlight' = Own(g)' \cup Rest(g)
    BY OthersStay, PartsAfter DEF Next, Step
  <2> QED
    BY <1>1, <1>2, <1>3, <2>1, Parts
<1>5. Cardinality((InFlight \cup panicked)') = Cardinality(InFlight \cup panicked) + 1
  BY <1>4, Numbers, FS_AddElement
<1>6. /\ metrics'["writes"] = metrics["writes"] + 1
      /\ \A c \in Counters \ {"writes"} : metrics'[c] = metrics[c]
  BY <1>1 DEF PipelineInv, TypeOK, Counters
<1>7. MetricsBalance'
  <2>1. /\ metrics["writes"] \in Nat /\ metrics["successes"] \in Nat
        /\ metrics["failures"] \in Nat /\ metrics["dropped"] \in Nat
        /\ Cardinality(InFlight \cup panicked) \in Nat
    BY Numbers DEF Counters
  <2>2. /\ metrics'["successes"] = metrics["successes"]
        /\ metrics'["failures"] = metrics["failures"]
        /\ metrics'["dropped"] = metrics["dropped"]
    BY <1>6 DEF Counters
  <2> QED
    BY <1>5, <1>6, <2>1, <2>2 DEF BalanceInv, MetricsBalance
<1>8. SnapshotInv'
  BY <1>1, <1>6 DEF BalanceInv, SnapshotInv, Counters
<1> QED
  BY <1>7, <1>8 DEF BalanceInv

LEMMA CountOutcomeBalances ==
  ASSUME PipelineInv, BalanceInv, NEW g \in Goroutines, CountOutcome(g) PROVE BalanceInv'
<1>1. /\ pc[g] = "children" /\ call[g].kind = "log"
      /\ UNCHANGED <<call, snap, loaded, outstanding, panicked>>
      /\ pc' = [pc EXCEPT ![g] = "return"]
  BY DEF CountOutcome, Leave, Goto, history
<1>2. PICK o \in {"successes", "failures", "dropped"} : metrics' = [metrics EXCEPT ![o] = @ + 1]
  BY DEF CountOutcome, Bump
<1>3. /\ call[g] \notin panicked
      /\ pc \in [Goroutines -> Places]
  BY <1>1 DEF PipelineInv, InProgress, Stopped, TypeOK, Places
<1>4. Own(g) = {call[g]} /\ Own(g)' = {}
  BY <1>1, <1>3 DEF Own, IsOpen
<1>5. /\ (InFlight \cup panicked)' = (InFlight \cup panicked) \ {call[g]}
      /\ call[g] \in InFlight \cup panicked
  <2>1. InFlight' = Own(g)' \cup Rest(g)
    BY OthersStay, PartsAfter DEF Next, Step
  <2> QED
    BY <1>1, <1>3, <1>4, <2>1, Parts
<1>6. Cardinality((InFlight \cup panicked)') = Cardinality(InFlight \cup panicked) - 1
  BY <1>5, Numbers, FS_RemoveElement
<1>7. /\ metrics'[o] = metrics[o] + 1
      /\ \A c \in Counters \ {o} : metrics'[c] = metrics[c]
  BY <1>2 DEF PipelineInv, TypeOK, Counters
<1>8. MetricsBalance'
  <2>1. /\ metrics["writes"] \in Nat /\ metrics["successes"] \in Nat
        /\ metrics["failures"] \in Nat /\ metrics["dropped"] \in Nat
        /\ Cardinality(InFlight \cup panicked) \in Nat
    BY Numbers DEF Counters
  <2>2. /\ metrics'["writes"] = metrics["writes"]
        /\ metrics'["successes"] + metrics'["failures"] + metrics'["dropped"]
             = metrics["successes"] + metrics["failures"] + metrics["dropped"] + 1
    BY <1>7, <2>1 DEF Counters
  <2> QED
    BY <1>6, <2>1, <2>2 DEF BalanceInv, MetricsBalance
<1>9. SnapshotInv'
  BY <1>1, <1>7, Numbers DEF BalanceInv, SnapshotInv, Counters
<1> QED
  BY <1>8, <1>9 DEF BalanceInv

\* The first counter loaded is the writes; each further one is loaded when it has
\* grown to at least what it was.
LEMMA SnapshotBalances ==
  ASSUME PipelineInv, BalanceInv, Snapshot PROVE BalanceInv'
<1>1. /\ UNCHANGED <<pc, call, metrics, panicked>>
      /\ loaded' = loaded + 1 /\ loaded \in 0..3
      /\ snap' = [snap EXCEPT ![LoadOrder[loaded + 1]] = metrics[LoadOrder[loaded + 1]]]
      /\ snap \in [Counters -> Nat]
      /\ outstanding' = IF loaded = 0 THEN Cardinality(InFlight \cup panicked) ELSE outstanding
  BY Constants DEF Snapshot, history, PipelineInv, TypeOK
<1>2. MetricsBalance'
  BY <1>1 DEF BalanceInv, MetricsBalance, InFlight
<1>3. CASE loaded = 0
  <2>1. snap'["writes"] = metrics["writes"] /\ loaded' = 1
    BY <1>1, <1>3 DEF LoadOrder, Counters
  <2> QED
    BY <1>1, <1>2, <1>3, <2>1, Numbers DEF BalanceInv, MetricsBalance, SnapshotInv, Counters
<1>4. CASE loaded = 1
  <2>1. /\ snap'["writes"] = snap["writes"] /\ loaded' = 2
        /\ snap'["successes"] = metrics["successes"]
    BY <1>1, <1>4 DEF LoadOrder, Counters
  <2> QED
    BY <1>1, <1>2, <1>4, <2>1, Numbers DEF BalanceInv, SnapshotInv, Counters
<1>5. CASE loaded = 2
  <2>1. /\ snap'["writes"] = snap["writes"] /\ loaded' = 3
        /\ snap'["successes"] = snap["successes"] /\ snap'["failures"] = metrics["failures"]
    BY <1>1, <1>5 DEF LoadOrder, Counters
  <2> QED
    BY <1>1, <1>2, <1>5, <2>1, Numbers DEF BalanceInv, SnapshotInv, Counters
<1>6. CASE loaded = 3
  <2>1. /\ snap'["writes"] = snap["writes"] /\ loaded' = 4
        /\ snap'["successes"] = snap["successes"] /\ snap'["failures"] = snap["failures"]
        /\ snap'["dropped"] = metrics["dropped"]
    BY <1>1, <1>6 DEF LoadOrder, Counters
  <2> QED
    BY <1>1, <1>2, <1>6, <2>1, Numbers DEF BalanceInv, SnapshotInv, Counters
<1> QED
  BY <1>1, <1>3, <1>4, <1>5, <1>6

LEMMA BalanceInit == Init => BalanceInv
<1> SUFFICES ASSUME Init PROVE BalanceInv
  OBVIOUS
<1>1. InFlight \cup panicked = {}
  BY DEF Init, InFlight
<1> QED
  <2>1. /\ Cardinality(InFlight \cup panicked) = 0
        /\ metrics["writes"] = 0 /\ metrics["successes"] = 0
        /\ metrics["failures"] = 0 /\ metrics["dropped"] = 0
    BY <1>1, FS_EmptySet DEF Init, Counters
  <2> QED
    BY <2>1 DEF Init, BalanceInv, MetricsBalance, SnapshotInv

LEMMA BalanceStep == PipelineInv /\ BalanceInv /\ [Next]_vars => BalanceInv'
<1> SUFFICES ASSUME PipelineInv, BalanceInv, [Next]_vars PROVE BalanceInv'
  OBVIOUS
<1>1. ASSUME NEW g \in Goroutines, Step(g), ~CountWrite(g), ~CountOutcome(g)
      PROVE  BalanceInv'
  BY <1>1, OpenStays DEF BalanceInv, MetricsBalance, SnapshotInv
<1>2. CASE UNCHANGED vars
  BY <1>2 DEF vars, counts, history, BalanceInv, MetricsBalance, SnapshotInv, InFlight
<1> QED
  BY <1>1, <1>2, CountWriteBalances, CountOutcomeBalances, SnapshotBalances DEF Next

LEMMA BalanceInvariant == Spec => []BalanceInv
<1>1. Init /\ [][Next]_vars /\ []PipelineInv => []BalanceInv
  BY BalanceInit, BalanceStep, PTL
<1> QED
  BY <1>1, PipelineInvariant, PTL DEF Spec

\* The counters of the metrics account for every write.
THEOREM MetricsBalanceCorrect == Spec => []MetricsBalance
<1>1. BalanceInv => MetricsBalance
  BY DEF BalanceInv
<1> QED
  BY <1>1, BalanceInvariant, PTL

\* A Snapshot shows no more writes without an outcome than there were when it began.
THEOREM SnapshotInFlightCorrect == Spec => []SnapshotInFlight
<1>1. PipelineInv /\ BalanceInv => SnapshotInFlight
  BY Numbers DEF BalanceInv, SnapshotInv, SnapshotInFlight, Counters
<1> QED
  BY <1>1, PipelineInvariant, BalanceInvariant, PTL

-----------------------------------------------------------------------------
(* The sampler: one more than every k-th of n calls is one for every k begun. *)

LEMMA DivMod ==
  ASSUME NEW n \in Nat, NEW k \in Nat, k >= 1
  PROVE  n \div k \in Int /\ n % k \in Nat /\ n % k < k /\ n = k * (n \div k) + (n % k)
<1>1. n \div k \in Int
  OBVIOUS
<1>2. n % k \in 0..(k - 1)
  OBVIOUS
<1>3. n = k * (n \div k) + (n % k)
  OBVIOUS
<1> QED
  BY <1>1, <1>2, <1>3

LEMMA Multiples ==
  ASSUME NEW k \in Nat, k >= 1, NEW a \in Int, NEW b \in Int, a < b
  PROVE  k * a + k <= k * b
OBVIOUS

LEMMA QuotientIs ==
  ASSUME NEW n \in Nat, NEW k \in Nat, k >= 1, NEW q \in Int, NEW r \in Nat, r < k,
         n = k * q + r
  PROVE  n \div k = q
<1> DEFINE p == n \div k
           s == n % k
<1>1. p \in Int /\ s \in Nat /\ s < k /\ n = k * p + s
  BY DivMod
<1> HIDE DEF p, s
<1>2. ~(q < p)
  BY <1>1, Multiples
<1>3. ~(p < q)
  BY <1>1, Multiples
<1> QED
  BY <1>1, <1>2, <1>3 DEF p

\* The number of periods begun grows with the first call of a period.
LEMMA PeriodsBegun ==
  ASSUME NEW n \in Nat, NEW k \in Nat, k >= 1
  PROVE  /\ (n + k - 1) \div k \in Nat
         /\ ((n + 1) + k - 1) \div k
              = (n + k - 1) \div k + (IF n % k = 0 THEN 1 ELSE 0)
<1> DEFINE q == n \div k
           r == n % k
<1>1. q \in Int /\ r \in Nat /\ r < k /\ n = k * q + r
  BY DivMod
<1> HIDE DEF q, r
<1>2. q >= 0
  <2>1. CASE q < 0
    <3>1. k * q + k <= k * 0
      BY <1>1, <2>1, Multiples
    <3> QED
      BY <1>1, <3>1
  <2> QED
    BY <1>1, <2>1
<1>3. k * (q + 1) = k * q + k
  BY <1>1
<1>4. n + k - 1 \in Nat /\ (n + 1) + k - 1 \in Nat
  OBVIOUS
<1>5. CASE r = 0
  <2>1. (n + k - 1) \div k = q
    <3>1. n + k - 1 = k * q + (k - 1) /\ k - 1 \in Nat /\ k - 1 < k
      BY <1>1, <1>5
    <3> QED
      BY <1>1, <1>4, <3>1, QuotientIs
  <2>2. ((n + 1) + k - 1) \div k = q + 1
    <3>1. (n + 1) + k - 1 = k * (q + 1) + 0 /\ 0 \in Nat /\ 0 < k /\ q + 1 \in Int
      BY <1>1, <1>3, <1>5
    <3> QED
      BY <1>4, <3>1, QuotientIs
  <2> QED
    BY <1>1, <1>2, <1>5, <2>1, <2>2 DEF r
<1>6. CASE r # 0
  <2>1. (n + k - 1) \div k = q + 1
    <3>1. /\ n + k - 1 = k * (q + 1) + (r - 1) /\ r - 1 \in Nat /\ r - 1 < k /\ q + 1 \in Int
      BY <1>1, <1>3, <1>6
    <3> QED
      BY <1>4, <3>1, QuotientIs
  <2>2. ((n + 1) + k - 1) \div k = q + 1
    <3>1. (n + 1) + k - 1 = k * (q + 1) + r /\ q + 1 \in Int
      BY <1>1, <1>3
    <3> QED
      BY <1>1, <1>4, <3>1, QuotientIs
  <2> QED
    BY <1>1, <1>2, <1>6, <2>1, <2>2 DEF r
<1> QED
  BY <1>5, <1>6

LEMMA EveryForIs == \A l \in UsedLevels : EveryFor(l) \in Nat /\ EveryFor(l) >= 1
BY PipelineAssumption DEF EveryFor

-----------------------------------------------------------------------------
(* There is one counter for each key that was ever looked up, and it counts   *)
(* every call of the key: a goroutine that has got a counter holds that one.  *)
WithKey(key, calls) == {c \in calls : Key(c) = key}
Counted(key) == WithKey(key, kept \cup sampled)

CounterIs(key, c) ==
  /\ counters[key] = {c} /\ Key(c) = key /\ c \in DOMAIN tally
  /\ tally[c] = Cardinality(Counted(key))

CounterInv(key) ==
  \/ counters[key] = {} /\ Counted(key) = {}
  \/ \E c : CounterIs(key, c)

HeldInv(g) ==
  pc[g] = "count" => held[g] = counters[Key(call[g])] /\ held[g] # {}

SamplerInv ==
  /\ \A key \in Keys : CounterInv(key)
  /\ \A g \in Goroutines : HeldInv(g)

LEMMA SamplerInit == Init => SamplerInv
BY DEF Init, SamplerInv, CounterInv, HeldInv, Counted, WithKey

\* Only the sampler touches its counters and lets events through or drops them.
LEMMA SamplerAlone ==
  ASSUME PipelineInv, NEW g \in Goroutines, Step(g), ~Sample(g), ~Count(g)
  PROVE  UNCHANGED <<sampler, sampled, kept>> /\ pc'[g] # "count"
<1> USE DEF Goto, Leave, Finish
<1>1. pc \in [Goroutines -> Places]
  BY DEF PipelineInv, TypeOK, Places
<1>2. CASE Log(g) \/ Control(g) \/ Reject(g) \/ CountWrite(g)
  BY <1>1, <1>2 DEF Log, Control, Reject, CountWrite, counts, history
<1>3. CASE Child(g)
  BY <1>1, <1>3 DEF Child, ChildSkipped, ChildServes, ChildFails, ChildDrops, ChildPanics,
                    Answers, InTurn, GoOn, counts
<1>4. CASE CountOutcome(g) \/ ReturnControl(g) \/ Return(g)
  BY <1>1, <1>4 DEF CountOutcome, ReturnControl, Return, counts, history
<1> QED
  BY <1>2, <1>3, <1>4 DEF Step

\* What another goroutine holds is of no concern to a step that leaves its counter.
LEMMA HeldByOthers ==
  ASSUME PipelineInv, NEW g \in Goroutines, Step(g), NEW h \in Goroutines \ {g}, HeldInv(h),
         held'[h] = held[h],
         pc[h] = "count" => counters'[Key(call[h])] = counters[Key(call[h])]
  PROVE  HeldInv(h)'
<1>1. pc'[h] = pc[h] /\ call'[h] = call[h]
  BY OthersStay
<1> QED
  BY <1>1 DEF HeldInv

LEMMA LookupKeeps ==
  ASSUME PipelineInv, SamplerInv, NEW g \in Goroutines, Sample(g) PROVE SamplerInv'
<1>1. /\ pc[g] = "process" /\ UNCHANGED <<call, kept, sampled>>
      /\ \/ pc' = [pc EXCEPT ![g] = "metrics"] /\ UNCHANGED sampler
         \/ pc' = [pc EXCEPT ![g] = "count"] /\ LoadOrStore(g)
  BY DEF Sample, Goto, history
<1>2. /\ pc \in [Goroutines -> Places] /\ held \in [Goroutines -> SUBSET Call]
      /\ counters \in [Keys -> SUBSET Call] /\ call[g] \in Call
  BY DEF PipelineInv, TypeOK, Places
<1>3. Step(g)
  BY DEF Step
<1>4. CASE pc' = [pc EXCEPT ![g] = "metrics"] /\ UNCHANGED sampler
  <2>1. UNCHANGED <<counters, tally, held>>
    BY <1>4 DEF sampler
  <2>2. ASSUME NEW key \in Keys PROVE CounterInv(key)'
    BY <1>1, <2>1 DEF SamplerInv, CounterInv, CounterIs, Counted, WithKey
  <2>3. ASSUME NEW h \in Goroutines PROVE HeldInv(h)'
    <3>1. CASE h = g
      BY <1>2, <1>4, <3>1 DEF HeldInv
    <3>2. CASE h # g
      BY <1>3, <2>1, <3>2, HeldByOthers DEF SamplerInv
    <3> QED
      BY <3>1, <3>2
  <2> QED
    BY <2>2, <2>3 DEF SamplerInv
<1>5. CASE pc' = [pc EXCEPT ![g] = "count"] /\ LoadOrStore(g)
  <2> DEFINE k   == Key(call[g])
             own == IF counters[k] = {} THEN {call[g]} ELSE {}
  <2>1. /\ held' = [held EXCEPT ![g] = counters[k] \cup own]
        /\ counters' = [counters EXCEPT ![k] = counters[k] \cup own]
        /\ tally' = [c \in DOMAIN tally \cup own |-> IF c \in own THEN 0 ELSE tally[c]]
    BY <1>5 DEF LoadOrStore
  <2>2. k \in Keys
    BY <1>2 DEF Call, Key, Keys
  <2>3. own \subseteq {call[g]} /\ (own = {} <=> counters[k] # {})
    OBVIOUS
  <2>4. \A c \in own : Key(c) = k
    OBVIOUS
  <2>5. own # {} => own = {call[g]}
    OBVIOUS
  <2>6. Key(call[g]) = k
    OBVIOUS
  <2> HIDE DEF k, own
  <2>7. /\ held'[g] = counters[k] \cup own /\ counters'[k] = counters[k] \cup own
        /\ \A h \in Goroutines \ {g} : held'[h] = held[h]
        /\ \A key \in Keys \ {k} : counters'[key] = counters[key]
    BY <1>2, <2>1, <2>2
  <2>8. ASSUME NEW key \in Keys PROVE CounterInv(key)'
    <3>1. CounterInv(key) /\ Counted(key)' = Counted(key)
      BY <1>1 DEF SamplerInv, Counted, WithKey
    <3>2. ASSUME NEW c, CounterIs(key, c) PROVE CounterIs(key, c)'
      <4>1. c \notin own
        <5>1. key = k => own = {}
          BY <2>3, <3>2 DEF CounterIs
        <5> QED
          BY <2>4, <3>2, <5>1 DEF CounterIs
      <4>2. c \in DOMAIN tally' /\ tally'[c] = tally[c]
        BY <2>1, <3>2, <4>1 DEF CounterIs
      <4>3. counters'[key] = counters[key]
        BY <2>3, <2>7, <3>2 DEF CounterIs
      <4> QED
        BY <3>1, <3>2, <4>2, <4>3 DEF CounterIs
    <3>3. CASE counters[key] = {} /\ Counted(key) = {}
      <4>1. CASE key = k
        <5>1. own = {call[g]} /\ counters'[key] = {call[g]} /\ Key(call[g]) = key
          BY <2>3, <2>5, <2>6, <2>7, <3>3, <4>1
        <5>2. call[g] \in DOMAIN tally' /\ tally'[call[g]] = 0
          BY <2>1, <5>1
        <5>3. Cardinality(Counted(key)') = 0
          BY <3>1, <3>3, FS_EmptySet
        <5>4. PICK c : c = call[g]
          OBVIOUS
        <5>5. CounterIs(key, c)'
          BY <5>1, <5>2, <5>3, <5>4 DEF CounterIs
        <5> QED
          BY <5>5 DEF CounterInv
      <4>2. CASE key # k
        BY <2>7, <3>1, <3>3, <4>2 DEF CounterInv
      <4> QED
        BY <4>1, <4>2
    <3> QED
      BY <3>1, <3>2, <3>3 DEF CounterInv
  <2>9. ASSUME NEW h \in Goroutines PROVE HeldInv(h)'
    <3>1. CASE h = g
      <4>1. call'[g] = call[g] /\ held'[g] = counters'[k] /\ held'[g] # {}
        BY <1>1, <2>3, <2>7
      <4> QED
        BY <2>6, <3>1, <4>1 DEF HeldInv
    <3>2. CASE h # g
      <4>1. HeldInv(h) /\ held'[h] = held[h]
        BY <2>7, <3>2 DEF SamplerInv
      <4>2. Key(call[h]) \in Keys
        BY DEF PipelineInv, TypeOK, Call, Key, Keys
      <4>3. pc[h] = "count" => counters'[Key(call[h])] = counters[Key(call[h])]
        <5>1. pc[h] = "count" /\ Key(call[h]) = k => own = {}
          BY <2>3, <4>1 DEF HeldInv
        <5> QED
          BY <2>7, <4>2, <5>1
      <4> QED
        BY <1>3, <3>2, <4>1, <4>3, HeldByOthers
    <3> QED
      BY <3>1, <3>2
  <2> QED
    BY <2>8, <2>9 DEF SamplerInv
<1> QED
  BY <1>1, <1>4, <1>5

LEMMA CountedFinite ==
  ASSUME PipelineInv, NEW key
  PROVE  /\ IsFiniteSet(Counted(key)) /\ Cardinality(Counted(key)) \in Nat
         /\ IsFiniteSet(WithKey(key, kept)) /\ Cardinality(WithKey(key, kept)) \in Nat
<1>1. Counted(key) \subseteq Stopped \cup kept /\ WithKey(key, kept) \subseteq Stopped \cup kept
  BY DEF Counted, WithKey, Stopped
<1> QED
  BY <1>1, FS_Subset, FS_CardinalityType DEF PipelineInv, PastInv

LEMMA DropsNext ==
  ASSUME NEW n \in Nat, NEW every \in Nat, every >= 1
  PROVE  Drops(n + 1, every) <=> n % every # 0
<1>1. n + 1 - 1 = n
  OBVIOUS
<1>2. (n + 1 - 1) % every = n % every
  BY <1>1
<1> QED
  BY <1>2 DEF Drops

\* What a count changes: the counter of the key counts the call, and the call is let
\* through if the counter has come to the first of a period.
LEMMA CountCounts ==
  ASSUME PipelineInv, SamplerInv, NEW g \in Goroutines, Count(g)
  PROVE  \E c : /\ CounterIs(Key(call[g]), c)
                /\ tally' = [tally EXCEPT ![c] = tally[c] + 1]
                /\ call[g] \notin kept \cup sampled
                /\ IF tally[c] % EveryFor(call[g].level) # 0
                     THEN sampled' = sampled \cup {call[g]} /\ kept' = kept
                     ELSE kept' = kept \cup {call[g]} /\ sampled' = sampled
<1> DEFINE k == Key(call[g])
<1>1. pc[g] = "count" /\ call[g] \notin kept \cup sampled
  BY DEF PipelineInv, InProgress, Stopped, Count
<1>2. k \in Keys
  BY DEF PipelineInv, TypeOK, Call, Key, Keys
<1>3. held[g] = counters[k] /\ CounterInv(k)
  BY <1>1, <1>2 DEF SamplerInv, HeldInv
<1>4. PICK c \in held[g] :
        /\ tally' = [tally EXCEPT ![c] = tally[c] + 1]
        /\ IF Drops(tally[c] + 1, EveryFor(call[g].level))
             THEN sampled' = sampled \cup {call[g]} /\ UNCHANGED kept
             ELSE kept' = kept \cup {call[g]} /\ UNCHANGED sampled
  BY DEF Count
<1>5. CounterIs(k, c)
  BY <1>3, <1>4 DEF CounterInv, CounterIs
<1>6. tally[c] \in Nat
  BY <1>5, CountedFinite DEF CounterIs
<1>7. EveryFor(call[g].level) \in Nat /\ EveryFor(call[g].level) >= 1
  BY EveryForIs DEF PipelineInv, TypeOK, Call
<1>8. Drops(tally[c] + 1, EveryFor(call[g].level)) <=> tally[c] % EveryFor(call[g].level) # 0
  BY <1>6, <1>7, DropsNext
<1>9. IF tally[c] % EveryFor(call[g].level) # 0
        THEN sampled' = sampled \cup {call[g]} /\ kept' = kept
        ELSE kept' = kept \cup {call[g]} /\ sampled' = sampled
  BY <1>4, <1>8
<1>10. tally' = [tally EXCEPT ![c] = tally[c] + 1]
  BY <1>4
<1> HIDE DEF k
<1> QED
  <2>1. CounterIs(Key(call[g]), c)
    BY <1>5 DEF k
  <2> QED
    BY <1>1, <1>9, <1>10, <2>1, Zenon

LEMMA CountKeepsSampler ==
  ASSUME PipelineInv, SamplerInv, NEW g \in Goroutines, Count(g) PROVE SamplerInv'
<1> DEFINE k == Key(call[g])
<1>1. PICK c : /\ CounterIs(k, c)
               /\ tally' = [tally EXCEPT ![c] = tally[c] + 1]
               /\ call[g] \notin kept \cup sampled
               /\ (kept \cup sampled)' = (kept \cup sampled) \cup {call[g]}
  BY CountCounts
<1>2. /\ pc[g] = "count" /\ held' = [held EXCEPT ![g] = {}] /\ UNCHANGED <<call, counters>>
      /\ pc'[g] # "count"
  BY DEF Count, Goto, Leave, PipelineInv, TypeOK
<1>3. Step(g)
  BY DEF Step
<1>4. k \in Keys
  BY DEF PipelineInv, TypeOK, Call, Key, Keys
<1>5. Key(call[g]) = k
  OBVIOUS
<1> HIDE DEF k
<1>6. ASSUME NEW key \in Keys PROVE CounterInv(key)'
  <2>1. CASE key = k
    <3>1. Counted(key)' = Counted(key) \cup {call[g]} /\ call[g] \notin Counted(key)
      BY <1>1, <1>5, <2>1 DEF Counted, WithKey
    <3>2. Cardinality(Counted(key)') = Cardinality(Counted(key)) + 1
      BY <3>1, CountedFinite, FS_AddElement
    <3>3. c \in DOMAIN tally' /\ tally'[c] = tally[c] + 1
      BY <1>1 DEF CounterIs
    <3>4. CounterIs(key, c)'
      BY <1>1, <1>2, <2>1, <3>2, <3>3 DEF CounterIs
    <3> QED
      BY <3>4 DEF CounterInv
  <2>2. CASE key # k
    <3>1. Counted(key)' = Counted(key)
      BY <1>1, <1>5, <2>2 DEF Counted, WithKey
    <3>2. CounterInv(key)
      BY DEF SamplerInv
    <3>3. ASSUME NEW d, CounterIs(key, d) PROVE CounterIs(key, d)'
      <4>1. d # c
        BY <1>1, <2>2, <3>3 DEF CounterIs
      <4>2. d \in DOMAIN tally' /\ tally'[d] = tally[d]
        BY <1>1, <3>3, <4>1 DEF CounterIs
      <4> QED
        BY <1>2, <3>1, <3>3, <4>2 DEF CounterIs
    <3> QED
      BY <1>2, <3>1, <3>2, <3>3 DEF CounterInv
  <2> QED
    BY <2>1, <2>2
<1>7. ASSUME NEW h \in Goroutines PROVE HeldInv(h)'
  <2>1. CASE h = g
    BY <1>2, <2>1 DEF HeldInv
  <2>2. CASE h # g
    <3>1. HeldInv(h) /\ held'[h] = held[h]
      BY <1>2, <2>2 DEF SamplerInv, PipelineInv, TypeOK
    <3> QED
      BY <1>2, <1>3, <2>2, <3>1, HeldByOthers
  <2> QED
    BY <2>1, <2>2
<1> QED
  BY <1>6, <1>7 DEF SamplerInv

LEMMA SamplerStep == PipelineInv /\ SamplerInv /\ [Next]_vars => SamplerInv'
<1> SUFFICES ASSUME PipelineInv, SamplerInv, [Next]_vars PROVE SamplerInv'
  OBVIOUS
<1>1. ASSUME UNCHANGED <<sampler, sampled, kept>> PROVE \A key \in Keys : CounterInv(key)'
  BY <1>1 DEF SamplerInv, CounterInv, CounterIs, Counted, WithKey, sampler
<1>2. ASSUME NEW g \in Goroutines, Step(g), ~Sample(g), ~Count(g) PROVE SamplerInv'
  <2>1. UNCHANGED <<sampler, sampled, kept>> /\ pc'[g] # "count"
    BY <1>2, SamplerAlone
  <2>2. ASSUME NEW h \in Goroutines PROVE HeldInv(h)'
    <3>1. CASE h = g
      BY <2>1, <3>1 DEF HeldInv
    <3>2. CASE h # g
      <4>1. HeldInv(h) /\ held' = held /\ counters' = counters
        BY <2>1 DEF SamplerInv, sampler
      <4> QED
        BY <1>2, <3>2, <4>1, HeldByOthers
    <3> QED
      BY <3>1, <3>2
  <2> QED
    BY <1>1, <2>1, <2>2 DEF SamplerInv
<1>3. CASE Snapshot \/ UNCHANGED vars
  <2>1. UNCHANGED <<pc, call, sampler, sampled, kept>>
    BY <1>3 DEF Snapshot, vars, counts, history
  <2>2. \A h \in Goroutines : HeldInv(h)'
    BY <2>1 DEF SamplerInv, HeldInv, sampler
  <2> QED
    BY <1>1, <2>1, <2>2 DEF SamplerInv
<1> QED
  BY <1>2, <1>3, LookupKeeps, CountKeepsSampler DEF Next

LEMMA SamplerInvariant == Spec => []SamplerInv
<1>1. Init /\ [][Next]_vars /\ []PipelineInv => []SamplerInv
  BY SamplerInit, SamplerStep, PTL
<1> QED
  BY <1>1, PipelineInvariant, PTL DEF Spec

-----------------------------------------------------------------------------
KeyKept(key) ==
  Cardinality(WithKey(key, kept))
    = (Cardinality(Counted(key)) + EveryFor(key[1]) - 1) \div EveryFor(key[1])

LEMMA KeptByKey == SamplingKeeps <=> \A key \in Keys : KeyKept(key)
BY DEF SamplingKeeps, KeyKept, Counted, WithKey

LEMMA SamplingInit == Init => SamplingKeeps
<1> SUFFICES ASSUME Init, NEW key \in Keys PROVE KeyKept(key)
  BY KeptByKey
<1>1. Counted(key) = {} /\ WithKey(key, kept) = {}
  BY DEF Init, Counted, WithKey
<1>2. (0 + EveryFor(key[1]) - 1) \div EveryFor(key[1]) = 0
  <2> DEFINE k == EveryFor(key[1])
  <2>1. k \in Nat /\ k >= 1
    BY EveryForIs DEF Keys
  <2> HIDE DEF k
  <2>2. 0 + k - 1 \in Nat /\ 0 + k - 1 < k /\ 0 + k - 1 = k * 0 + (0 + k - 1)
    BY <2>1
  <2>3. (0 + k - 1) \div k = 0
    BY <2>1, <2>2, QuotientIs
  <2> QED
    BY <2>3 DEF k
<1> QED
  BY <1>1, <1>2, FS_EmptySet DEF KeyKept

LEMMA CountKeepsPeriods ==
  ASSUME PipelineInv, SamplerInv, NEW g \in Goroutines, Count(g),
         NEW key \in Keys, KeyKept(key)
  PROVE  KeyKept(key)'
<1>1. PICK c : /\ CounterIs(Key(call[g]), c)
               /\ call[g] \notin kept \cup sampled
               /\ IF tally[c] % EveryFor(call[g].level) # 0
                    THEN sampled' = sampled \cup {call[g]} /\ kept' = kept
                    ELSE kept' = kept \cup {call[g]} /\ sampled' = sampled
  BY CountCounts
<1>2. CASE Key(call[g]) # key
  <2>1. Counted(key)' = Counted(key) /\ WithKey(key, kept)' = WithKey(key, kept)
    BY <1>1, <1>2 DEF Counted, WithKey
  <2> QED
    BY <2>1 DEF KeyKept, EveryFor
<1>3. CASE Key(call[g]) = key
  <2> DEFINE n == Cardinality(Counted(key))
             m == Cardinality(WithKey(key, kept))
             k == EveryFor(key[1])
  <2>1. call[g].level = key[1] /\ tally[c] = n
    BY <1>1, <1>3 DEF Key, CounterIs
  <2>2. k \in Nat /\ k >= 1
    BY EveryForIs DEF Keys
  <2>3. n \in Nat /\ m \in Nat
    BY CountedFinite
  <2>4. Cardinality(Counted(key)') = n + 1
    <3>1. Counted(key)' = Counted(key) \cup {call[g]} /\ call[g] \notin Counted(key)
      BY <1>1, <1>3 DEF Counted, WithKey
    <3> QED
      BY <3>1, CountedFinite, FS_AddElement
  <2>5. Cardinality(WithKey(key, kept)') = m + (IF n % k # 0 THEN 0 ELSE 1)
    <3>1. CASE n % k # 0
      <4>1. WithKey(key, kept)' = WithKey(key, kept)
        BY <1>1, <2>1, <3>1 DEF WithKey
      <4> QED
        BY <2>3, <3>1, <4>1
    <3>2. CASE ~(n % k # 0)
      <4>1. /\ WithKey(key, kept)' = WithKey(key, kept) \cup {call[g]}
            /\ call[g] \notin WithKey(key, kept)
        BY <1>1, <1>3, <2>1, <3>2 DEF WithKey
      <4>2. Cardinality(WithKey(key, kept)') = m + 1
        BY <4>1, CountedFinite, FS_AddElement
      <4> QED
        BY <3>2, <4>2
    <3> QED
      BY <3>1, <3>2
  <2>6. m = (n + k - 1) \div k
    BY DEF KeyKept
  <2>7. k' = k
    BY DEF EveryFor
  <2>8. /\ (n + k - 1) \div k \in Nat
        /\ ((n + 1) + k - 1) \div k = (n + k - 1) \div k + (IF n % k = 0 THEN 1 ELSE 0)
    <3> HIDE DEF n, k
    <3> QED
      BY <2>2, <2>3, PeriodsBegun
  <2>9. m + (IF n % k # 0 THEN 0 ELSE 1) = ((n + 1) + k - 1) \div k
    <3> HIDE DEF n, m, k
    <3>1. CASE n % k = 0
      BY <2>6, <2>8, <3>1
    <3>2. CASE n % k # 0
      BY <2>3, <2>6, <2>8, <3>2
    <3> QED
      BY <3>1, <3>2
  <2> QED
    BY <2>4, <2>5, <2>7, <2>9 DEF KeyKept
<1> QED
  BY <1>2, <1>3

LEMMA SamplingStep == PipelineInv /\ SamplerInv /\ SamplingKeeps /\ [Next]_vars => SamplingKeeps'
<1> SUFFICES ASSUME PipelineInv, SamplerInv, SamplingKeeps, [Next]_vars PROVE SamplingKeeps'
  OBVIOUS
<1>1. CASE UNCHANGED <<sampled, kept>>
  <2>1. \A key \in Keys : KeyKept(key)'
    BY <1>1, KeptByKey DEF KeyKept, Counted, WithKey, EveryFor
  <2> QED
    BY <2>1 DEF SamplingKeeps, KeyKept, Counted, WithKey
<1>2. ASSUME NEW g \in Goroutines, Count(g) PROVE SamplingKeeps'
  <2>1. \A key \in Keys : KeyKept(key)'
    BY <1>2, CountKeepsPeriods, KeptByKey
  <2> QED
    BY <2>1 DEF SamplingKeeps, KeyKept, Counted, WithKey
<1>3. ASSUME NEW g \in Goroutines, Sample(g) PROVE SamplingKeeps'
  BY <1>1, <1>3 DEF Sample, history
<1>4. CASE Snapshot \/ UNCHANGED vars
  BY <1>1, <1>4 DEF Snapshot, vars, history
<1> QED
  BY <1>1, <1>2, <1>3, <1>4, SamplerAlone DEF Next

\* The sampler keeps the first call of every period of a key, however the goroutines
\* interleave between the lookup of the counter and the count.
THEOREM SamplingKeepsCorrect == Spec => []SamplingKeeps
<1>1. Init /\ [][Next]_vars /\ []PipelineInv /\ []SamplerInv => []SamplingKeeps
  BY SamplingInit, SamplingStep, PTL
<1> QED
  BY <1>1, PipelineInvariant, SamplerInvariant, PTL DEF Spec
=============================================================================
