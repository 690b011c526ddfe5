---------------------------- MODULE SinkBuilder ----------------------------
(***************************************************************************)
(* From a configuration to a running tree of sinks and back: the registry  *)
(* of factories, the loaders for JSON and YAML with their expansion of     *)
(* environment variables, BuildFromConfig, the way of an event through the *)
(* tree, and Close.                                                        *)
(*                                                                         *)
(* A tree is a function from its places.  A sink stands at <<2, 0, 1>> if  *)
(* it is the first of the Sinks of the Next of the second sink of the      *)
(* configuration; the running sink it becomes, with the level filter in    *)
(* front of it, goes by the same place.  A parameter stands at <<name>>    *)
(* and the items of its value below it.  Of a value there is its Go type   *)
(* and, if it is a string, its text.                                       *)
(*                                                                         *)
(* The registry only grows and a factory is looked up under its lock, so   *)
(* that a build is one step although registrations may run beside it.      *)
(***************************************************************************)
EXTENDS Naturals, SequencesExt, TLC

CONSTANTS
  Documents,     \* configurations as they are written: a function from their names
  Depth,         \* bound of the model: sinks in sinks, and values in values
  Environments,  \* what "$..." stands for: functions from references to texts
  Spelling,      \* other spellings of a word, with what normalizeName makes of them
  Names,         \* names the program registers factories under, and the factories
  Factories,
  Levels,        \* levels of the events logged
  MaxRegistered  \* bound of the model: factories the program registers

Loaders  == {"code", "json", "yaml"}
Sections == {"sinks", "processors"}
Wrappers == {"async", "retry", "circuit_breaker", "batch"}
BuiltIn  == [sinks      |-> {"nop", "json", "text", "file", "http"},
             processors |-> {"redact", "sampling", "context_enricher"}]

Nested(type) == type \in Wrappers \cup {"fanout"}

\* Whatever stands in something stands below its place.
IsTree(places) ==
  \A p \in places : Len(p) \in 1..Depth /\ (Len(p) > 1 => Front(p) \in places)

\* Maps and lists that come from a file are of the general types.
Containers(inFile) == {"list", "map"} \cup (IF inFile THEN {} ELSE {"strings", "strmap"})

\* A sink or a processor.
WellFormed(s, inFile) ==
  /\ {"type", "params"} \subseteq DOMAIN s
  /\ \A q \in DOMAIN s.params : q \in Seq(STRING)
  /\ IsTree(DOMAIN s.params)
  /\ \A q \in DOMAIN s.params : Len(q) > 1 => s.params[Front(q)].kind \in Containers(inFile)

ASSUME BuilderAssumption ==
  /\ Depth \in Nat \ {0} /\ MaxRegistered \in Nat
  /\ \A f \in Factories : ~Nested(f) /\ \A s \in Sections : f \notin BuiltIn[s]
  /\ \A d \in DOMAIN Documents :
       LET sinks      == Documents[d].config.sinks
           processors == Documents[d].config.processors
       IN /\ \A p \in DOMAIN sinks : p \in Seq(Nat)
          /\ IsTree(DOMAIN sinks)
          /\ \A p \in DOMAIN sinks : WellFormed(sinks[p], Documents[d].inFile)
          /\ \A i \in DOMAIN processors : WellFormed(processors[i], Documents[d].inFile)

VARIABLES
  registry,    \* the factory of every registered name, by section
  accepted,    \* history: <<section, name, factory>> of every registration accepted
  env,         \* the environment; it does not change while the program runs
  unopenable,  \* external: paths of files that cannot be opened; nor do these
  document, loader, cfg,  \* the configuration, who has read it, the Config made of it
  phase,
  sink,        \* the tree of running sinks that was built from it
  open,        \* its files and worker goroutines, by the place of their sink
  level, got   \* the last event's level, or {}, and the leaves it reached

vars == <<registry, accepted, env, unopenable, document, loader, cfg, phase,
          sink, open, level, got>>

NormalizeName(s) == IF s \in DOMAIN Spelling THEN Spelling[s] ELSE s

Init ==
  /\ registry = [s \in Sections |-> [n \in BuiltIn[s] |-> n]]
  /\ accepted = {}
  /\ env \in Environments /\ unopenable \in SUBSET {"a.log", "b.log"}
  /\ document = "none" /\ loader = "code"
  /\ cfg = [name |-> "", level |-> 0, sinks |-> <<>>, processors |-> <<>>]
  /\ phase = "idle" /\ sink = <<>> /\ open = {}
  /\ level = {} /\ got = {}

-----------------------------------------------------------------------------
(* The registry. *)

Register(section, name, factory) ==
  LET n == NormalizeName(name) IN
  /\ Cardinality(accepted) < MaxRegistered
  /\ factory # "nil" /\ n # "" /\ n \notin DOMAIN registry[section]
  /\ registry' = [registry EXCEPT ![section] =
                    [m \in DOMAIN @ \cup {n} |-> IF m = n THEN factory ELSE @[m]]]
  /\ accepted' = accepted \cup {<<section, n, factory>>}
  /\ UNCHANGED <<env, unopenable, document, loader, cfg, phase, sink, open, level, got>>

-----------------------------------------------------------------------------
(* Loading: the types that values come in, and the environment. *)

\* The places that a recursion comes to that goes down to these and to no others.
Visits(places) ==
  LET visits[n \in 1..Depth] ==
        {p \in places : Len(p) = n /\ (n > 1 => Front(p) \in visits[n - 1])}
  IN UNION {visits[n] : n \in 1..Depth}

\* Every number of a JSON document is a float64; YAML tells integers apart.
Decode(by, v) ==
  IF by = "json" /\ v.kind \in {"int", "negative"} THEN [v EXCEPT !.kind = "float64"] ELSE v

Expand(s) == IF s \in DOMAIN env THEN env[s] ELSE s

ExpandValue(v) ==
  [kind |-> v.kind, is |-> IF v.kind = "string" THEN Expand(v.is) ELSE v.is]

\* A []string is expanded, too; a map[string]string is not.
ExpandMap(params) ==
  LET visited == Visits({q \in DOMAIN params :
                   Len(q) > 1 => params[Front(q)].kind \in {"list", "map", "strings"}})
  IN [q \in DOMAIN params |-> IF q \in visited THEN ExpandValue(params[q]) ELSE params[q]]

DecodeMap(by, params) == [q \in DOMAIN params |-> Decode(by, params[q])]

\* A sink or a processor.
LoadOne(by, s) ==
  [s EXCEPT !.type = Expand(@), !.params = ExpandMap(DecodeMap(by, @))]

\* Mutant of Below: what is nested is left as it was.
BelowTop(places) == {p \in places : Len(p) = 1}

\* A sink's Next and Sinks are loaded like the sink.
Below(places) == places

LoadSinks(by, sinks) ==
  [p \in DOMAIN sinks |-> IF p \in Visits(Below(DOMAIN sinks)) THEN LoadOne(by, sinks[p])
                                                              ELSE sinks[p]]

\* The program's own Config is used as it is.
ConfigOf(d, by) ==
  LET c == Documents[d].config IN
  IF by = "code" THEN c
  ELSE [name |-> Expand(c.name), level |-> c.level, sinks |-> LoadSinks(by, c.sinks),
        processors |-> [i \in DOMAIN c.processors |-> LoadOne(by, c.processors[i])]]

\* Only what a text can express comes from a file.
Load(d, by) ==
  /\ phase = "idle"
  /\ Documents[d].inFile \/ by = "code"
  /\ document' = d /\ loader' = by /\ cfg' = ConfigOf(d, by)
  /\ phase' = "loaded"
  /\ UNCHANGED <<registry, accepted, env, unopenable, sink, open, level, got>>

-----------------------------------------------------------------------------
(* Parameters: what each type reads, and what its getter takes. *)

WrapperParams(t) ==
  CASE t = "async" -> ("buffer_size" :> "integer" @@ "overflow_policy" :> "policy")
    [] t = "retry" -> ("max_attempts" :> "integer" @@ "initial_backoff" :> "duration"
                       @@ "max_backoff" :> "duration" @@ "multiplier" :> "number")
    [] t = "circuit_breaker" -> ("failure_threshold" :> "integer" @@ "open_timeout" :> "duration")
    [] t = "batch" -> ("max_batch_size" :> "integer" @@ "flush_interval" :> "duration"
                       @@ "max_queue_size" :> "integer" @@ "overflow_policy" :> "policy")
    [] OTHER -> <<>>

SinkParams(t) ==
  CASE t = "json" -> ("writer" :> "writer")
    [] t = "text" -> ("writer" :> "writer" @@ "time_layout" :> "text")
    [] t = "file" -> ("path" :> "word" @@ "format" :> "format" @@ "time_layout" :> "text"
                      @@ "perm" :> "mode")
    [] t = "http" -> ("url" :> "word" @@ "format" :> "format" @@ "time_layout" :> "text"
                      @@ "headers" :> "headers" @@ "method" :> "text" @@ "timeout" :> "duration")
    [] OTHER -> <<>>

ProcessorParams(t) ==
  CASE t = "redact" -> ("keys" :> "strings" @@ "mask" :> "text"
                        @@ "case_insensitive" :> "bool" @@ "redact_error" :> "bool")
    [] t = "sampling" -> [p \in {"debug_every", "info_every", "warn_every"} |-> "unsigned"]
    [] t = "context_enricher" ->
         [p \in {"include_user_id", "include_tenant_id", "include_session_id"} |-> "bool"]
         @@ [p \in {"user_field_name", "tenant_field_name", "session_field_name"} |-> "text"]
    [] OTHER -> <<>>

Wanted(t) == WrapperParams(t) @@ SinkParams(t) @@ ProcessorParams(t)

Required == {"writer", "word", "strings"}

Kinds == [integer |-> {"int", "negative", "uint64"}, unsigned |-> {"int", "uint64"},
          number |-> {"int", "negative", "float64"}, mode |-> {"int", "uint64", "mode"},
          duration |-> {"int", "negative", "duration"}, bool |-> {"bool"},
          text |-> {"string"}, writer |-> {"writer"}, strings |-> {"strings"},
          headers |-> {"strmap"}, policy |-> {}, format |-> {}, word |-> {}]

\* What getters make of the parameter p.
Takes(want, params, p) ==
  LET v == params[<<p>>] IN
  \/ v.kind \in Kinds[want]
  \/ v.kind = "string" /\
       CASE want = "policy"   -> NormalizeName(v.is) \in {"", "drop_newest", "drop-newest", "block"}
         [] want = "format"   -> NormalizeName(v.is) \in {"", "json", "text"}
         [] want = "word"     -> NormalizeName(v.is) # ""
         [] want = "duration" -> v.is \in {"2s"}
         [] OTHER             -> FALSE
  \/ /\ <<want, v.kind>> \in {<<"strings", "list">>, <<"headers", "map">>}
     /\ \A q \in DOMAIN params : Len(q) > 1 /\ Front(q) = <<p>> => params[q].kind = "string"

\* Parameters that nobody reads are not looked at.
Fine(t, params) ==
  \A p \in DOMAIN Wanted(t) :
    IF <<p>> \in DOMAIN params THEN Takes(Wanted(t)[p], params, p)
                              ELSE Wanted(t)[p] \notin Required

\* External: the program's own factories succeed, except the one called "failing".
Makes(section, t, params) ==
  /\ t \in DOMAIN registry[section]
  /\ registry[section][t] # "failing"
  /\ registry[section][t] \in BuiltIn[section] => Fine(registry[section][t], params)

-----------------------------------------------------------------------------
(* BuildFromConfig. *)

Type(c, at) == NormalizeName(c.sinks[at].type)

\* The sinks to build before the one at a place: a wrapper's Next, a fan-out's Sinks.
Kids(c, at) ==
  LET t == IF at = <<>> THEN "fanout" ELSE Type(c, at) IN
  {p \in DOMAIN c.sinks : Front(p) = at /\ IF Last(p) = 0 THEN t \in Wrappers ELSE t = "fanout"}

\* Nothing is wrong with a sink itself.  The wrappers' names never reach the registry.
Sound(c, at) ==
  LET t == Type(c, at)  params == c.sinks[at].params IN
  IF Nested(t) THEN Kids(c, at) # {} /\ Fine(t, params)
  ELSE /\ Makes("sinks", t, params)
       /\ registry.sinks[t] = "file" => params[<<"path">>].is \notin unopenable

\* Mutant of Opens: the file is opened before the other parameters are read.
OpensFirst(c, at, ok) ==
  \/ ok /\ Type(c, at) \in {"async", "batch"}
  \/ Type(c, at) = "file" /\ <<"path">> \in DOMAIN c.sinks[at].params

Opens(c, at, ok) == ok /\ Type(c, at) \in {"async", "batch", "file"}

\* One after the other, up to the first that fails; nothing is undone.
BuildAll(kids, below) ==
  LET tried == {p \in kids : \A q \in kids : Last(q) < Last(p) => below[q].ok}
  IN [ok   |-> \A p \in kids : below[p].ok,
      open |-> UNION {below[p].open : p \in tried},
      made |-> UNION {below[p].made : p \in kids}]

\* The sinks below come first, then the parameters.
BuildSink(c, at, below) ==
  LET all == BuildAll(Kids(c, at), below)
      ok  == all.ok /\ Sound(c, at)
  IN [ok   |-> ok,
      open |-> all.open \cup (IF Opens(c, at, ok) THEN {at} ELSE {}),
      made |-> all.made \cup {at}]

\* What comes of the sinks that may have n others below them.
Built(c) ==
  LET built[n \in 0..Depth] ==
        [at \in {p \in DOMAIN c.sinks : Len(p) = Depth - n} |->
           BuildSink(c, at, IF n = 0 THEN <<>> ELSE built[n - 1])]
  IN built

\* Mutant of Sinks: what could be built comes with the error.
SinksPartial(c, all) ==
  [p \in all.made |-> [type |-> Type(c, p), min |-> c.sinks[p].min]]

\* The level filter of a sink stands in front of it.
Sinks(c, all) ==
  [p \in IF all.ok THEN all.made ELSE {} |->
     [type |-> IF Nested(Type(c, p)) THEN Type(c, p) ELSE registry.sinks[Type(c, p)],
      min  |-> c.sinks[p].min]]

ProcessorsSound(c) ==
  \A i \in DOMAIN c.processors :
    Makes("processors", NormalizeName(c.processors[i].type), c.processors[i].params)

BuildTop(c) ==
  LET all == BuildAll(Kids(c, <<>>), Built(c)[Depth - 1]) IN
  IF ProcessorsSound(c) THEN [ok |-> all.ok, open |-> all.open, sink |-> Sinks(c, all)]
                        ELSE [ok |-> FALSE, open |-> {}, sink |-> <<>>]

BuildFromConfig ==
  /\ phase = "loaded"
  /\ LET b == BuildTop(cfg) IN
       /\ phase' = IF b.ok THEN "built" ELSE "failed"
       /\ sink' = b.sink /\ open' = b.open
  /\ UNCHANGED <<registry, accepted, env, unopenable, document, loader, cfg, level, got>>

-----------------------------------------------------------------------------
(* The logger that was built. *)

\* Mutant of Passes: an event of the least level is held back.
PassesAbove(min, l) == l > min

Passes(min, l) == l >= min

\* Every sink accepts what it gets and hands it on; NopSink keeps nothing of it.
Reaches(l) ==
  {p \in Visits({q \in DOMAIN sink : \A m \in sink[q].min : Passes(m, l)}) :
     ~Nested(sink[p].type) /\ sink[p].type # "nop"}

Log(l) ==
  /\ phase = "built"
  /\ level' = {l} /\ got' = IF l >= cfg.level THEN Reaches(l) ELSE {}
  /\ UNCHANGED <<registry, accepted, env, unopenable, document, loader, cfg, phase, sink, open>>

Worker(p) == sink[p].type \in {"async", "batch"}

LeftOf(p, q) ==
  \E i \in DOMAIN p \cap DOMAIN q : SubSeq(p, 1, i - 1) = SubSeq(q, 1, i - 1) /\ p[i] < q[i]

\* Mutant of Late: a worker closes what is below it with the caller's context.
LateBelow(since) ==
  {p \in DOMAIN sink : p = since \/ IsStrictPrefix(since, p) \/ LeftOf(since, p)}

\* The sinks that find the context of a Close done when it ends with the call of one
\* of them: that sink and those that are called after it, the sinks below a worker
\* excepted: a worker hands on a context of its own that is never done.
Late(since) ==
  {p \in DOMAIN sink :
     /\ p = since \/ IsStrictPrefix(since, p) \/ LeftOf(since, p)
     /\ \A q \in DOMAIN sink : Worker(q) => ~IsStrictPrefix(q, p)}

\* A retrying sink whose context is done makes no attempt.
WithoutAttempt(late) == {p \in late : sink[p].type = "retry"}

\* A worker whose caller's context is done may not get the close job: the select
\* that sends it is free to take the other case.
MayGiveUp(late) == {p \in late \cap open : Worker(p)}

\* A worker that has ended has closed what is below it; its Close returns nil.
Ended == {p \in DOMAIN sink : Worker(p) /\ p \notin open}

\* Every other sink closes the ones below it, one after the other, whatever they
\* return, and its own file or worker.
Closes(gaveUp) == Visits(DOMAIN sink \ (gaveUp \cup Ended))

\* A sink that gave the Close up returns the context's error, and so does the logger.
\* The program may call Close again.
Close ==
  /\ phase \in {"built", "unclosed", "closed"}
  /\ \E late \in {{}} \cup {Late(p) : p \in DOMAIN sink} : \E some \in SUBSET MayGiveUp(late) :
       LET gaveUp == WithoutAttempt(late) \cup some
           closed == Closes(gaveUp)
       IN /\ open' = open \ closed
          /\ phase' = IF \E p \in gaveUp : Len(p) > 1 => Front(p) \in closed
                        THEN "unclosed" ELSE "closed"
  /\ UNCHANGED <<registry, accepted, env, unopenable, document, loader, cfg, sink, level, got>>

Next ==
  \/ \E s \in Sections, n \in Names, f \in Factories : Register(s, n, f)
  \/ \E d \in DOMAIN Documents, by \in Loaders : Load(d, by)
  \/ BuildFromConfig
  \/ \E l \in Levels : Log(l)
  \/ Close

Spec == Init /\ [][Next]_vars

-----------------------------------------------------------------------------
TypeOK ==
  /\ \A s \in Sections : \A n \in DOMAIN registry[s] :
       registry[s][n] \in BuiltIn[s] \cup (Factories \ {"nil"})
  /\ Cardinality(accepted) <= MaxRegistered
  /\ phase \in {"idle", "loaded", "failed", "built", "unclosed", "closed"}
  /\ loader \in Loaders /\ level \in SUBSET Levels
  /\ phase \in {"idle", "loaded", "failed"} => sink = <<>> /\ got = {}
  /\ DOMAIN sink \subseteq DOMAIN cfg.sinks

\* What the loading makes of a sink or a processor.
ExpandedOnce(written, read) ==
  /\ read.type = IF loader = "code" THEN written.type ELSE Expand(written.type)
  /\ DOMAIN read.params = DOMAIN written.params
  /\ \A q \in DOMAIN written.params : written.params[q].kind = "string" =>
       /\ read.params[q].kind = "string"
       /\ read.params[q].is = IF loader = "code" THEN written.params[q].is
                                               ELSE Expand(written.params[q].is)

\* A file's references are expanded wherever they stand, however deep in the
\* tree and in the parameters, and once: what comes out of the environment is
\* not expanded again.  A Config of the program's own is left as it is.
EnvExpandedOnce ==
  phase = "loaded" =>
    LET written == Documents[document].config IN
    /\ cfg.name = IF loader = "code" THEN written.name ELSE Expand(written.name)
    /\ DOMAIN cfg.sinks = DOMAIN written.sinks
    /\ \A p \in DOMAIN cfg.sinks : ExpandedOnce(written.sinks[p], cfg.sinks[p])
    /\ \A i \in DOMAIN cfg.processors : ExpandedOnce(written.processors[i], cfg.processors[i])

\* The configured sinks that count: those that a wrapper or a fan-out asks for.
Used(c) ==
  {p \in DOMAIN c.sinks : \A i \in 1..Len(p) : SubSeq(p, 1, i) \in Kids(c, SubSeq(p, 1, i - 1))}

\* p is built ahead of q: below it, or to the left.
Ahead(p, q) == IsStrictPrefix(q, p) \/ LeftOf(p, q)

\* A build succeeds exactly when nothing is wrong anywhere in the configuration:
\* one bad sink, at whatever depth, refuses it as a whole.  It opens the files
\* and starts the workers of the sinks ahead of the first bad one, and of no
\* other; when it fails they stay open and nobody has them.
BuildOutcome ==
  [][phase = "loaded" /\ phase' # "loaded" =>
       LET fine == {p \in Used(cfg) : /\ ProcessorsSound(cfg) /\ Sound(cfg, p)
                                      /\ \A q \in Used(cfg) : Ahead(q, p) => Sound(cfg, q)}
       IN /\ phase' = "built" <=> ProcessorsSound(cfg) /\ fine = Used(cfg)
          /\ open' = {p \in fine : Type(cfg, p) \in {"async", "batch", "file"}}]_vars

\* An event reaches exactly the leaves whose whole path lets its level through,
\* whatever wrappers and fan-outs are on the way.
RoutesByPath ==
  \A l \in level :
    got = {p \in Used(cfg) :
             /\ l >= cfg.level /\ ~Nested(Type(cfg, p)) /\ Type(cfg, p) # "nop"
             /\ \A i \in 1..Len(p) : \A m \in cfg.sinks[SubSeq(p, 1, i)].min : l >= m}

\* A Close that no sink gives up, every one with a live context and every one that
\* returns nil among them, leaves no file open and no worker running, however many
\* Closes were given up half way before it.  After one that was given up what is still
\* open stands below a retrying sink or belongs to a worker that still runs; and a
\* worker that has ended leaves nothing open below it, where no Close would come again.
CloseReleasesAll ==
  /\ phase = "closed" => open = {}
  /\ phase = "unclosed" => \A p \in open :
       \/ \E q \in DOMAIN sink : sink[q].type = "retry" /\ IsStrictPrefix(q, p)
       \/ \E q \in open : Worker(q) /\ IsPrefix(q, p)
  /\ \A q \in Ended : \A p \in open : ~IsStrictPrefix(q, p)
=============================================================================
