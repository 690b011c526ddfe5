--------------------------- MODULE MCSinkBuilder ---------------------------
(* Configurations for TLC: nested and flat, with values of every kind. *)
EXTENDS SinkBuilder

Is(k)    == [kind |-> k, is |-> ""]
Text(s)  == [kind |-> "string", is |-> s]

\* A parameter: a value alone, and one with others below it.
Param(p, v)        == <<p>> :> v
Holds(p, k, items) == <<p>> :> Is(k) @@ [q \in {<<p, i>> : i \in DOMAIN items} |-> items[q[2]]]

\* The sinks of a tree, one step further down.
Down(step, tree) == [p \in {<<step>> \o q : q \in DOMAIN tree} |-> tree[Tail(p)]]
Beside(trees)    == [p \in UNION {DOMAIN Down(i, trees[i]) : i \in DOMAIN trees} |->
                       trees[p[1]][Tail(p)]]

Leaf(t, params)         == <<>> :> [type |-> t, params |-> params, min |-> {}]
Around(t, params, tree) == Leaf(t, params) @@ Down(0, tree)
Over(t, trees)          == Leaf(t, <<>>) @@ Beside(trees)
From(min, tree)         == [tree EXCEPT ![<<>>].min = {min}]
Config(least, trees, ps) ==
  [name |-> "$NAME", level |-> least, sinks |-> Beside(trees), processors |-> ps]
File(config)    == [inFile |-> TRUE, config |-> config]
Program(config) == [inFile |-> FALSE, config |-> config]

LogFile(path) == Leaf("file", Param("path", Text(path)))
Redact(keys)  == [type |-> "redact", params |-> keys @@ Param("case_insensitive", Is("bool"))]
Keys          == Holds("keys", "list", "1" :> Text("password") @@ "2" :> Text("$NAME"))

MCDocuments ==
  [ breaker |-> File(Config(1, <<Around("circuit_breaker",
        Param("failure_threshold", Is("int")) @@ Param("open_timeout", Text("2s")),
        Leaf("http", Param("url", Text("$URL")) @@ Holds("headers", "map", "env" :> Text("$NAME"))))>>,
        <<Redact(Keys)>>)),
    stacked |-> File(Config(0, <<From(1, Around(" Async ", Param("overflow_policy", Text("$POLICY")),
        From(2, Around("retry", Param("multiplier", Is("float64")) @@ Param("initail_backoff", Is("bool")),
        LogFile("a.log"))))), From(3, Leaf("custom",
        Holds("tags", "list", "1" :> Is("map")) @@ (<<"tags", "1", "env">> :> Text("$NAME"))))>>, <<>>)),
    late |-> File(Config(0, <<LogFile("a.log"), Over("fanout",
        <<Around("batch", Param("flush_interval", Text("2s")), LogFile("b.log")),
          Around("async", Param("buffer_size", Text("large")), Leaf("nop", <<>>))>>)>>, <<>>)),
    paired |-> File(Config(0, <<Around("retry", <<>>, Around("batch", <<>>, LogFile("b.log"))),
        LogFile("a.log"), Around("async", <<>>, Over("fanout", <<LogFile("b.log")>>))>>, <<>>)),
    formats |-> File(Config(2, <<Leaf("file", Param("path", Text("b.log")) @@ Param("format", Text("$POLICY"))
        @@ Param("perm", Is("int")))>>, <<>>)),
    negative |-> Program(Config(2, <<Around("batch", Param("max_batch_size", Is("negative")), LogFile("b.log")),
        Leaf("file", Param("path", Text("a.log")) @@ Param("perm", Is("negative")))>>, <<>>)),
    typed |-> Program(Config(0, <<Over("fanout", <<From(2, Leaf("text", Param("writer", Is("writer")))),
        Leaf("http", Param("url", Text("u")) @@ Param("timeout", Is("duration"))
             @@ Holds("headers", "strmap", "env" :> Text("$NAME"))), Leaf("nop", <<>>)>>)>>,
        <<[type |-> "sampling", params |-> Param("debug_every", Is("uint64"))],
          Redact(Holds("keys", "strings", "1" :> Text("password")))>>)),
    byName |-> File(Config(0, <<Leaf("$TYPE", Param("path", Text("a.log")))>>,
        <<[type |-> "sampling", params |-> Param("info_every", Is("int"))]>>)),
    unread |-> File(Config(0, <<LogFile("a.log")>>, <<Redact(Holds("keys", "list", "1" :> Is("int")))>>)),
    masked |-> File(Config(0, <<LogFile("a.log")>>,
        <<[type |-> "custom", params |-> <<>>], [type |-> "context_enricher", params |-> <<>>]>>)),
    shadowed |-> File(Config(0, <<Leaf("async", <<>>)>>, <<>>)),
    childless |-> File(Config(0, <<From(1, LogFile("b.log")), Over("fanout", <<>>)>>, <<>>)),
    nothing |-> File(Config(0, <<>>, <<>>)) ]

MCEnvironments ==
  { "$NAME" :> "$URL" @@ "$URL" :> "u" @@ "$POLICY" :> "block" @@ "$TYPE" :> "FILE",
    "$NAME" :> "" @@ "$URL" :> "" @@ "$POLICY" :> "text" @@ "$TYPE" :> "custom" }

MCSpelling == " Async " :> "async" @@ "FILE" :> "file" @@ "Custom " :> "custom"
=============================================================================
