---------------------------- MODULE EventFields ----------------------------
(***************************************************************************)
(* Whose memory a field is in.  A Go slice is a window on an array that    *)
(* others may see, append writes into spare room when there is some, and   *)
(* the redaction works in place: so the loggers, the callers, the events   *)
(* under way and those queued for later must not share arrays, or one of   *)
(* them changes under another's hands.                                     *)
(*                                                                         *)
(* Loggers are derived from one another and log from several goroutines;   *)
(* an event passes the processors and goes to the children of a fan-out,   *)
(* where text and JSON are encoded at once and the async sink's worker     *)
(* encodes later.  Maps and slices inside a field are the caller's own.    *)
(***************************************************************************)
EXTENDS Redaction, FiniteSets

CONSTANTS
  Goroutines,
  Args,          \* the callers' own arrays of fields: a sequence of sequences
  Boxes,         \* the containers fields may point to, with what they hold at first
  Contexts,      \* contexts, each the set of the identifiers it carries
  Pipeline,      \* processors in order: "redact", and the identifiers of the enricher
  Children,      \* the fan-out's children in order: "text", "json" or "async"
  Prefixed,      \* the reserved keys, with what they become for a field
  Rank,          \* the order of the keys
  Values,        \* what fields may hold, but for containers that others see
  RedactError, CaseInsensitive, \* the redaction's options of that name
  Names, Errors, \* names for loggers, and what LogErr may be given for an error
  Spare,         \* bounds of the model: the room append may add,
  MaxEvents,     \* the events there are,
  MaxMade        \* and the loggers and events together

NoError     == [kind |-> "none", is |-> ""]
IsRef(v)    == "box" \in DOMAIN v
IsField(f)  == /\ f = [key |-> f.key, value |-> f.value] /\ f.key \in DOMAIN Rank
               /\ IF IsRef(f.value) THEN f.value.box \in DOMAIN Boxes ELSE f.value \in Values
IdField(id) == [key |-> id, value |-> [kind |-> "leaf", is |-> id]]

\* What a caller may make of a container.
Changed(box) == [box EXCEPT !.items = [k \in DOMAIN @ |-> [kind |-> "leaf", is |-> "changed"]]]

IsList(s) == s \in Seq({s[i] : i \in DOMAIN s})

ASSUME FieldsAssumption ==
  /\ IsList(Args)
  /\ \A a \in DOMAIN Args : /\ IsList(Args[a])
                            /\ \A i \in DOMAIN Args[a] : IsField(Args[a][i])

ASSUME RankAssumption == \A k \in DOMAIN Rank : Rank[k] \in Nat

ASSUME ProcessorsAssumption ==
  /\ IsList(Pipeline) /\ IsList(Children)
  /\ \A i \in DOMAIN Pipeline : Pipeline[i] # "redact" => IsField(IdField(Pipeline[i]))

Redacted(key, v) == RedactValue(CaseInsensitive, key, v)

ASSUME ValuesAssumption ==
  /\ CaseInsensitive \in BOOLEAN
  /\ Values \subseteq Samples /\ \A v \in Values : ~IsRef(v)
  /\ \A b \in DOMAIN Boxes : Boxes[b] \in Values /\ Changed(Boxes[b]) \in Values
                             /\ Changed(Boxes[b]).kind = Boxes[b].kind
  /\ Errors \subseteq Values \cup {NoError}
  /\ \A v \in Values, k \in DOMAIN Rank \cup {"error"} : Redacted(k, v) \in Values

\* The two attributes that events differ in are reserved, and no key becomes one.
ASSUME PrefixAssumption ==
  /\ {"logger_name", "error"} \subseteq DOMAIN Prefixed
  /\ \A k \in DOMAIN Prefixed : Prefixed[k] \notin {"logger_name", "error"}

ASSUME BoundsAssumption == Spare \subseteq Nat /\ MaxEvents \in Nat /\ MaxMade \in Nat /\ MaxMade >= 1

VARIABLES
  heap,     \* the arrays; the callers' own come first
  boxes,    \* the containers
  loggers,  \* fields, default context, and as history the fields they should have
  call,     \* the LogErr a goroutine is in: where it is, its event
  queue,    \* the async sink's events
  events,   \* history: what each event should look like
  records   \* history: what has been written

vars == <<heap, boxes, loggers, call, queue, events, records>>

Nil     == [arr |-> 0, len |-> 0]
Idle    == [stage |-> 0, event |-> 0, base |-> Nil, fields |-> Nil, ids |-> {},
            name |-> <<>>, err |-> NoError, again |-> FALSE]
Blank   == [key |-> "", value |-> NoError]

Content(h, s)     == IF s.len = 0 THEN <<>> ELSE SubSeq(h[s.arr], 1, s.len)
Fits(h, s, cells) == s.arr # 0 /\ s.len + Len(cells) <= Len(h[s.arr])

\* A new array.
Alloc(h, cells) == [heap |-> Append(h, cells), slice |-> [arr |-> Len(h) + 1, len |-> Len(cells)]]

\* append: into the array if there is room, into a new one with spare room if not.
GoAppend(h, s, cells, spare) ==
  IF cells = <<>> THEN [heap |-> h, slice |-> s]
  ELSE IF Fits(h, s, cells)
    THEN [heap  |-> [h EXCEPT ![s.arr] = [i \in DOMAIN @ |->
                       IF i \in s.len + 1 .. s.len + Len(cells) THEN cells[i - s.len] ELSE @[i]]],
          slice |-> [s EXCEPT !.len = @ + Len(cells)]]
    ELSE [heap  |-> Append(h, Content(h, s) \o cells \o [i \in 1..spare |-> Blank]),
          slice |-> [arr |-> Len(h) + 1, len |-> s.len + Len(cells)]]

cloneFields(h, s) ==
  IF s.len = 0 THEN [heap |-> h, slice |-> Nil] ELSE Alloc(h, Content(h, s))

ArgSlice(a) == [arr |-> a, len |-> Len(Args[a])]

Root == [fields |-> Nil, name |-> <<>>, ctx |-> {}, was |-> <<>>]

Init ==
  /\ heap = Args /\ boxes = Boxes
  /\ loggers = <<Root>>
  /\ call = [g \in Goroutines |-> Idle]
  /\ queue = <<>> /\ events = <<>> /\ records = {}

-----------------------------------------------------------------------------
(* Derived loggers. *)

\* The three differ in what they change of the clone.
Derive(l, fields, name, ctx, spare) ==
  LET own   == cloneFields(heap, loggers[l].fields)
      cells == Content(heap, fields)
      more  == GoAppend(own.heap, own.slice, cells, spare)
  IN /\ Len(loggers) + Len(events) < MaxMade
     /\ heap' = more.heap
     /\ loggers' = Append(loggers, [fields |-> more.slice, name |-> name, ctx |-> ctx,
                                    was |-> loggers[l].was \o cells])
     /\ UNCHANGED <<boxes, call, queue, events, records>>

With(l) == \E a \in DOMAIN Args, spare \in Spare :
  Derive(l, ArgSlice(a), loggers[l].name, loggers[l].ctx, spare)

WithName(l, n) == Derive(l, Nil, Append(loggers[l].name, n), loggers[l].ctx, 0)

WithContext(l) == \E c \in Contexts : Derive(l, Nil, loggers[l].name, {c}, 0)

-----------------------------------------------------------------------------
(* Values: what a field holds, what it is turned into. *)

Snapshot(v) == IF IsRef(v) THEN boxes[v.box] ELSE v

\* A container that redactValue does not know, such as a map[string]string.
Opaque(v) == IsRef(v) /\ boxes[v.box].kind = "typed"

\* Mutant of RedactField: what is behind the key is masked, or left alone.
RedactFieldShallow(f) ==
  LET r == Redacted(f.key, Snapshot(f.value)) IN
  [f EXCEPT !.value = IF r.kind = "mask" THEN r ELSE @]

\* An opaque container stays where it is; any other is copied on the way.
RedactField(f) ==
  LET r == Redacted(f.key, Snapshot(f.value)) IN
  [f EXCEPT !.value = IF Opaque(@) /\ r = Snapshot(@) THEN @ ELSE r]

HasKey(cells, k) == \E i \in DOMAIN cells : cells[i].key = k

\* What a processor should make of some fields, whatever memory they are in.
Processed(p, cells, ids) ==
  IF p = "redact" THEN [i \in DOMAIN cells |-> RedactField(cells[i])]
  ELSE IF p \in ids /\ ~HasKey(cells, p) THEN Append(cells, IdField(p))
  ELSE cells

\* Fields with what their containers hold.
Shown(cells) == [i \in DOMAIN cells |-> [cells[i] EXCEPT !.value = Snapshot(@)]]

\* What the processors make of fields, one after the other.
After(cells, ids) ==
  LET after[i \in 0..Len(Pipeline)] ==
        IF i = 0 THEN cells ELSE Processed(Pipeline[i], after[i - 1], ids)
  IN after

Expected(cells, ids) == Shown(After(cells, ids)[Len(Pipeline)])

\* The event's error, once it has been through some processors.
ErrorAfter(processors, err) ==
  IF RedactError /\ "redact" \in processors /\ err # NoError THEN Redacted("error", err) ELSE err

-----------------------------------------------------------------------------
(* Encoding. *)

PayloadKey(k) == IF k \in DOMAIN Prefixed THEN Prefixed[k] ELSE k

\* The attributes of an event that has them: its logger's name and its error
\* stand for all thirteen.
Attributes(name, err) ==
  [k \in (IF name = <<>> THEN {} ELSE {"logger_name"}) \cup (IF err = NoError THEN {} ELSE {"error"}) |->
     IF k = "error" THEN err ELSE name]

KeysOf(cells) == [i \in DOMAIN cells |-> PayloadKey(cells[i].key)]

LastWith(keys, k) ==
  CHOOSE i \in DOMAIN keys : keys[i] = k /\ \A j \in DOMAIN keys : keys[j] = k => j <= i

\* Of several fields with a key the last one counts, and of a field and an
\* attribute the field.
EventPayload(cells, name, err) ==
  LET keys == KeysOf(cells)
      used == {keys[i] : i \in DOMAIN keys}
  IN [k \in used \cup DOMAIN Attributes(name, err) |->
        IF k \in used THEN Shown(cells)[LastWith(keys, k)].value ELSE Attributes(name, err)[k]]

\* The place of a field in the order of the keys: up to twelve fields sort.Slice
\* inserts one by one, so that those of one key stay in order.
Place(cells, i) ==
  LET rank(j) == Rank[cells[j].key] IN
  Cardinality({j \in DOMAIN cells : rank(j) < rank(i) \/ (rank(j) = rank(i) /\ j <= i)})

Sorted(cells) == [n \in DOMAIN cells |-> cells[CHOOSE i \in DOMAIN cells : Place(cells, i) = n]]

Line(cells) == Sorted(Shown(cells))

-----------------------------------------------------------------------------
(* LogErr. *)

\* Mutant of NewFields: the call's fields go behind the logger's own.
NewFieldsShared(l, a, spare, more) ==
  GoAppend(heap, loggers[l].fields, Content(heap, ArgSlice(a)), more)

\* Mutant of NewFields: with none of the logger's the caller's slice will do.
NewFieldsBorrowed(l, a, spare, more) ==
  LET copy == GoAppend(heap, Nil, Content(heap, loggers[l].fields), spare) IN
  IF copy.slice.len = 0 THEN [heap |-> heap, slice |-> ArgSlice(a)]
  ELSE GoAppend(copy.heap, copy.slice, Content(heap, ArgSlice(a)), more)

\* The logger's fields are copied, the call's come behind them.
NewFields(l, a, spare, more) ==
  LET copy == GoAppend(heap, Nil, Content(heap, loggers[l].fields), spare)
  IN GoAppend(copy.heap, copy.slice, Content(heap, ArgSlice(a)), more)

\* The context of the call, else the logger's, else the background.
resolveContext(given, l) == IF given # {} THEN given ELSE loggers[l].ctx

\* UserIDFromContext and the like.
IdsIn(ctx) == UNION ctx

LogErr(g, l, a, given, err) ==
  /\ call[g] = Idle
  /\ Len(events) < MaxEvents /\ Len(loggers) + Len(events) < MaxMade
  /\ \E spare \in Spare, more \in Spare :
       LET f    == NewFields(l, a, spare, more)
           ids  == IdsIn(resolveContext(given, l))
           want == Expected(loggers[l].was \o Args[a], ids)
           end  == ErrorAfter({Pipeline[i] : i \in DOMAIN Pipeline}, err)
       IN /\ heap' = f.heap
          /\ call' = [call EXCEPT ![g] = [Idle EXCEPT !.stage = 1, !.event = Len(events) + 1,
                       !.base = f.slice, !.fields = f.slice, !.ids = ids,
                       !.name = loggers[l].name, !.err = err]]
          /\ events' = Append(events, [name |-> loggers[l].name, err |-> end,
                       line |-> Line(want), payload |-> EventPayload(want, loggers[l].name, end)])
  /\ UNCHANGED <<boxes, loggers, queue, records>>

Processing(g) == call[g].stage \in 1..Len(Pipeline)
Processor(g)  == Pipeline[call[g].stage]

\* RedactionProcessor writes into the event's array.
Redact(g) ==
  /\ Processing(g) /\ Processor(g) = "redact"
  /\ LET s == call[g].fields IN
       heap' = IF s.len = 0 THEN heap
               ELSE [heap EXCEPT ![s.arr] = [i \in DOMAIN @ |->
                       IF i <= s.len THEN RedactField(@[i]) ELSE @[i]]]
  /\ call' = [call EXCEPT ![g].stage = @ + 1, ![g].err = ErrorAfter({"redact"}, @)]
  /\ UNCHANGED <<boxes, loggers, queue, events, records>>

\* Mutant of Adds: the enricher does not look what is there.
AddsAnyway(g, id) == id \in call[g].ids

Adds(g, id) == id \in call[g].ids /\ ~HasKey(Content(heap, call[g].fields), id)

\* ContextEnricher, one identifier after the other.
Enrich(g) ==
  /\ Processing(g) /\ Processor(g) # "redact"
  /\ \E spare \in Spare :
       LET f == GoAppend(heap, call[g].fields,
                         IF Adds(g, Processor(g)) THEN <<IdField(Processor(g))>> ELSE <<>>, spare)
       IN heap' = f.heap /\ call' = [call EXCEPT ![g].stage = @ + 1, ![g].fields = f.slice]
  /\ UNCHANGED <<boxes, loggers, queue, events, records>>

-----------------------------------------------------------------------------
(* The children of the fan-out. *)

Overwritten(h, s, cells) ==
  IF s.len = 0 THEN h
  ELSE [h EXCEPT ![s.arr] = [i \in DOMAIN @ |-> IF i <= s.len THEN cells[i] ELSE @[i]]]

\* The text encoder sorts a clone of the fields, which nobody sees afterwards.
TextSorts(h, s) ==
  LET c == cloneFields(h, s)
  IN SubSeq(Overwritten(c.heap, c.slice, Sorted(Content(h, s))), 1, Len(h))

Writing(g) == call[g].stage \in Len(Pipeline) + 1 .. Len(Pipeline) + Len(Children)
Child(g)   == Children[call[g].stage - Len(Pipeline)]
Moves(g)   == call' = [call EXCEPT ![g].stage = @ + 1]

WriteText(g) ==
  /\ Writing(g) /\ Child(g) = "text"
  /\ heap' = TextSorts(heap, call[g].fields)
  /\ records' = records \cup {[event |-> call[g].event, by |-> "text",
                  line |-> Line(Content(heap, call[g].fields)), err |-> call[g].err]}
  /\ Moves(g)
  /\ UNCHANGED <<boxes, loggers, queue, events>>

WriteJSON(g) ==
  /\ Writing(g) /\ Child(g) = "json"
  /\ records' = records \cup {[event |-> call[g].event, by |-> "json",
                  payload |-> EventPayload(Content(heap, call[g].fields), call[g].name, call[g].err)]}
  /\ Moves(g)
  /\ UNCHANGED <<heap, boxes, loggers, queue, events>>

\* Mutant of WriteAsync: the event is queued and written again.
WriteAsyncStays(g) ==
  /\ Writing(g) /\ Child(g) = "async"
  /\ LET c == cloneFields(heap, call[g].fields) IN
       /\ heap' = c.heap
       /\ queue' = Append(queue, [event |-> call[g].event, fields |-> c.slice,
                                  name |-> call[g].name, err |-> call[g].err])
  /\ UNCHANGED <<call, boxes, loggers, events, records>>

\* AsyncSink.Write, with room in its channel: cloneEvent.
WriteAsync(g) ==
  /\ Writing(g) /\ Child(g) = "async"
  /\ LET c == cloneFields(heap, call[g].fields) IN
       /\ heap' = c.heap
       /\ queue' = Append(queue, [event |-> call[g].event, fields |-> c.slice,
                                  name |-> call[g].name, err |-> call[g].err])
  /\ Moves(g)
  /\ UNCHANGED <<boxes, loggers, events, records>>

\* The worker hands the oldest event to a JSON sink.
Deliver ==
  /\ queue # <<>>
  /\ LET e == Head(queue)
         cells == Content(heap, e.fields)
     IN records' = records \cup {[event |-> e.event, by |-> "async",
                     payload |-> EventPayload(cells, e.name, e.err),
                     shared |-> {PayloadKey(cells[i].key) :
                                   i \in {j \in DOMAIN cells : IsRef(cells[j].value)}}]}
  /\ queue' = Tail(queue)
  /\ UNCHANGED <<heap, boxes, loggers, call, events>>

AtEnd(g) == call[g].stage = Len(Pipeline) + Len(Children) + 1

Return(g) ==
  /\ AtEnd(g)
  /\ call' = [call EXCEPT ![g] = Idle]
  /\ UNCHANGED <<heap, boxes, loggers, queue, events, records>>

\* External: an interceptor calls its handler a second time with the same event;
\* bounded to one such call at a time.
CallAgain(g) ==
  /\ AtEnd(g) /\ \A other \in Goroutines : ~call[other].again
  /\ call' = [call EXCEPT ![g].stage = 1, ![g].again = TRUE, ![g].fields = call[g].base]
  /\ UNCHANGED <<heap, boxes, loggers, queue, events, records>>

\* The callers change what is in their containers, when no call is using them.
ChangeBoxes ==
  /\ \A g \in Goroutines : call[g] = Idle
  /\ boxes = Boxes
  /\ boxes' = [b \in DOMAIN boxes |-> Changed(boxes[b])]
  /\ UNCHANGED <<heap, loggers, call, queue, events, records>>

Next ==
  \/ \E l \in DOMAIN loggers :
       \/ With(l) \/ WithContext(l) \/ \E n \in Names : WithName(l, n)
       \/ \E g \in Goroutines, a \in DOMAIN Args, err \in Errors,
            given \in {{}} \cup {{c} : c \in Contexts} : LogErr(g, l, a, given, err)
  \/ \E g \in Goroutines : \/ Redact(g) \/ Enrich(g) \/ WriteText(g) \/ WriteJSON(g)
                            \/ WriteAsync(g) \/ Return(g) \/ CallAgain(g)
  \/ Deliver \/ ChangeBoxes

Spec == Init /\ [][Next]_vars

-----------------------------------------------------------------------------
Slice(s) == s = Nil \/ (s.arr \in DOMAIN heap /\ s.len \in 0..Len(heap[s.arr]))

TypeOK ==
  /\ Len(loggers) \in 1..MaxMade /\ Len(events) <= MaxEvents
  /\ \A l \in DOMAIN loggers : Slice(loggers[l].fields)
  /\ \A g \in Goroutines : /\ Slice(call[g].base) /\ Slice(call[g].fields)
                            /\ call[g].event \in 0..Len(events)
                            /\ call[g].stage \in 0..Len(Pipeline) + Len(Children) + 1
  /\ \A i \in DOMAIN queue : Slice(queue[i].fields)
  /\ Len(queue) <= 2 * Len(events) * Len(Children)

\* Loggers are immutable: whatever is derived from a logger or logged with it,
\* by whichever goroutine, neither it nor its fields ever change.
LoggersImmutable ==
  [][\A l \in DOMAIN loggers :
       /\ loggers'[l] = loggers[l]
       /\ Content(heap, loggers[l].fields)' = Content(heap, loggers[l].fields)]_vars

\* The callers' slices are left alone, though the processors work in place.
CallerUntouched == \A a \in DOMAIN Args : heap[a] = Args[a]

\* A field named like an attribute of the event never stands in for it: the name
\* and the error of a record are the logger's and the one LogErr was given, masked
\* or not, and a record of an event without has none.
AttributesOwn(payload, e) ==
  LET own == Attributes(e.name, e.err) IN
  \A k \in {"logger_name", "error"} :
    (k \in DOMAIN payload <=> k \in DOMAIN own) /\ (k \in DOMAIN own => payload[k] = own[k])

Faithful(r, e) ==
  CASE r.by = "text"  -> r.line = e.line /\ r.err = e.err
    [] r.by = "json"  -> r.payload = e.payload /\ AttributesOwn(r.payload, e)
    [] r.by = "async" -> /\ DOMAIN r.payload = DOMAIN e.payload
                         /\ \A k \in DOMAIN e.payload \ r.shared : r.payload[k] = e.payload[k]
                         /\ AttributesOwn(r.payload, e)

\* What is written of an event is what the logger's and the call's fields and the
\* context's identifiers were when it was logged, redacted and enriched: whatever
\* else is logged or derived meanwhile, however often an interceptor calls its
\* handler, and however late the worker encodes it, except for what it finds in
\* a container that the event still shares with the caller.  And no field stands
\* in for its name or its error.
RecordsFaithful == \A r \in records : Faithful(r, events[r.event])

\* Behind a redaction a queued event shares no container with the caller but
\* those the redaction does not look into.
OnlyOpaqueShared ==
  "redact" \in {Pipeline[i] : i \in DOMAIN Pipeline} =>
    \A q \in DOMAIN queue : LET cells == Content(heap, queue[q].fields) IN
      \A i \in DOMAIN cells : IsRef(cells[i].value) => Opaque(cells[i].value)

\* A redaction stands behind every enricher whose field it would have to mask.
RedactsLast ==
  \E i \in DOMAIN Pipeline :
    /\ Pipeline[i] = "redact"
    /\ \A j \in DOMAIN Pipeline :
         j > i /\ Pipeline[j] # "redact" => ~ShouldRedact(CaseInsensitive, Pipeline[j])

\* Nothing of the value is left below a sensitive key, its own included.
Masked(key, v) == \A x \in Leaves(key, v) : Covered(CaseInsensitive, x) = x

\* Keys of the payload that are those of fields.
Plainly(keys) == keys \ (DOMAIN Prefixed \cup {Prefixed[k] : k \in DOMAIN Prefixed})

\* The fields that a record shows, but for those that the worker found to share a
\* container.
Written(r) ==
  IF r.by = "text" THEN {r.line[i] : i \in DOMAIN r.line}
  ELSE {[key |-> k, value |-> r.payload[k]] :
          k \in Plainly(DOMAIN r.payload) \ (IF r.by = "async" THEN r.shared ELSE {})}

\* With a redaction behind the enrichers no record shows anything below a
\* sensitive key, whatever is nested in what and in any spelling the options take:
\* there is the mask instead.
RedactionComplete ==
  RedactsLast => \A f \in UNION {Written(r) : r \in records} : Masked(f.key, f.value)
=============================================================================
