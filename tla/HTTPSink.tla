------------------------------ MODULE HTTPSink ------------------------------
(***************************************************************************)
(* HTTPSink behind a RetrySink, as the builder stacks them: an attempt of  *)
(* a write is one HTTP request.  Besides, the worker of a BatchSink hands  *)
(* its batches to WriteBatch, with no retry around it.  The sink itself    *)
(* keeps no state; what makes it hard is the way to the server, where a    *)
(* request that the client has given up may still arrive.                  *)
(***************************************************************************)
EXTENDS RetrySink, SequencesExt

CONSTANTS
  Worker,        \* the batch sink's worker goroutine, a client beside Callers
  BatchSize,     \* events in a batch
  MaxBatches,    \* bound of the model: batches the worker writes
  Unencodable    \* events that json.Marshal may refuse; it accepts any other

ASSUME HTTPAssumption ==
  /\ Worker \notin Callers
  /\ BatchSize \in Nat \ {0} /\ MaxBatches \in Nat

\* A write's event is named by its caller and call, a batch's by the batch and
\* its place in it.
WriteOf(c, k)   == <<c, k>>
BatchEvents(k)  == [i \in 1..BatchSize |-> <<Worker, k, i>>]

VARIABLES
  json,      \* the sink's encoder is the JSON one; this never changes
  spoilt,    \* external: the events that json.Marshal refuses; nor does this
  request,   \* the request a client waits for, or {}: a set of at most one
  response,  \* what has come back for it: "none", "2xx" or "other"
  net,       \* external: requests on their way to the server
  stored,    \* external: the requests the server has accepted, in order
  sent,      \* history: how many requests each client has sent
  batchNo, todo, batchErr,   \* WriteBatch: the batch, its bodies, an error so far
  outcome    \* history: the outcome of every WriteBatch that has returned

batching == <<batchNo, todo, batchErr, outcome>>
setup    == <<json, spoilt>>
wire     == <<request, response, net, stored, sent>>
hvars    == <<vars, setup, wire, batching>>

Clients == Callers \cup {Worker}

HTTPTypeOK ==
  /\ TypeOK
  /\ json \in BOOLEAN /\ spoilt \in SUBSET Unencodable
  /\ \A x \in Clients : /\ \A r \in request[x] : r.by = x
                        /\ Cardinality(request[x]) <= 1
                        /\ response[x] # "none" => request[x] # {}
  /\ response \in [Clients -> {"none", "2xx", "other"}]
  /\ \A c \in Callers : request[c] # {} => pc[c] = "calling"
  /\ batchNo \in 0..MaxBatches /\ Len(outcome) \in {batchNo, batchNo - 1}
  /\ Len(todo) <= BatchSize /\ batchErr \in BOOLEAN
  /\ (request[Worker] # {} \/ todo # <<>>) => Len(outcome) = batchNo - 1

HTTPInit ==
  /\ Init
  /\ json \in BOOLEAN /\ spoilt \in SUBSET Unencodable /\ (~json => spoilt = {})
  /\ request = [x \in Clients |-> {}] /\ response = [x \in Clients |-> "none"]
  /\ net = {} /\ stored = <<>> /\ sent = [x \in Clients |-> 0]
  /\ batchNo = 0 /\ todo = <<>> /\ batchErr = FALSE /\ outcome = <<>>

-----------------------------------------------------------------------------
(* doRequest. *)

Encodes(event) == event \notin spoilt

\* Mutant of Send: the request goes out twice.
SendTwice(x, events) ==
  /\ request[x] = {}
  /\ LET r == [by |-> x, seq |-> sent[x] + 1, events |-> events]
     IN request' = [request EXCEPT ![x] = {r}] /\ net' = net \cup {r, [r EXCEPT !.seq = @ + 1]}
  /\ sent' = [sent EXCEPT ![x] = @ + 2]
  /\ UNCHANGED <<response, stored>>

Send(x, events) ==
  /\ request[x] = {}
  /\ LET r == [by |-> x, seq |-> sent[x] + 1, events |-> events]
     IN request' = [request EXCEPT ![x] = {r}] /\ net' = net \cup {r}
  /\ sent' = [sent EXCEPT ![x] = @ + 1]
  /\ UNCHANGED <<response, stored>>

\* Mutant of Leave: the answer is left behind for the next request.
LeaveAnswer(x) ==
  /\ request' = [request EXCEPT ![x] = {}]
  /\ UNCHANGED <<response, net, stored, sent>>

\* The client leaves with the answer or gives up; what is on its way stays so.
Leave(x) ==
  /\ request' = [request EXCEPT ![x] = {}]
  /\ response' = [response EXCEPT ![x] = "none"]
  /\ UNCHANGED <<net, stored, sent>>

Answered(x, with) == response[x] = with

\* Mutant of Succeeds: whatever the server answers will do.
SucceedsAnyway(x) == request[x] # {} /\ ~Answered(x, "none")

Succeeds(x) == request[x] # {} /\ Answered(x, "2xx")

\* Mutant of Fails: a client without a timeout waits for the answer.
FailsUntimed(x) == request[x] # {} /\ Answered(x, "other")

\* A status outside 2xx, the client's timeout, or the context of the call.  The
\* contexts of the worker never end (contextWithoutCancel).
Fails(x) == request[x] # {} /\ ~Answered(x, "2xx")

\* External: the server takes a request off the wire and accepts it or not.  A
\* proxy may answer badly for a request that was accepted.
Arrive(r, accepts, status) ==
  /\ r \in net
  /\ net' = net \ {r}
  /\ status = "2xx" => accepts
  /\ stored' = IF accepts THEN Append(stored, r) ELSE stored
  /\ response' = IF r \in request[r.by] THEN [response EXCEPT ![r.by] = status]
                                        ELSE response
  /\ UNCHANGED <<vars, setup, request, sent, batching>>

Server == \E r \in net, accepts \in BOOLEAN, status \in {"2xx", "other"} :
            Arrive(r, accepts, status)

-----------------------------------------------------------------------------
(* Write, Sync and Close, called by the attempts of RetrySink. *)

Stored(event) == \E i \in DOMAIN stored : event \in stored[i].events

\* What the loop makes of the attempt: it has been carried out if the server
\* accepted its request, whatever is reported.  Nothing here asks the report to be
\* Honest: that the HTTP sink's are is a matter of its requests and answers.
Report(c, ok, accepted) ==
  \E err \in (IF ok THEN {"nil"} ELSE Errors) :
    EndAttempt(c, err, IF accepted THEN 1 ELSE 0)

EncodeFails(c) ==
  /\ pc[c] = "calling" /\ op[c] = "write" /\ ~Encodes(WriteOf(c, n[c]))
  /\ Report(c, FALSE, FALSE)
  /\ UNCHANGED <<setup, wire, batching>>

SendWrite(c) ==
  /\ pc[c] = "calling" /\ op[c] = "write" /\ Encodes(WriteOf(c, n[c]))
  /\ Send(c, {WriteOf(c, n[c])})
  /\ UNCHANGED <<vars, setup, batching>>

WriteReturns(c) ==
  /\ pc[c] = "calling"
  /\ \E accepted \in {\E i \in DOMAIN stored : stored[i] \in request[c]} :
       \/ Succeeds(c) /\ Report(c, TRUE, accepted)
       \/ Fails(c) /\ Report(c, FALSE, accepted)
  /\ Leave(c)
  /\ UNCHANGED <<setup, batching>>

\* Sync and Close have nothing to do.
NothingToDo(c) ==
  /\ pc[c] = "calling" /\ op[c] # "write"
  /\ Report(c, TRUE, TRUE)
  /\ UNCHANGED <<setup, wire, batching>>

-----------------------------------------------------------------------------
(* WriteBatch, called by the worker. *)

\* Mutant of Bodies: the newest event first.
BodiesReversed(events) ==
  IF json THEN <<ToSet(events)>> ELSE Reverse([i \in DOMAIN events |-> {events[i]}])

\* One array for the JSON encoder, which a single event spoils; one request per
\* event for any other.
Bodies(events) ==
  IF json THEN <<ToSet(events)>> ELSE [i \in DOMAIN events |-> {events[i]}]

WriteBatch ==
  /\ batchNo < MaxBatches /\ Len(outcome) = batchNo
  /\ batchNo' = batchNo + 1
  /\ LET events == BatchEvents(batchNo')
         bodies == Bodies(events)
     IN IF \A i \in DOMAIN bodies : \A e \in bodies[i] : Encodes(e)
          THEN todo' = bodies /\ batchErr' = FALSE
          ELSE todo' = <<>> /\ batchErr' = TRUE
  /\ UNCHANGED <<vars, setup, wire, outcome>>

SendBody ==
  /\ todo # <<>>
  /\ Send(Worker, Head(todo))
  /\ UNCHANGED <<vars, setup, batching>>

\* An error does not keep the rest from being sent.
BodyReturns ==
  /\ request[Worker] # {}
  /\ \/ Succeeds(Worker) /\ UNCHANGED batchErr
     \/ Fails(Worker) /\ batchErr' = TRUE
  /\ todo' = Tail(todo)
  /\ Leave(Worker)
  /\ UNCHANGED <<vars, setup, batchNo, outcome>>

BatchReturns ==
  /\ Len(outcome) = batchNo - 1 /\ todo = <<>>
  /\ outcome' = Append(outcome, IF batchErr THEN "failed" ELSE "nil")
  /\ UNCHANGED <<vars, setup, wire, batchNo, todo, batchErr>>

-----------------------------------------------------------------------------
Loop(c) ==
  /\ Do(c) \/ CheckContext(c) \/ Pause(c) \/ WakeUp(c) \/ Interrupt(c) \/ Tick(c)
  /\ UNCHANGED <<setup, wire, batching>>

HTTPWrite(c) == EncodeFails(c) \/ SendWrite(c) \/ WriteReturns(c) \/ NothingToDo(c)
HTTPBatch    == WriteBatch \/ SendBody \/ BodyReturns \/ BatchReturns

HTTPNext ==
  \/ \E c \in Callers : \/ Loop(c) \/ HTTPWrite(c)
                        \/ Expire(c) /\ UNCHANGED <<setup, wire, batching>>
  \/ HTTPBatch \/ Server

HTTPSpec == HTTPInit /\ [][HTTPNext]_hvars

\* Calls in progress go on and every request ends, at the latest with the
\* client's timeout; the server owes nothing.
Going(c) == pc[c] # "idle" /\ (Loop(c) \/ HTTPWrite(c))

FairHTTPSpec ==
  HTTPSpec /\ WF_hvars(HTTPBatch) /\ \A c \in Callers : WF_hvars(Going(c))

-----------------------------------------------------------------------------
Copies(event) == {i \in DOMAIN stored : event \in stored[i].events}

\* The events for which a client has been told that they are with the server.
Acked == {WriteOf(c, n[c]) : c \in {x \in Callers : op[x] = "write" /\ result[x] = "nil"}}
         \cup UNION {ToSet(BatchEvents(k)) : k \in {j \in DOMAIN outcome : outcome[j] = "nil"}}

\* What Write or WriteBatch has acknowledged is with the server, however many
\* attempts it took, whatever else arrived meanwhile and with whichever encoder.
AckedStored == \A e \in Acked : Copies(e) # {}

\* In the order of the batch, and none of them twice.
InOrder(k) ==
  \A i, j \in 1..BatchSize :
    i <= j => \A a \in Copies(BatchEvents(k)[i]), b \in Copies(BatchEvents(k)[j]) :
                a <= b /\ (i = j => a = b)

\* A write is with the server more than once only when an attempt that was given
\* up or badly answered had been accepted after all: at most one copy for each
\* attempt, on its own request, and none of an event that cannot be encoded.
CopiesExplained ==
  \A c \in Callers :
    LET copies == Copies(WriteOf(c, n[c])) IN
    op[c] = "write" =>
      /\ Cardinality(copies) <= tried[c] + Cardinality(request[c])
      /\ \A i, j \in copies : i < j => stored[i].seq # stored[j].seq
      /\ ~Encodes(WriteOf(c, n[c])) => copies = {} /\ result[c] # "nil"

\* One array for all: it is accepted as a whole or not at all, and an event that
\* cannot be encoded makes it fail and keeps the others from the server.
Whole(k) ==
  LET events == ToSet(BatchEvents(k))
      there  == {e \in events : Copies(e) # {}}
  IN /\ there \in {{}, events}
     /\ (\E e \in events : ~Encodes(e)) =>
          there = {} /\ (k \in DOMAIN outcome => outcome[k] = "failed")

\* The events of an acknowledged batch reach the server in the order of the
\* batch and none of them twice, one request each or all in one, though the
\* retries of other clients arrive in between; and a JSON batch is never there
\* in part, acknowledged or not.
BatchesIntact ==
  /\ \A k \in DOMAIN outcome : outcome[k] = "nil" => InOrder(k)
  /\ json => \A k \in 1..batchNo : Whole(k)

\* A server that never answers keeps nobody for ever: neither a write with its
\* retries, whether its context ends or not, nor the batch worker.
NobodyIsKept == CallsReturn /\ (Len(outcome) < batchNo ~> Len(outcome) = batchNo)

=============================================================================
