------------------------------ MODULE SinkQueue ------------------------------
(***************************************************************************)
(* The queue protocol that AsyncSink and BatchSink share: callers put jobs *)
(* on a bounded channel that one worker goroutine reads, a Sync or a Close *)
(* puts a control job on it and waits for the answer, and the close job    *)
(* ends the worker.  The two sinks repeat the protocol line for line; the  *)
(* modules AsyncSink and BatchSink extend this one with what the worker    *)
(* does with a job.                                                        *)
(*                                                                         *)
(* A step is what one goroutine does between two points where another one  *)
(* can see it: a critical section of mu, one operation on a channel, one   *)
(* atomic counter.  A call that returns leaves its caller "idle".          *)
(***************************************************************************)
EXTENDS Naturals, Sequences, FiniteSets, SequencesExt

CONSTANTS
  Callers,         \* the goroutines that call the sink
  Deadline,        \* those whose context can be done; the others use Background
  BufferSize,      \* capacity of the channel of jobs
  OverflowPolicy,  \* what Write does when the channel is full
  MaxCalls         \* bound of the model: calls a caller makes

ASSUME QueueAssumption ==
  /\ Deadline \subseteq Callers
  /\ BufferSize \in Nat \ {0}
  /\ OverflowPolicy \in {"drop_newest", "block"}
  /\ MaxCalls \in Nat

VARIABLES
  jobs,      \* the channel of jobs
  cur,       \* the job the worker holds: a sequence of at most one
  worker,    \* progress of run(): its deferred calls mark the sink closed,
             \* then close the channel done
  closing, closed,
  pc,        \* where each caller stands in its call
  job,       \* the job of the caller's current call; n counts its calls
  expired,   \* callers whose current context is done
  answered,  \* callers whose response channel (capacity 1) holds the answer
  enqueued, dropped, flushes, closes,   \* the counters Stats reads
  served,    \* history: the jobs the worker has finished with, in order
  acked,     \* history: queued events whose Write has returned nil
  before     \* history: what was acked when the caller's current call began

flags   == <<closing, closed>>
stats   == <<enqueued, dropped, flushes, closes>>
history == <<served, acked, before>>
qvars   == <<jobs, cur, worker, flags, pc, job, expired, answered, stats, history>>

Job == [kind : {"event", "flush", "close"}, by : Callers, n : 0..MaxCalls]

IsEvent(j) == j.kind = "event"

\* Sync and Close force their job: they wait for room whatever the policy.
Blocks(c) == ~IsEvent(job[c]) \/ OverflowPolicy = "block"

\* What enqueue reads under the read lock and decides before it sends.
Admits(kind) == ~closed /\ (closing => kind # "event")

Done == worker = "stopped"

\* Mutant of Listening: a response channel shared by all calls of a caller.
ListeningByCaller(j) == pc[j.by] \in {"sent", "await"}

\* The caller that sent j still holds the response channel of j.
Listening(j) == job[j.by] = j /\ pc[j.by] \in {"sent", "await"}

QueueTypeOK ==
  /\ jobs \in Seq(Job) /\ Len(jobs) <= BufferSize
  /\ cur \in Seq(Job) /\ Len(cur) <= 1
  /\ worker \in {"running", "unwinding", "marked", "stopped"}
  /\ closing \in BOOLEAN /\ closed \in BOOLEAN
  /\ pc \in [Callers -> {"idle", "check", "send", "sent", "await",
                         "reset", "join", "waitdone"}]
  /\ job \in [Callers -> Job]
  /\ \A c \in Callers : job[c].by = c
  /\ expired \in SUBSET Deadline
  /\ answered \in SUBSET Callers
  /\ enqueued \in Nat /\ dropped \in Nat /\ flushes \in Nat /\ closes \in Nat
  /\ served \in Seq(Job)
  /\ acked \in SUBSET Job
  /\ before \in [Callers -> SUBSET Job]

QueueInit ==
  /\ jobs = <<>> /\ cur = <<>> /\ worker = "running"
  /\ closing = FALSE /\ closed = FALSE
  /\ pc = [c \in Callers |-> "idle"]
  /\ job = [c \in Callers |-> [kind |-> "event", by |-> c, n |-> 0]]
  /\ expired = {} /\ answered = {}
  /\ enqueued = 0 /\ dropped = 0 /\ flushes = 0 /\ closes = 0
  /\ served = <<>> /\ acked = {} /\ before = [c \in Callers |-> {}]

-----------------------------------------------------------------------------
(* The callers. *)

\* A new call, with a context of its own and a job for the channel.
Begin(c, kind) ==
  /\ pc[c] = "idle"
  /\ job[c].n < MaxCalls
  /\ job' = [job EXCEPT ![c] = [kind |-> kind, by |-> c, n |-> job[c].n + 1]]
  /\ before' = [before EXCEPT ![c] = acked]
  /\ expired' = expired \ {c}
  /\ UNCHANGED <<jobs, cur, worker, closed, answered, stats, served, acked>>

\* Write and Sync: enqueue refuses the job at once or goes on to send it.
Write(c) ==
  /\ Begin(c, "event")
  /\ pc' = [pc EXCEPT ![c] = IF Admits("event") THEN "send" ELSE "idle"]
  /\ UNCHANGED closing

Sync(c) ==
  /\ Begin(c, "flush")
  /\ pc' = [pc EXCEPT ![c] = IF Admits("flush") THEN "send" ELSE "idle"]
  /\ UNCHANGED closing

\* Mutant of Close: a second closer does not see that a first one is closing.
CloseUnclaimed(c) ==
  /\ Begin(c, "close")
  /\ \/ closed /\ UNCHANGED <<pc, closing>>
     \/ ~closed /\ pc' = [pc EXCEPT ![c] = "check"] /\ closing' = TRUE

\* Close, up to the release of the lock: the sink is closed already, another
\* caller is closing it, or this caller is the one that does.
Close(c) ==
  /\ Begin(c, "close")
  /\ \/ /\ closed
        /\ UNCHANGED <<pc, closing>>
     \/ /\ ~closed /\ closing
        /\ pc' = [pc EXCEPT ![c] = "waitdone"]
        /\ UNCHANGED closing
     \/ /\ ~closed /\ ~closing
        /\ pc' = [pc EXCEPT ![c] = "check"]
        /\ closing' = TRUE

\* The flags are read again by the enqueue that Close calls.
EnqueueClose(c) ==
  /\ pc[c] = "check"
  /\ pc' = [pc EXCEPT ![c] = IF Admits("close") THEN "send" ELSE "reset"]
  /\ UNCHANGED <<jobs, cur, worker, flags, job, expired, answered, stats, history>>

\* Mutant of SendJob: a channel without its capacity.
SendUnbounded(c) ==
  /\ pc[c] = "send"
  /\ jobs' = Append(jobs, job[c])
  /\ pc' = [pc EXCEPT ![c] = "sent"]
  /\ UNCHANGED <<cur, worker, flags, job, expired, answered, stats, history>>

SendJob(c) ==
  /\ pc[c] = "send"
  /\ Len(jobs) < BufferSize
  /\ jobs' = Append(jobs, job[c])
  /\ pc' = [pc EXCEPT ![c] = "sent"]
  /\ UNCHANGED <<cur, worker, flags, job, expired, answered, stats, history>>

\* The counter moves after the send, so the worker may be ahead of it.
Acknowledge(c) ==
  /\ pc[c] = "sent"
  /\ enqueued' = enqueued + 1
  /\ IF IsEvent(job[c])
       THEN /\ pc' = [pc EXCEPT ![c] = "idle"]
            /\ acked' = acked \cup {job[c]}
       ELSE /\ pc' = [pc EXCEPT ![c] = "await"]
            /\ UNCHANGED acked
  /\ UNCHANGED <<jobs, cur, worker, flags, job, expired, answered,
                 dropped, flushes, closes, served, before>>

Drop(c) ==
  /\ pc[c] = "send" /\ ~Blocks(c)
  /\ Len(jobs) = BufferSize
  /\ dropped' = dropped + 1
  /\ pc' = [pc EXCEPT ![c] = "idle"]
  /\ UNCHANGED <<jobs, cur, worker, flags, job, expired, answered,
                 enqueued, flushes, closes, history>>

\* The other branches of the blocking select: the context or the sink is done.
GiveUp(c) ==
  /\ pc[c] = "send" /\ Blocks(c)
  /\ c \in expired \/ Done
  /\ pc' = [pc EXCEPT ![c] = IF job[c].kind = "close" THEN "reset" ELSE "idle"]
  /\ UNCHANGED <<jobs, cur, worker, flags, job, expired, answered, stats, history>>

\* Close could not queue its job: the next Close may try again.
ResetClosing(c) ==
  /\ pc[c] = "reset"
  /\ closing' = FALSE
  /\ pc' = [pc EXCEPT ![c] = "idle"]
  /\ UNCHANGED <<jobs, cur, worker, closed, job, expired, answered, stats, history>>

\* waitAsyncResponse: the answer or the context, whichever select takes.
StopWaiting(c) ==
  /\ pc[c] = "await"
  /\ pc' = [pc EXCEPT ![c] = IF job[c].kind = "close" THEN "join" ELSE "idle"]
  /\ answered' = answered \ {c}
  /\ UNCHANGED <<jobs, cur, worker, flags, job, expired, stats, history>>

TakeResponse(c) == c \in answered /\ StopWaiting(c)
AbandonResponse(c) == c \in expired /\ StopWaiting(c)

\* Close waits for the worker to end, whatever its context says.
Join(c) ==
  /\ pc[c] = "join" /\ Done
  /\ pc' = [pc EXCEPT ![c] = "idle"]
  /\ UNCHANGED <<jobs, cur, worker, flags, job, expired, answered, stats, history>>

\* A second Close waits for the first one's outcome.
WaitDone(c) ==
  /\ pc[c] = "waitdone"
  /\ Done \/ c \in expired
  /\ pc' = [pc EXCEPT ![c] = "idle"]
  /\ UNCHANGED <<jobs, cur, worker, flags, job, expired, answered, stats, history>>

\* The context of a call in progress is cancelled or runs out.
Expire(c) ==
  /\ c \in Deadline \ expired /\ pc[c] # "idle"
  /\ expired' = expired \cup {c}
  /\ UNCHANGED <<jobs, cur, worker, flags, pc, job, answered, stats, history>>

-----------------------------------------------------------------------------
(* The worker goroutine, run(). *)

\* The two counters are the worker's alone: that it counts right after it has taken
\* the job makes a difference to nobody but a reader of Stats.
Receive ==
  /\ worker = "running" /\ cur = <<>> /\ jobs # <<>>
  /\ cur' = <<Head(jobs)>>
  /\ jobs' = Tail(jobs)
  /\ flushes' = IF Head(jobs).kind = "flush" THEN flushes + 1 ELSE flushes
  /\ closes' = IF Head(jobs).kind = "close" THEN closes + 1 ELSE closes
  /\ UNCHANGED <<worker, flags, pc, job, expired, answered, enqueued, dropped, history>>

Served ==
  /\ served' = Append(served, Head(cur))
  /\ cur' = <<>>

\* Mutant of FinishEvent: the worker returns when a write of the next sink fails.
FinishEventOrLeave ==
  /\ worker = "running" /\ cur # <<>> /\ IsEvent(Head(cur))
  /\ Served
  /\ worker' \in {"running", "unwinding"}
  /\ UNCHANGED <<jobs, flags, pc, job, expired, answered, stats, acked, before>>

FinishEvent ==
  /\ worker = "running" /\ cur # <<>> /\ IsEvent(Head(cur))
  /\ Served
  /\ UNCHANGED <<jobs, worker, flags, pc, job, expired, answered, stats, acked, before>>

\* The answer goes to the caller, or to a channel nobody reads any more.
Respond == answered' = IF Listening(Head(cur)) THEN answered \cup {Head(cur).by}
                                               ELSE answered

FinishFlush ==
  /\ worker = "running" /\ cur # <<>> /\ Head(cur).kind = "flush"
  /\ Respond /\ Served
  /\ UNCHANGED <<jobs, worker, flags, pc, job, expired, stats, acked, before>>

\* Mutant of FinishClose: the worker goes on after the close job.
FinishCloseGoesOn ==
  /\ worker = "running" /\ cur # <<>> /\ Head(cur).kind = "close"
  /\ Respond /\ Served
  /\ UNCHANGED <<jobs, worker, flags, pc, job, expired, stats, acked, before>>

FinishClose ==
  /\ worker = "running" /\ cur # <<>> /\ Head(cur).kind = "close"
  /\ Respond /\ Served
  /\ worker' = "unwinding"
  /\ UNCHANGED <<jobs, flags, pc, job, expired, stats, acked, before>>

\* The deferred calls run in reverse order: the flags first, then done.
MarkClosed ==
  /\ worker = "unwinding"
  /\ worker' = "marked"
  /\ closed' = TRUE /\ closing' = FALSE
  /\ UNCHANGED <<jobs, cur, pc, job, expired, answered, stats, history>>

CloseDone ==
  /\ worker = "marked"
  /\ worker' = "stopped"
  /\ UNCHANGED <<jobs, cur, flags, pc, job, expired, answered, stats, history>>

-----------------------------------------------------------------------------
Call(c)     == Write(c) \/ Sync(c) \/ Close(c)
Continue(c) == \/ EnqueueClose(c) \/ SendJob(c) \/ Acknowledge(c) \/ Drop(c)
               \/ GiveUp(c) \/ ResetClosing(c) \/ TakeResponse(c)
               \/ AbandonResponse(c) \/ Join(c) \/ WaitDone(c)
Work        == \/ Receive \/ FinishEvent \/ FinishFlush \/ FinishClose
               \/ MarkClosed \/ CloseDone

QueueNext == (\E c \in Callers : Call(c) \/ Continue(c) \/ Expire(c)) \/ Work

QueueSpec == QueueInit /\ [][QueueNext]_qvars

\* A goroutine that can run does, and the next sink returns from its calls.  A
\* sender that waits for room is served in turn (the channel queues waiting
\* senders); with MaxCalls calls weak fairness is enough for it.
QueueFairness ==
  /\ WF_qvars(Work)
  /\ \A c \in Callers : WF_qvars(Continue(c)) /\ WF_qvars(Expire(c))

FairQueueSpec == QueueSpec /\ QueueFairness

-----------------------------------------------------------------------------
(* What the protocol guarantees. *)

\* Every job that was ever queued, in the order of the sends.
Trail == served \o cur \o jobs

\* The jobs the worker has still to finish.
Pending == cur \o jobs

\* The callers that hold the sink in its closing state without having queued
\* their close job.
Closing == {c \in Callers : \/ pc[c] \in {"check", "reset"}
                           \/ (pc[c] = "send" /\ job[c].kind = "close")}

CloseJobs == {i \in DOMAIN Pending : Pending[i].kind = "close"}

\* The flag closing always has exactly one owner that will clear it: a caller
\* inside Close, its close job, or the worker that unwinds.  So a Close that
\* fails never takes away another one's claim, no second close job is queued,
\* and the sink cannot stay in the closing state, refusing every Write, with
\* nobody left to finish the job.
ClosingOwned ==
  /\ closing <=> (Closing # {} \/ CloseJobs # {} \/ worker = "unwinding")
  /\ closed <=> worker \in {"marked", "stopped"}
  /\ \A c, d \in Closing : c = d
  /\ \A i, k \in CloseJobs : i = k
  /\ Closing # {} => CloseJobs = {}
  /\ worker # "running" => (Closing = {} /\ CloseJobs = {} /\ cur = <<>>)

\* A Sync or Close that gets its answer is a barrier: every event whose Write
\* had returned nil when the call began has been handed to the worker's
\* handler before the answer was sent.
ResponseIsBarrier ==
  \A c \in answered : before[c] \cup {job[c]} \subseteq Range(served)

\* The jobs of one caller keep its order in the queue and none is queued
\* twice, however the other callers, the retried Closes and the timeouts
\* interleave.
PerCallerOrder ==
  \A i, k \in DOMAIN Trail :
    i < k /\ Trail[i].by = Trail[k].by => Trail[i].n < Trail[k].n

\* The counters of Stats account for every job: Enqueued counts control jobs
\* as well as events, and lags behind the worker by the callers that have
\* sent but not counted yet.
StatsBalance ==
  /\ enqueued + Cardinality({c \in Callers : pc[c] = "sent"}) = Len(Trail)
  /\ LET Started(kind) == {i \in DOMAIN (served \o cur) : (served \o cur)[i].kind = kind}
     IN flushes = Cardinality(Started("flush")) /\ closes = Cardinality(Started("close"))

\* Calls that have to return without a deadline: a Write, the Close that closes
\* the sink, and one that waits for another Close to do it, but only once the
\* close job is queued (the other one may give up, and nobody tells those who
\* wait).
Background(c) ==
  \/ IsEvent(job[c])
  \/ job[c].kind = "close" /\ (pc[c] = "waitdone" => (closing \/ closed) /\ Closing = {})

\* No call blocks for ever: one with a deadline returns whatever happens, and a
\* Write or a Close with a Background context returns as well, because whatever
\* waits for room or for the worker is released when the worker ends.
CallsReturn ==
  \A c \in Callers :
    pc[c] # "idle" /\ (c \in Deadline \/ Background(c)) ~> pc[c] = "idle"

\* A Sync returns as well, with a Background context too, when it meets the end
\* of the worker.
SyncSeesEnd == \A c \in Callers : pc[c] = "await" /\ Done ~> pc[c] # "await"

\* What has been accepted with nil is handed to the worker's handler before the
\* worker stops.
AckedServed == Done => acked \subseteq Range(served)

\* The protocol implements the ordered delivery of the events it accepts: the
\* seal is the place of the close job in the queue.  Calls count from one.
EventsOf(s) ==
  LET first[i \in 0..Len(s)] ==   \* the events among the first i jobs
        IF i = 0 THEN <<>>
        ELSE IF IsEvent(s[i]) THEN Append(first[i - 1], s[i]) ELSE first[i - 1]
  IN first[Len(s)]
CloseAt     == {i \in DOMAIN Trail : Trail[i].kind = "close"}
Seal        == {Len(EventsOf(SubSeq(Trail, 1, i))) : i \in CloseAt}
Events      == {j \in Job : IsEvent(j) /\ j.n > 0}

Queue == INSTANCE OrderedDelivery WITH
  Event <- Events, accepted <- EventsOf(Trail),
  delivered <- EventsOf(served), seal <- Seal, shut <- worker # "running"

\* No event is lost, repeated or overtaken on its way through the channel, and
\* none behind the close job is handed on.
ServesInOrder == Queue!Spec

=============================================================================
