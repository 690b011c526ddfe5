--------------------------- MODULE SinkQueueProofs ---------------------------
(***************************************************************************)
(* Theorems about the queue protocol, for any number of callers, any       *)
(* capacity and either overflow policy.  Every step lemma is stated for    *)
(* the action QueueNext alone, so that the sinks that refine the protocol  *)
(* use it as it is.                                                        *)
(***************************************************************************)
EXTENDS SinkQueue, TLAPS, SequenceTheorems, FiniteSetTheorems, WellFoundedInduction

\* The assumption on the constants, as the provers like to have it.
LEMMA Bounds == /\ BufferSize \in Nat /\ BufferSize > 0 /\ MaxCalls \in Nat
                /\ Deadline \subseteq Callers
BY QueueAssumption

-----------------------------------------------------------------------------
(* Type correctness. *)

LEMMA QueueTypeInit == QueueInit => QueueTypeOK
<1> SUFFICES ASSUME QueueInit PROVE QueueTypeOK
  OBVIOUS
<1>1. <<>> \in Seq(Job) /\ Len(<<>>) = 0
  BY EmptySeq
<1>2. job \in [Callers -> Job] /\ \A c \in Callers : job[c].by = c
  BY Bounds DEF QueueInit, Job
<1>3. /\ pc \in [Callers -> {"idle", "check", "send", "sent", "await",
                             "reset", "join", "waitdone"}]
      /\ before \in [Callers -> SUBSET Job]
  BY DEF QueueInit
<1>4. /\ jobs \in Seq(Job) /\ Len(jobs) <= BufferSize
      /\ cur \in Seq(Job) /\ Len(cur) <= 1
      /\ served \in Seq(Job)
  BY <1>1, Bounds DEF QueueInit
<1> QED
  BY <1>2, <1>3, <1>4 DEF QueueInit, QueueTypeOK

\* A new call is well typed.
LEMMA BeginTypes ==
  ASSUME QueueTypeOK, NEW c \in Callers, NEW kind \in {"event", "flush", "close"},
         Begin(c, kind)
  PROVE  /\ job' \in [Callers -> Job] /\ \A d \in Callers : job'[d].by = d
         /\ before' \in [Callers -> SUBSET Job]
         /\ expired' \in SUBSET Deadline
         /\ job'[c].kind = kind /\ job'[c].by = c /\ job'[c].n = job[c].n + 1
         /\ \A d \in Callers \ {c} : job'[d] = job[d]
BY Bounds DEF QueueTypeOK, Begin, Job

\* A step of a caller keeps the types.
LEMMA QueueTypeCaller ==
  ASSUME QueueTypeOK, NEW c \in Callers, Call(c) \/ Continue(c) \/ Expire(c)
  PROVE  QueueTypeOK'
<1> USE DEF QueueTypeOK, qvars, flags, stats, history
<1>1. CASE Write(c)
  <2>1. Begin(c, "event")
    BY <1>1 DEF Write
  <2> QED
    BY <1>1, <2>1, BeginTypes DEF Write, Begin
<1>2. CASE Sync(c)
  <2>1. Begin(c, "flush")
    BY <1>2 DEF Sync
  <2> QED
    BY <1>2, <2>1, BeginTypes DEF Sync, Begin
<1>3. CASE Close(c)
  <2>1. Begin(c, "close")
    BY <1>3 DEF Close
  <2>2. /\ pc' \in [Callers -> {"idle", "check", "send", "sent", "await",
                                "reset", "join", "waitdone"}]
        /\ closing' \in BOOLEAN
    BY <1>3 DEF Close
  <2> QED
    BY <2>1, <2>2, BeginTypes DEF Begin
<1>4. CASE EnqueueClose(c)
  BY <1>4 DEF EnqueueClose
<1>5. CASE SendJob(c)
  <2>1. jobs' \in Seq(Job) /\ Len(jobs') <= BufferSize
    BY <1>5, Bounds, AppendProperties DEF SendJob
  <2> QED
    BY <1>5, <2>1 DEF SendJob
<1>6. CASE Acknowledge(c)
  BY <1>6 DEF Acknowledge, IsEvent
<1>7. CASE Drop(c)
  BY <1>7 DEF Drop
<1>8. CASE GiveUp(c)
  BY <1>8 DEF GiveUp
<1>9. CASE ResetClosing(c)
  BY <1>9 DEF ResetClosing
<1>10. CASE TakeResponse(c) \/ AbandonResponse(c)
  BY <1>10 DEF TakeResponse, AbandonResponse, StopWaiting
<1>11. CASE Join(c)
  BY <1>11 DEF Join
<1>12. CASE WaitDone(c)
  BY <1>12 DEF WaitDone
<1>13. CASE Expire(c)
  BY <1>13 DEF Expire
<1> QED
  BY <1>1, <1>2, <1>3, <1>4, <1>5, <1>6, <1>7, <1>8, <1>9, <1>10, <1>11,
     <1>12, <1>13 DEF Call, Continue

\* A step of the worker keeps the types.
LEMMA QueueTypeWorker ==
  ASSUME QueueTypeOK, Work
  PROVE  QueueTypeOK'
<1> USE DEF QueueTypeOK, qvars, flags, stats, history
<1>1. CASE Receive
  <2>1. /\ Head(jobs) \in Job /\ Tail(jobs) \in Seq(Job)
        /\ Len(Tail(jobs)) = Len(jobs) - 1
        /\ Len(jobs) \in Nat
    BY <1>1, HeadTailProperties, LenProperties DEF Receive
  <2>2. /\ jobs' \in Seq(Job) /\ Len(jobs') <= BufferSize
        /\ cur' \in Seq(Job) /\ Len(cur') <= 1
    BY <1>1, <2>1, Bounds DEF Receive
  <2> QED
    BY <1>1, <2>2 DEF Receive
<1>2. CASE FinishEvent \/ FinishFlush \/ FinishClose
  <2>1. /\ Head(cur) \in Job
        /\ served' = Append(served, Head(cur))
        /\ cur' = <<>>
    BY <1>2, HeadTailProperties DEF FinishEvent, FinishFlush, FinishClose, Served
  <2>2. served' \in Seq(Job) /\ cur' \in Seq(Job) /\ Len(cur') <= 1
    BY <2>1, AppendProperties, EmptySeq
  <2>3. answered' \in SUBSET Callers
    BY <1>2, <2>1 DEF FinishEvent, FinishFlush, FinishClose, Respond, Job
  <2> QED
    BY <1>2, <2>2, <2>3 DEF FinishEvent, FinishFlush, FinishClose
<1>3. CASE MarkClosed \/ CloseDone
  BY <1>3 DEF MarkClosed, CloseDone
<1> QED
  BY <1>1, <1>2, <1>3 DEF Work

LEMMA QueueTypeStep == QueueTypeOK /\ [QueueNext]_qvars => QueueTypeOK'
<1> SUFFICES ASSUME QueueTypeOK, [QueueNext]_qvars PROVE QueueTypeOK'
  OBVIOUS
<1>1. CASE UNCHANGED qvars
  BY <1>1 DEF QueueTypeOK, qvars, flags, stats, history
<1> QED
  BY <1>1, QueueTypeCaller, QueueTypeWorker DEF QueueNext

\* Every reachable state of the protocol is well typed; in particular the
\* channel never holds more than BufferSize jobs.
THEOREM QueueTypeCorrect == QueueSpec => []QueueTypeOK
BY QueueTypeInit, QueueTypeStep, PTL DEF QueueSpec

-----------------------------------------------------------------------------
(* How a step moves the queued jobs. *)

\* A sequence is its head followed by its tail.
LEMMA HeadThenTail ==
  ASSUME NEW S, NEW s \in Seq(S), s # <<>>
  PROVE  <<Head(s)>> \o Tail(s) = s
<1>1. /\ Head(s) \in S /\ Tail(s) \in Seq(S) /\ Len(Tail(s)) = Len(s) - 1
      /\ \A i \in 1..Len(Tail(s)) : Tail(s)[i] = s[i + 1]
      /\ Len(s) \in Nat \ {0}
  BY HeadTailProperties, EmptySeq
<1>2. <<Head(s)>> \in Seq(S) /\ Len(<<Head(s)>>) = 1 /\ <<Head(s)>>[1] = s[1]
  BY <1>1
<1>3. /\ <<Head(s)>> \o Tail(s) \in Seq(S)
      /\ Len(<<Head(s)>> \o Tail(s)) = Len(s)
      /\ \A i \in 1..Len(s) : (<<Head(s)>> \o Tail(s))[i] = s[i]
  BY <1>1, <1>2, ConcatProperties
<1> QED
  BY <1>3, SeqEqual

\* A sequence of at most one element is empty or its head alone.
LEMMA AtMostOne ==
  ASSUME NEW S, NEW s \in Seq(S), Len(s) <= 1, s # <<>>
  PROVE  s = <<Head(s)>> /\ Head(s) \in S /\ Len(s) = 1 /\ s[1] = Head(s)
<1>1. Len(s) = 1 /\ Head(s) \in S /\ Head(s) = s[1]
  <2>1. Len(s) \in Nat /\ Len(s) # 0
    BY EmptySeq
  <2>2. Len(s) = 1
    BY <2>1
  <2> QED
    BY <2>2
<1>2. /\ <<Head(s)>> \in Seq(S) /\ Len(<<Head(s)>>) = 1
      /\ <<Head(s)>>[1] = Head(s)
  BY <1>1
<1>3. \A i \in 1..Len(s) : s[i] = <<Head(s)>>[i]
  BY <1>1, <1>2
<1>4. s = <<Head(s)>>
  BY <1>1, <1>2, <1>3, SeqEqual
<1> QED
  BY <1>1, <1>4

\* The trail is a sequence of jobs, and so is what is pending.
LEMMA TrailIsSeq ==
  ASSUME QueueTypeOK
  PROVE  /\ Trail \in Seq(Job) /\ Pending \in Seq(Job)
         /\ Trail = served \o Pending
         /\ DOMAIN Trail = 1..Len(Trail) /\ Len(Trail) \in Nat
         /\ DOMAIN Pending = 1..Len(Pending) /\ Len(Pending) \in Nat
<1>1. served \in Seq(Job) /\ cur \in Seq(Job) /\ jobs \in Seq(Job)
  BY DEF QueueTypeOK
<1>2. Pending \in Seq(Job) /\ Trail = served \o Pending
  BY <1>1, ConcatProperties, ConcatAssociative DEF Pending, Trail
<1>3. Trail \in Seq(Job)
  BY <1>1, <1>2, ConcatProperties
<1> QED
  BY <1>2, <1>3, LenProperties

\* A send puts the caller's job at the end.
LEMMA SendAppends ==
  ASSUME QueueTypeOK, NEW c \in Callers, SendJob(c)
  PROVE  /\ Trail' = Append(Trail, job[c])
         /\ Pending' = Append(Pending, job[c])
<1>1. /\ served \in Seq(Job) /\ cur \in Seq(Job) /\ jobs \in Seq(Job)
      /\ job[c] \in Job /\ <<job[c]>> \in Seq(Job)
  BY DEF QueueTypeOK
<1>2. jobs' = jobs \o <<job[c]>> /\ cur' = cur /\ served' = served
  BY <1>1, AppendIsConcat DEF SendJob, history
<1>3. Pending' = Pending \o <<job[c]>>
  BY <1>1, <1>2, ConcatAssociative DEF Pending
<1>4. (served \o cur) \in Seq(Job) /\ Trail' = Trail \o <<job[c]>>
  BY <1>1, <1>2, ConcatProperties, ConcatAssociative DEF Trail
<1> QED
  BY <1>1, <1>3, <1>4, TrailIsSeq, AppendIsConcat

\* Receiving moves no job past another one.
LEMMA ReceiveKeeps ==
  ASSUME QueueTypeOK, Receive
  PROVE  Trail' = Trail /\ Pending' = Pending
<1>1. /\ served \in Seq(Job) /\ jobs \in Seq(Job) /\ jobs # <<>> /\ cur = <<>>
      /\ cur' = <<Head(jobs)>> /\ jobs' = Tail(jobs) /\ served' = served
  BY DEF QueueTypeOK, Receive, history
<1>2. Pending' = Pending
  BY <1>1, HeadThenTail, ConcatEmptySeq DEF Pending
<1>3. cur' \in Seq(Job) /\ jobs' \in Seq(Job) /\ cur \in Seq(Job)
  BY <1>1, HeadTailProperties DEF QueueTypeOK
<1> QED
  BY <1>1, <1>2, <1>3, ConcatAssociative DEF Trail, Pending

\* Finishing takes the first pending job and records it as served.
LEMMA FinishServes ==
  ASSUME QueueTypeOK, cur # <<>>, Served, UNCHANGED jobs
  PROVE  /\ Trail' = Trail
         /\ Pending # <<>> /\ Head(cur) = Pending[1]
         /\ Pending' = Tail(Pending)
         /\ Head(cur) \in Job
         /\ served' = Append(served, Head(cur))
<1>1. /\ served \in Seq(Job) /\ jobs \in Seq(Job) /\ cur \in Seq(Job)
      /\ cur = <<Head(cur)>> /\ Head(cur) \in Job
      /\ served' = Append(served, Head(cur)) /\ cur' = <<>> /\ jobs' = jobs
  BY AtMostOne DEF QueueTypeOK, Served
<1>2. /\ Pending \in Seq(Job) /\ Len(Pending) = Len(jobs) + 1
      /\ Pending[1] = Head(cur)
      /\ \A i \in 1..Len(jobs) : Pending[i + 1] = jobs[i]
  <2>1. Len(jobs) \in Nat
    BY <1>1, LenProperties
  <2>2. Len(cur) = 1 /\ cur[1] = Head(cur)
    BY <1>1
  <2>3. /\ Pending \in Seq(Job) /\ Len(Pending) = Len(cur) + Len(jobs)
        /\ \A i \in 1..Len(cur) + Len(jobs) :
             Pending[i] = IF i <= Len(cur) THEN cur[i] ELSE jobs[i - Len(cur)]
    BY <1>1, ConcatProperties DEF Pending
  <2> QED
    BY <2>1, <2>2, <2>3
<1>3. Pending' = jobs
  BY <1>1, ConcatEmptySeq DEF Pending
<1>4. Pending # <<>> /\ Tail(Pending) = jobs
  <2>1. Pending # <<>>
    BY <1>1, <1>2, LenProperties, EmptySeq
  <2>2. /\ Tail(Pending) \in Seq(Job) /\ Len(Tail(Pending)) = Len(jobs)
        /\ \A i \in 1..Len(jobs) : Tail(Pending)[i] = jobs[i]
    BY <1>1, <1>2, <2>1, HeadTailProperties, LenProperties
  <2> QED
    BY <1>1, <2>1, <2>2, SeqEqual
<1>5. Trail' = Trail
  <2>1. served' = served \o cur /\ served' \in Seq(Job)
    BY <1>1, AppendIsConcat, AppendProperties
  <2>2. served' \o cur' = served'
    BY <1>1, <2>1, ConcatEmptySeq
  <2>3. Trail' = served' \o jobs
    BY <1>1, <2>2 DEF Trail
  <2> QED
    BY <2>1, <2>3 DEF Trail
<1> QED
  BY <1>1, <1>2, <1>3, <1>4, <1>5

-----------------------------------------------------------------------------
(* The flag closing has one owner. *)

\* Only a Close gets to the places after its first critical section.
CloserKind == \A c \in Callers : pc[c] \in {"check", "reset"} => job[c].kind = "close"

ClosingInv == QueueTypeOK /\ CloserKind /\ ClosingOwned

\* A step that leaves owners, queued jobs and flags alone keeps the invariant.
LEMMA ClosingFrame ==
  ASSUME ClosingOwned, Closing' = Closing, Pending' = Pending,
         UNCHANGED <<worker, flags>>, worker # "running" => cur' = cur
  PROVE  ClosingOwned'
BY DEF ClosingOwned, CloseJobs, flags

\* A caller that is not an owner before or after its step keeps the set of owners.
LEMMA OwnersFrame ==
  ASSUME QueueTypeOK, NEW c \in Callers, c \notin Closing,
         \A d \in Callers \ {c} : pc'[d] = pc[d] /\ job'[d] = job[d],
         pc'[c] \notin {"check", "reset"},
         pc'[c] = "send" => job'[c].kind # "close"
  PROVE  Closing' = Closing
BY DEF Closing

\* What the start of a call changes, whichever call it is.
LEMMA CallEffect ==
  ASSUME QueueTypeOK, NEW c \in Callers, Call(c)
  PROVE  /\ pc[c] = "idle"
         /\ job'[c].by = c /\ job'[c].n = job[c].n + 1 /\ before'[c] = acked
         /\ \A d \in Callers \ {c} :
              job'[d] = job[d] /\ pc'[d] = pc[d] /\ before'[d] = before[d]
         /\ UNCHANGED <<jobs, cur, worker, closed, answered, stats, served, acked>>
         /\ Write(c) \/ Sync(c) => /\ job'[c].kind # "close"
                                  /\ pc'[c] \in {"send", "idle"}
                                  /\ closing' = closing
         /\ Close(c) => /\ job'[c].kind = "close"
                       /\ pc'[c] \in {"idle", "check", "waitdone"}
<1>0. /\ Write(c) => Begin(c, "event")
      /\ Sync(c) => Begin(c, "flush")
      /\ Close(c) => Begin(c, "close")
  BY DEF Write, Sync, Close
<1>1. PICK kind \in {"event", "flush", "close"} : Begin(c, kind)
  BY <1>0 DEF Call
<1>k. /\ Write(c) => job'[c].kind = "event"
      /\ Sync(c) => job'[c].kind = "flush"
      /\ Close(c) => job'[c].kind = "close"
  <2>1. ASSUME Begin(c, "event") PROVE job'[c].kind = "event"
    BY <2>1, BeginTypes
  <2>2. ASSUME Begin(c, "flush") PROVE job'[c].kind = "flush"
    BY <2>2, BeginTypes
  <2>3. ASSUME Begin(c, "close") PROVE job'[c].kind = "close"
    BY <2>3, BeginTypes
  <2> QED
    BY <1>0, <2>1, <2>2, <2>3
<1>2. /\ job'[c].by = c /\ job'[c].n = job[c].n + 1
      /\ \A d \in Callers \ {c} : job'[d] = job[d]
  BY <1>1, BeginTypes
<1>3. /\ pc[c] = "idle" /\ before'[c] = acked
      /\ \A d \in Callers \ {c} : before'[d] = before[d]
      /\ UNCHANGED <<jobs, cur, worker, closed, answered, stats, served, acked>>
  BY <1>1 DEF Begin, QueueTypeOK
<1>4. \A d \in Callers \ {c} : pc'[d] = pc[d]
  BY DEF Call, Write, Sync, Close, QueueTypeOK
<1>5. Write(c) \/ Sync(c) => pc'[c] \in {"send", "idle"} /\ closing' = closing
  BY DEF Write, Sync, QueueTypeOK
<1>6. Close(c) => pc'[c] \in {"idle", "check", "waitdone"}
  BY <1>3 DEF Close, QueueTypeOK
<1> QED
  BY <1>k, <1>2, <1>3, <1>4, <1>5, <1>6

LEMMA ClosingBegin ==
  ASSUME ClosingInv, NEW c \in Callers, Call(c)
  PROVE  CloserKind' /\ ClosingOwned'
<1> USE DEF ClosingInv
<1>1. /\ pc[c] = "idle" /\ c \notin Closing
      /\ Pending' = Pending /\ UNCHANGED <<worker, closed, cur>>
      /\ \A d \in Callers \ {c} : job'[d] = job[d] /\ pc'[d] = pc[d]
  BY CallEffect DEF Closing, Pending
<1>2. ASSUME Write(c) \/ Sync(c) PROVE CloserKind' /\ ClosingOwned'
  <2>1. /\ job'[c].kind # "close" /\ pc'[c] \in {"send", "idle"}
        /\ closing' = closing
    BY <1>2, CallEffect
  <2>2. Closing' = Closing
    BY <1>1, <2>1, OwnersFrame
  <2>3. ClosingOwned'
    BY <1>1, <2>1, <2>2, ClosingFrame DEF flags
  <2> QED
    BY <1>1, <2>1, <2>3 DEF CloserKind
<1>3. ASSUME Close(c) PROVE CloserKind' /\ ClosingOwned'
  <2>1. job'[c].kind = "close"
    BY <1>3, CallEffect
  <2>2. CloserKind'
    BY <1>1, <2>1 DEF CloserKind
  <2>3. CASE ~closed /\ ~closing
    <3>1. closing' = TRUE /\ pc'[c] = "check"
      BY <1>1, <1>3, <2>3 DEF Close, QueueTypeOK
    <3>2. Closing = {} /\ CloseJobs = {} /\ worker = "running"
      BY <2>3 DEF ClosingOwned, QueueTypeOK
    <3>3. Closing' = {c} /\ CloseJobs' = {}
      BY <1>1, <2>1, <3>1, <3>2 DEF Closing, CloseJobs
    <3> QED
      BY <1>1, <2>2, <2>3, <3>1, <3>2, <3>3 DEF ClosingOwned
  <2>4. CASE closed \/ closing
    <3>1. closing' = closing /\ pc'[c] \in {"idle", "waitdone"}
      BY <1>1, <1>3, <2>4 DEF Close, QueueTypeOK
    <3>2. Closing' = Closing
      BY <1>1, <2>1, <3>1, OwnersFrame
    <3> QED
      BY <1>1, <2>2, <3>1, <3>2, ClosingFrame DEF flags
  <2> QED
    BY <2>3, <2>4
<1> QED
  BY <1>2, <1>3 DEF Call

\* What a later step of a call leaves alone.
LEMMA ContinueEffect ==
  ASSUME QueueTypeOK, NEW c \in Callers, Continue(c) \/ Expire(c)
  PROVE  /\ \A d \in Callers \ {c} : pc'[d] = pc[d]
         /\ UNCHANGED <<cur, worker, closed, job, served, before>>
         /\ \/ SendJob(c)
            \/ ResetClosing(c) /\ UNCHANGED jobs
            \/ UNCHANGED <<jobs, closing>>
BY DEF Continue, EnqueueClose, SendJob, Acknowledge, Drop, GiveUp, ResetClosing,
       TakeResponse, AbandonResponse, StopWaiting, Join, WaitDone, Expire,
       QueueTypeOK, flags, stats, history

LEMMA ClosingContinue ==
  ASSUME ClosingInv, NEW c \in Callers, Continue(c) \/ Expire(c)
  PROVE  CloserKind' /\ ClosingOwned'
<1> USE DEF ClosingInv
<1>1. /\ \A d \in Callers \ {c} : pc'[d] = pc[d]
      /\ UNCHANGED <<cur, worker, closed, job>>
  BY ContinueEffect
<1>2. CASE EnqueueClose(c)
  <2>1. pc[c] = "check" /\ c \in Closing /\ job[c].kind = "close"
    BY <1>2 DEF EnqueueClose, Closing, CloserKind
  <2>2. worker = "running" /\ ~closed
    BY <2>1 DEF ClosingOwned
  <2>3. pc'[c] = "send" /\ UNCHANGED <<jobs, closing>>
    BY <1>2, <2>2 DEF EnqueueClose, Admits, flags, QueueTypeOK
  <2>4. Closing' = Closing /\ Pending' = Pending
    BY <1>1, <2>1, <2>3 DEF Closing, Pending
  <2>5. ClosingOwned'
    BY <1>1, <2>3, <2>4, ClosingFrame DEF flags
  <2> QED
    BY <1>1, <2>3, <2>5 DEF CloserKind
<1>3. CASE SendJob(c)
  <2>1. /\ Pending' = Append(Pending, job[c]) /\ pc[c] = "send" /\ pc'[c] = "sent"
        /\ closing' = closing
    BY <1>3, SendAppends DEF SendJob, QueueTypeOK, flags
  <2>2. Closing' = Closing \ {c} /\ (c \in Closing <=> job[c].kind = "close")
    BY <1>1, <2>1 DEF Closing
  <2>3. /\ DOMAIN Pending = 1..Len(Pending) /\ Len(Pending) \in Nat
        /\ DOMAIN Pending' = 1..Len(Pending) + 1
        /\ \A i \in 1..Len(Pending) : Pending'[i] = Pending[i]
        /\ Pending'[Len(Pending) + 1] = job[c]
    <3>1. Pending \in Seq(Job) /\ job[c] \in Job
      BY TrailIsSeq DEF QueueTypeOK
    <3>2. Pending' \in Seq(Job) /\ Len(Pending') = Len(Pending) + 1
      BY <2>1, <3>1, AppendProperties
    <3> QED
      BY <2>1, <3>1, <3>2, AppendProperties, LenProperties
  <2>4. CloseJobs' = CloseJobs \cup (IF job[c].kind = "close" THEN {Len(Pending) + 1}
                                                          ELSE {})
    BY <2>3 DEF CloseJobs
  <2>5. CloserKind'
    BY <1>1, <2>1 DEF CloserKind
  <2>6. CASE job[c].kind = "close"
    <3>1. c \in Closing /\ CloseJobs = {} /\ worker = "running"
      BY <2>2, <2>6 DEF ClosingOwned
    <3>2. Closing' = {} /\ CloseJobs' = {Len(Pending) + 1}
      BY <2>2, <2>4, <2>6, <3>1 DEF ClosingOwned
    <3> QED
      BY <1>1, <2>1, <2>5, <3>1, <3>2 DEF ClosingOwned
  <2>7. CASE job[c].kind # "close"
    BY <1>1, <2>1, <2>2, <2>4, <2>5, <2>7 DEF ClosingOwned
  <2> QED
    BY <2>6, <2>7
<1>4. CASE GiveUp(c)
  <2>1. /\ pc[c] = "send" /\ UNCHANGED <<jobs, closing>>
        /\ pc'[c] = IF job[c].kind = "close" THEN "reset" ELSE "idle"
    BY <1>4 DEF GiveUp, QueueTypeOK, flags
  <2>2. Closing' = Closing /\ Pending' = Pending
    BY <1>1, <2>1 DEF Closing, Pending
  <2>3. ClosingOwned'
    BY <1>1, <2>1, <2>2, ClosingFrame DEF flags
  <2> QED
    BY <1>1, <2>1, <2>3 DEF CloserKind
<1>5. CASE ResetClosing(c)
  <2>1. /\ pc[c] = "reset" /\ pc'[c] = "idle" /\ closing' = FALSE
        /\ UNCHANGED jobs
    BY <1>5 DEF ResetClosing, QueueTypeOK
  <2>2. c \in Closing /\ Closing = {c} /\ CloseJobs = {} /\ worker = "running"
    BY <2>1 DEF Closing, ClosingOwned
  <2>3. Closing' = {} /\ Pending' = Pending /\ CloseJobs' = {}
    BY <1>1, <2>1, <2>2 DEF Closing, Pending, CloseJobs
  <2>4. ClosingOwned'
    BY <1>1, <2>1, <2>2, <2>3 DEF ClosingOwned
  <2> QED
    BY <1>1, <2>1, <2>4 DEF CloserKind
<1>6. CASE Acknowledge(c) \/ Drop(c) \/ TakeResponse(c) \/ AbandonResponse(c)
           \/ Join(c) \/ WaitDone(c) \/ Expire(c)
  <2>1. UNCHANGED <<jobs, closing>>
    BY <1>6 DEF Acknowledge, Drop, TakeResponse, AbandonResponse, StopWaiting,
                Join, WaitDone, Expire, flags
  <2>2. CASE Expire(c)
    <3>1. UNCHANGED pc
      BY <2>2 DEF Expire
    <3>2. Closing' = Closing /\ Pending' = Pending
      BY <1>1, <2>1, <3>1 DEF Closing, Pending
    <3> QED
      BY <1>1, <2>1, <3>1, <3>2, ClosingFrame DEF CloserKind, flags
  <2>3. CASE ~Expire(c)
    <3>1. c \notin Closing /\ pc'[c] \in {"idle", "await", "join"}
      BY <1>6, <2>3 DEF Acknowledge, Drop, Blocks, IsEvent, TakeResponse,
         AbandonResponse, StopWaiting, Join, WaitDone, QueueTypeOK, Closing
    <3>2. Closing' = Closing /\ Pending' = Pending
      BY <1>1, <2>1, <3>1, OwnersFrame DEF Pending
    <3>3. ClosingOwned'
      BY <1>1, <2>1, <3>2, ClosingFrame DEF flags
    <3> QED
      BY <1>1, <3>1, <3>3 DEF CloserKind
  <2> QED
    BY <2>2, <2>3
<1> QED
  BY <1>2, <1>3, <1>4, <1>5, <1>6 DEF Continue

\* How finishing the first pending job moves the positions of the close jobs.
LEMMA FinishShifts ==
  ASSUME QueueTypeOK, cur # <<>>, Served, UNCHANGED jobs
  PROVE  /\ \A i : i \in CloseJobs' <=> i \in Nat \ {0} /\ i + 1 \in CloseJobs
         /\ 1 \in CloseJobs <=> Head(cur).kind = "close"
         /\ CloseJobs \subseteq Nat \ {0}
<1>1. /\ Pending \in Seq(Job) /\ Pending # <<>> /\ Head(cur) = Pending[1]
      /\ Pending' = Tail(Pending)
      /\ DOMAIN Pending = 1..Len(Pending) /\ Len(Pending) \in Nat /\ Len(Pending) # 0
  BY FinishServes, TrailIsSeq, EmptySeq
<1>2. /\ Tail(Pending) \in Seq(Job) /\ Len(Tail(Pending)) = Len(Pending) - 1
      /\ \A i \in 1..Len(Pending) - 1 : Tail(Pending)[i] = Pending[i + 1]
  BY <1>1, HeadTailProperties
<1>3. DOMAIN Pending' = 1..Len(Pending) - 1
  BY <1>1, <1>2, LenProperties
<1> QED
  BY <1>1, <1>2, <1>3 DEF CloseJobs

LEMMA ClosingWorker ==
  ASSUME ClosingInv, Work
  PROVE  CloserKind' /\ ClosingOwned'
<1> USE DEF ClosingInv
<1>1. UNCHANGED <<pc, job>> /\ Closing' = Closing
  BY DEF Work, Receive, FinishEvent, FinishFlush, FinishClose, MarkClosed,
         CloseDone, Closing
<1>2. CloserKind'
  BY <1>1 DEF CloserKind
<1>3. CASE Receive
  BY <1>1, <1>2, <1>3, ReceiveKeeps, ClosingFrame DEF Receive
<1>4. CASE FinishEvent \/ FinishFlush
  <2>1. /\ cur # <<>> /\ Served /\ UNCHANGED <<jobs, worker, flags>>
        /\ worker = "running" /\ Head(cur).kind # "close"
    BY <1>4 DEF FinishEvent, FinishFlush, IsEvent
  <2>2. /\ \A i : i \in CloseJobs' <=> i \in Nat \ {0} /\ i + 1 \in CloseJobs
        /\ 1 \notin CloseJobs /\ CloseJobs \subseteq Nat \ {0}
    BY <2>1, FinishShifts
  <2>3. CloseJobs' = {} <=> CloseJobs = {}
    <3>1. ASSUME NEW i \in CloseJobs PROVE i - 1 \in CloseJobs'
      <4>1. i \in Nat \ {0} /\ i # 1
        BY <2>2, <3>1
      <4>2. i - 1 \in Nat \ {0} /\ (i - 1) + 1 = i
        BY <4>1
      <4> QED
        BY <2>2, <3>1, <4>2
    <3> QED
      BY <2>2, <3>1
  <2>4. \A i, k \in CloseJobs' : i = k
    <3>1. ASSUME NEW i \in CloseJobs', NEW k \in CloseJobs' PROVE i = k
      <4>1. i + 1 \in CloseJobs /\ k + 1 \in CloseJobs /\ i \in Nat /\ k \in Nat
        BY <2>2, <3>1
      <4>2. i + 1 = k + 1
        BY <4>1 DEF ClosingOwned
      <4> QED
        BY <4>1, <4>2
    <3> QED
      BY <3>1
  <2> QED
    BY <1>1, <1>2, <2>1, <2>3, <2>4 DEF ClosingOwned, flags
<1>5. CASE FinishClose
  <2>1. /\ cur # <<>> /\ Served /\ UNCHANGED <<jobs, flags>> /\ cur' = <<>>
        /\ worker = "running" /\ worker' = "unwinding" /\ Head(cur).kind = "close"
    BY <1>5 DEF FinishClose, Served
  <2>2. /\ \A i : i \in CloseJobs' <=> i \in Nat \ {0} /\ i + 1 \in CloseJobs
        /\ 1 \in CloseJobs /\ CloseJobs \subseteq Nat \ {0}
    BY <2>1, FinishShifts
  <2>3. CloseJobs' = {}
    <3>1. ASSUME NEW i \in CloseJobs' PROVE FALSE
      <4>1. i + 1 \in CloseJobs /\ i \in Nat \ {0}
        BY <2>2, <3>1
      <4>2. i + 1 = 1
        BY <2>2, <4>1 DEF ClosingOwned
      <4> QED
        BY <4>1, <4>2
    <3> QED
      BY <3>1
  <2>4. Closing = {} /\ closing
    BY <2>2 DEF ClosingOwned
  <2> QED
    BY <1>1, <1>2, <2>1, <2>3, <2>4 DEF ClosingOwned, flags
<1>6. CASE MarkClosed \/ CloseDone
  <2>1. /\ UNCHANGED <<jobs, cur>> /\ worker \in {"unwinding", "marked"}
        /\ worker' \in {"marked", "stopped"}
    BY <1>6 DEF MarkClosed, CloseDone
  <2>2. Closing = {} /\ CloseJobs = {} /\ CloseJobs' = {} /\ cur = <<>>
    BY <2>1 DEF ClosingOwned, CloseJobs, Pending
  <2>3. closed' /\ ~closing'
    BY <1>6, <2>2 DEF MarkClosed, CloseDone, ClosingOwned, flags
  <2> QED
    BY <1>1, <1>2, <2>1, <2>2, <2>3 DEF ClosingOwned
<1> QED
  BY <1>3, <1>4, <1>5, <1>6 DEF Work

LEMMA ClosingInit == QueueInit => ClosingInv
<1> SUFFICES ASSUME QueueInit PROVE ClosingInv
  OBVIOUS
<1>1. Closing = {} /\ CloseJobs = {}
  <2>1. Pending = <<>>
    BY EmptySeq, ConcatEmptySeq DEF QueueInit, Pending
  <2>2. DOMAIN Pending = {}
    BY <2>1
  <2> QED
    BY <2>2 DEF QueueInit, Closing, CloseJobs
<1> QED
  BY <1>1, QueueTypeInit DEF QueueInit, ClosingInv, CloserKind, ClosingOwned

LEMMA ClosingStep == ClosingInv /\ [QueueNext]_qvars => ClosingInv'
<1> SUFFICES ASSUME ClosingInv, [QueueNext]_qvars PROVE ClosingInv'
  OBVIOUS
<1>1. QueueTypeOK'
  BY QueueTypeStep DEF ClosingInv
<1>2. CASE UNCHANGED qvars
  <2>1. Closing' = Closing /\ Pending' = Pending
    BY <1>2 DEF Closing, Pending, qvars
  <2> QED
    BY <1>1, <1>2, <2>1, ClosingFrame DEF ClosingInv, CloserKind, qvars
<1> QED
  BY <1>1, <1>2, ClosingBegin, ClosingContinue, ClosingWorker
     DEF QueueNext, ClosingInv

\* The flag closing has exactly one owner in every reachable state: no Close
\* can wedge the sink, steal another one's claim or queue a second close job.
THEOREM ClosingCorrect == QueueSpec => []ClosingOwned
<1>1. ClosingInv => ClosingOwned
  BY DEF ClosingInv
<1> QED
  BY <1>1, ClosingInit, ClosingStep, PTL DEF QueueSpec

-----------------------------------------------------------------------------
(* Order of the jobs, and the barrier. *)

\* PerCallerOrder is not inductive: it takes that a caller whose job is not
\* queued yet has queued only older ones.
OrderInv ==
  /\ PerCallerOrder
  /\ \A i \in DOMAIN Trail :
       /\ Trail[i].n <= job[Trail[i].by].n
       /\ pc[Trail[i].by] \in {"check", "send"} => Trail[i].n < job[Trail[i].by].n

\* What a caller may rely on is queued; it is queued before the caller's own
\* job; and an answer is only there for a job that has been served.
BarrierInv ==
  /\ acked \subseteq Range(Trail)
  /\ \A c \in Callers : before[c] \subseteq Range(Trail)
  /\ \A c \in Callers : pc[c] = "sent" => job[c] \in Range(Trail)
  /\ \A k \in DOMAIN Trail : Trail[k] = job[Trail[k].by] =>
       \A e \in before[Trail[k].by] : \E i \in DOMAIN Trail : i < k /\ Trail[i] = e
  /\ \A c \in answered : /\ pc[c] \in {"sent", "await"} /\ ~IsEvent(job[c])
                         /\ \E k \in DOMAIN served : served[k] = job[c]

QueueInv == QueueTypeOK /\ OrderInv /\ BarrierInv

\* What was served is the first part of the trail.
LEMMA ServedIsPrefix ==
  ASSUME QueueTypeOK
  PROVE  /\ DOMAIN served \subseteq DOMAIN Trail
         /\ \A k \in DOMAIN served : Trail[k] = served[k]
         /\ \A k \in DOMAIN served, i \in DOMAIN Trail : i < k => i \in DOMAIN served
<1>1. /\ served \in Seq(Job) /\ Pending \in Seq(Job)
      /\ Trail = served \o Pending /\ DOMAIN Trail = 1..Len(Trail)
  BY TrailIsSeq DEF QueueTypeOK
<1>2. /\ DOMAIN served = 1..Len(served) /\ Len(served) \in Nat
      /\ Len(Pending) \in Nat
  BY <1>1, LenProperties
<1>3. /\ Len(Trail) = Len(served) + Len(Pending)
      /\ \A i \in 1..Len(served) : Trail[i] = served[i]
  BY <1>1, <1>2, ConcatProperties
<1> QED
  BY <1>1, <1>2, <1>3

\* The elements of the trail are jobs of callers.
LEMMA TrailElements ==
  ASSUME QueueTypeOK
  PROVE  /\ \A i \in DOMAIN Trail : /\ Trail[i] \in Job
                                   /\ Trail[i].by \in Callers /\ Trail[i].n \in Nat
         /\ \A d \in Callers : job[d] \in Job /\ job[d].by = d /\ job[d].n \in Nat
<1>1. \A i \in DOMAIN Trail : Trail[i] \in Job
  BY TrailIsSeq, ElementOfSeq
<1>2. \A d \in Callers : job[d] \in Job /\ job[d].by = d
  BY DEF QueueTypeOK
<1>3. \A j \in Job : j.by \in Callers /\ j.n \in Nat
  BY Bounds DEF Job
<1> QED
  BY <1>1, <1>2, <1>3

\* The barrier, from the invariant.
LEMMA BarrierHolds == QueueInv => ResponseIsBarrier
<1> SUFFICES ASSUME QueueInv, NEW c \in answered
             PROVE  before[c] \cup {job[c]} \subseteq Range(served)
  BY DEF ResponseIsBarrier
<1> USE DEF QueueInv
<1>1. PICK k \in DOMAIN served : served[k] = job[c]
  BY DEF BarrierInv
<1>2. c \in Callers /\ job[c].by = c
  BY DEF QueueTypeOK
<1>3. k \in DOMAIN Trail /\ Trail[k] = job[c] /\ Trail[k].by = c
  BY <1>1, <1>2, ServedIsPrefix
<1>4. ASSUME NEW e \in before[c] PROVE e \in Range(served)
  <2>1. PICK i \in DOMAIN Trail : i < k /\ Trail[i] = e
    BY <1>3 DEF BarrierInv
  <2>2. i \in DOMAIN served /\ served[i] = e
    BY <1>1, <2>1, ServedIsPrefix
  <2> QED
    BY <2>2 DEF Range
<1>5. job[c] \in Range(served)
  BY <1>1 DEF Range
<1> QED
  BY <1>4, <1>5

LEMMA OrderBegin ==
  ASSUME QueueInv, NEW c \in Callers, Call(c)
  PROVE  OrderInv' /\ BarrierInv'
<1> USE DEF QueueInv
<1>1. /\ pc[c] = "idle"
      /\ job'[c].by = c /\ job'[c].n = job[c].n + 1 /\ before'[c] = acked
      /\ \A d \in Callers \ {c} :
           job'[d] = job[d] /\ pc'[d] = pc[d] /\ before'[d] = before[d]
      /\ UNCHANGED <<answered, served, acked>> /\ Trail' = Trail
  BY CallEffect DEF Trail
<1>2. pc'[c] # "sent"
  BY CallEffect DEF Call
<1>3. /\ \A i \in DOMAIN Trail : Trail[i].by \in Callers /\ Trail[i].n \in Nat
      /\ \A d \in Callers : job[d].n \in Nat
  BY TrailElements
<1>4. OrderInv'
  <2>1. ASSUME NEW i \in DOMAIN Trail
        PROVE  /\ Trail[i].n <= job'[Trail[i].by].n
               /\ pc'[Trail[i].by] \in {"check", "send"} =>
                    Trail[i].n < job'[Trail[i].by].n
    <3>1. CASE Trail[i].by = c
      <4>1. Trail[i].n <= job[c].n /\ Trail[i].n \in Nat /\ job[c].n \in Nat
        BY <1>3, <3>1 DEF OrderInv
      <4>2. Trail[i].n < job'[c].n
        BY <1>1, <4>1
      <4> QED
        BY <1>1, <1>3, <3>1, <4>1, <4>2
    <3>2. CASE Trail[i].by # c
      BY <1>1, <1>3, <3>2 DEF OrderInv
    <3> QED
      BY <3>1, <3>2
  <2> QED
    BY <1>1, <2>1 DEF OrderInv, PerCallerOrder
<1>5. \A k \in DOMAIN Trail : Trail[k].by = c => Trail[k] # job'[c]
  BY <1>1, <1>3 DEF OrderInv
<1>6. c \notin answered
  BY <1>1 DEF BarrierInv
<1>7. answered \subseteq Callers
  BY DEF QueueTypeOK
<1>8. ASSUME NEW k \in DOMAIN Trail, Trail[k] = job'[Trail[k].by],
             NEW e \in before'[Trail[k].by]
      PROVE  \E i \in DOMAIN Trail : i < k /\ Trail[i] = e
  <2>1. Trail[k].by \in Callers \ {c}
    BY <1>3, <1>5, <1>8
  <2> QED
    BY <1>1, <1>8, <2>1 DEF BarrierInv
<1>9. \A d \in answered' : /\ pc'[d] \in {"sent", "await"} /\ ~IsEvent(job'[d])
                           /\ \E k \in DOMAIN served' : served'[k] = job'[d]
  BY <1>1, <1>6, <1>7 DEF BarrierInv, IsEvent
<1>10. /\ acked' \subseteq Range(Trail')
       /\ \A d \in Callers : before'[d] \subseteq Range(Trail')
       /\ \A d \in Callers : pc'[d] = "sent" => job'[d] \in Range(Trail')
  BY <1>1, <1>2 DEF BarrierInv
<1> QED
  BY <1>1, <1>4, <1>8, <1>9, <1>10 DEF BarrierInv

\* A step of the caller's call that queues nothing.
LEMMA OrderContinue ==
  ASSUME QueueInv, NEW c \in Callers, Continue(c) \/ Expire(c), ~SendJob(c)
  PROVE  OrderInv' /\ BarrierInv'
<1> USE DEF QueueInv
<1>1. /\ \A d \in Callers \ {c} : pc'[d] = pc[d]
      /\ UNCHANGED <<job, before, served>> /\ Trail' = Trail
  BY ContinueEffect DEF Trail
<1>2. /\ \A i \in DOMAIN Trail : Trail[i].by \in Callers
      /\ \A d \in Callers : job[d].by = d
      /\ answered \subseteq Callers
  BY TrailElements DEF QueueTypeOK
<1>3. /\ pc'[c] = "sent" => pc[c] = "sent"
      /\ pc'[c] \in {"check", "send"} => pc[c] \in {"check", "send"}
  BY DEF Continue, EnqueueClose, Acknowledge, Drop, GiveUp, ResetClosing,
         TakeResponse, AbandonResponse, StopWaiting, Join, WaitDone, Expire,
         QueueTypeOK
<1>4. OrderInv'
  <2>1. ASSUME NEW i \in DOMAIN Trail, pc'[Trail[i].by] \in {"check", "send"}
        PROVE  Trail[i].n < job[Trail[i].by].n
    <3>1. pc[Trail[i].by] \in {"check", "send"}
      BY <1>1, <1>2, <1>3, <2>1
    <3> QED
      BY <3>1 DEF OrderInv
  <2> QED
    BY <1>1, <2>1 DEF OrderInv, PerCallerOrder
<1>5. acked' \subseteq Range(Trail)
  <2>1. CASE Acknowledge(c)
    <3>1. pc[c] = "sent" /\ acked' \subseteq acked \cup {job[c]}
      BY <2>1 DEF Acknowledge
    <3> QED
      BY <3>1 DEF BarrierInv
  <2>2. CASE ~Acknowledge(c)
    <3>1. acked' = acked
      BY <2>2 DEF Continue, EnqueueClose, Drop, GiveUp, ResetClosing, TakeResponse,
         AbandonResponse, StopWaiting, Join, WaitDone, Expire, history
    <3> QED
      BY <3>1 DEF BarrierInv
  <2> QED
    BY <2>1, <2>2
<1>6. ASSUME NEW d \in answered'
      PROVE  /\ pc'[d] \in {"sent", "await"} /\ ~IsEvent(job[d])
             /\ \E k \in DOMAIN served : served[k] = job[d]
  <2>1. /\ answered' \subseteq answered
        /\ c \in answered' /\ pc[c] \in {"sent", "await"} /\ ~IsEvent(job[c])
             => pc'[c] \in {"sent", "await"}
    BY DEF Continue, EnqueueClose, Acknowledge, Drop, GiveUp, ResetClosing,
       TakeResponse, AbandonResponse, StopWaiting, Join, WaitDone, Expire,
       QueueTypeOK
  <2>2. d \in answered /\ d \in Callers
    BY <1>2, <2>1, <1>6
  <2>3. /\ pc[d] \in {"sent", "await"} /\ ~IsEvent(job[d])
        /\ \E k \in DOMAIN served : served[k] = job[d]
    BY <2>2 DEF BarrierInv
  <2> QED
    BY <1>1, <1>6, <2>1, <2>2, <2>3
<1>7. \A d \in Callers : pc'[d] = "sent" => job[d] \in Range(Trail)
  BY <1>1, <1>3 DEF BarrierInv
<1>8. BarrierInv'
  <2>1. /\ \A d \in Callers : before[d] \subseteq Range(Trail)
        /\ \A k \in DOMAIN Trail : Trail[k] = job[Trail[k].by] =>
             \A e \in before[Trail[k].by] : \E i \in DOMAIN Trail : i < k /\ Trail[i] = e
    BY DEF BarrierInv
  <2>2. \A d \in answered' : /\ pc'[d] \in {"sent", "await"} /\ ~IsEvent(job'[d])
                             /\ \E k \in DOMAIN served' : served'[k] = job'[d]
    BY <1>1, <1>6 DEF IsEvent
  <2> QED
    BY <1>1, <1>5, <1>7, <2>1, <2>2 DEF BarrierInv
<1> QED
  BY <1>4, <1>8

\* The send: the new job is younger than all of its caller's, and what the
\* caller relies on is already there.
LEMMA OrderSend ==
  ASSUME QueueInv, NEW c \in Callers, SendJob(c)
  PROVE  OrderInv' /\ BarrierInv'
<1> USE DEF QueueInv
<1> DEFINE m == Len(Trail)
<1>1. /\ pc[c] = "send" /\ pc'[c] = "sent"
      /\ \A d \in Callers \ {c} : pc'[d] = pc[d]
      /\ UNCHANGED <<job, before, served, acked, answered>>
  BY DEF SendJob, QueueTypeOK, history
<1>2. /\ m \in Nat /\ DOMAIN Trail = 1..m /\ DOMAIN Trail' = 1..m + 1
      /\ \A i \in 1..m : Trail'[i] = Trail[i]
      /\ Trail'[m + 1] = job[c]
  <2>1. Trail \in Seq(Job) /\ job[c] \in Job /\ Trail' = Append(Trail, job[c])
    BY TrailIsSeq, SendAppends DEF QueueTypeOK
  <2>2. Trail' \in Seq(Job) /\ Len(Trail') = m + 1
    BY <2>1, AppendProperties
  <2> QED
    BY <2>1, <2>2, AppendProperties, LenProperties
<1>3. /\ \A i \in 1..m : Trail[i].by \in Callers /\ Trail[i].n \in Nat
      /\ \A d \in Callers : job[d].by = d /\ job[d].n \in Nat
      /\ answered \subseteq Callers
  BY <1>2, TrailElements DEF QueueTypeOK
<1>4. \A i \in 1..m : Trail[i].by = c => Trail[i].n < job[c].n
  BY <1>1, <1>2 DEF OrderInv
<1> HIDE DEF m
<1>5. PerCallerOrder'
  <2>1. ASSUME NEW i \in 1..m + 1, NEW k \in 1..m + 1, i < k, Trail'[i].by = Trail'[k].by
        PROVE  Trail'[i].n < Trail'[k].n
    <3>1. i \in 1..m
      BY <1>2, <2>1
    <3>2. CASE k = m + 1
      BY <1>2, <1>3, <1>4, <2>1, <3>1, <3>2
    <3>3. CASE k \in 1..m
      BY <1>2, <2>1, <3>1, <3>3 DEF OrderInv, PerCallerOrder
    <3> QED
      BY <1>2, <3>2, <3>3
  <2> QED
    BY <1>2, <2>1 DEF PerCallerOrder
<1>6. OrderInv'
  <2>1. ASSUME NEW i \in 1..m + 1
        PROVE  /\ Trail'[i].n <= job[Trail'[i].by].n
               /\ pc'[Trail'[i].by] \in {"check", "send"} =>
                    Trail'[i].n < job[Trail'[i].by].n
    <3>1. CASE i = m + 1
      BY <1>1, <1>2, <1>3, <3>1
    <3>2. CASE i \in 1..m
      BY <1>1, <1>2, <1>3, <3>2 DEF OrderInv
    <3> QED
      BY <1>2, <3>1, <3>2
  <2> QED
    BY <1>1, <1>2, <1>5, <2>1 DEF OrderInv
<1>7. Range(Trail) \subseteq Range(Trail') /\ job[c] \in Range(Trail')
  <2>1. ASSUME NEW i \in 1..m PROVE Trail[i] \in Range(Trail')
    <3>1. i \in DOMAIN Trail' /\ Trail'[i] = Trail[i]
      BY <1>2
    <3> QED
      BY <3>1 DEF Range
  <2>2. m + 1 \in DOMAIN Trail'
    BY <1>2
  <2> QED
    BY <1>2, <2>1, <2>2 DEF Range
<1>8. ASSUME NEW k \in 1..m + 1, Trail'[k] = job[Trail'[k].by], NEW e \in before[Trail'[k].by]
      PROVE  \E i \in 1..m + 1 : i < k /\ Trail'[i] = e
  <2>1. CASE k = m + 1
    <3>1. e \in Range(Trail)
      BY <1>2, <1>3, <1>8, <2>1 DEF BarrierInv
    <3>2. PICK i \in 1..m : Trail[i] = e
      BY <1>2, <3>1 DEF Range
    <3>3. i \in 1..m + 1 /\ i < k /\ Trail'[i] = e
      BY <1>2, <2>1, <3>2
    <3> QED
      BY <3>3
  <2>2. CASE k \in 1..m
    <3>1. Trail[k] = job[Trail[k].by] /\ e \in before[Trail[k].by]
      BY <1>2, <1>8, <2>2
    <3>2. PICK i \in 1..m : i < k /\ Trail[i] = e
      BY <1>2, <2>2, <3>1 DEF BarrierInv
    <3>3. i \in 1..m + 1 /\ Trail'[i] = e
      BY <1>2, <3>2
    <3> QED
      BY <3>2, <3>3
  <2> QED
    BY <1>2, <2>1, <2>2
<1>9. \A d \in answered : /\ pc'[d] \in {"sent", "await"} /\ ~IsEvent(job[d])
                          /\ \E k \in DOMAIN served : served[k] = job[d]
  BY <1>1, <1>3 DEF BarrierInv
<1>10. /\ acked \subseteq Range(Trail')
       /\ \A d \in Callers : before[d] \subseteq Range(Trail')
       /\ \A d \in Callers : pc'[d] = "sent" => job[d] \in Range(Trail')
  BY <1>1, <1>7 DEF BarrierInv
<1>11. BarrierInv'
  <2>1. \A d \in answered' : /\ pc'[d] \in {"sent", "await"} /\ ~IsEvent(job'[d])
                             /\ \E k \in DOMAIN served' : served'[k] = job'[d]
    BY <1>1, <1>9 DEF IsEvent
  <2>2. \A k \in DOMAIN Trail' : Trail'[k] = job'[Trail'[k].by] =>
          \A e \in before'[Trail'[k].by] :
            \E i \in DOMAIN Trail' : i < k /\ Trail'[i] = e
    BY <1>1, <1>2, <1>8
  <2>3. /\ acked' \subseteq Range(Trail')
        /\ \A d \in Callers : before'[d] \subseteq Range(Trail')
        /\ \A d \in Callers : pc'[d] = "sent" => job'[d] \in Range(Trail')
    BY <1>1, <1>10
  <2> QED
    BY <2>1, <2>2, <2>3 DEF BarrierInv
<1> QED
  BY <1>6, <1>11

LEMMA OrderWorker ==
  ASSUME QueueInv, Work
  PROVE  OrderInv' /\ BarrierInv'
<1> USE DEF QueueInv
<1>1. UNCHANGED <<pc, job, before, acked>>
  BY DEF Work, Receive, FinishEvent, FinishFlush, FinishClose, MarkClosed,
         CloseDone, history
<1>2. /\ Trail' = Trail
      /\ \/ UNCHANGED <<served, answered>>
         \/ /\ Head(cur) \in Job /\ served' = Append(served, Head(cur))
            /\ \/ UNCHANGED answered
               \/ ~IsEvent(Head(cur)) /\ Respond
  <2>1. CASE Receive
    BY <2>1, ReceiveKeeps DEF Receive, history
  <2>2. CASE FinishEvent \/ FinishFlush \/ FinishClose
    <3>1. cur # <<>> /\ Served /\ UNCHANGED jobs
      BY <2>2 DEF FinishEvent, FinishFlush, FinishClose
    <3>2. UNCHANGED answered \/ (~IsEvent(Head(cur)) /\ Respond)
      BY <2>2 DEF FinishEvent, FinishFlush, FinishClose, IsEvent
    <3> QED
      BY <3>1, <3>2, FinishServes
  <2>3. CASE MarkClosed \/ CloseDone
    BY <2>3 DEF MarkClosed, CloseDone, Trail, history
  <2> QED
    BY <2>1, <2>2, <2>3 DEF Work
<1>3. OrderInv'
  BY <1>1, <1>2 DEF OrderInv, PerCallerOrder
<1>4. ASSUME NEW d \in answered'
      PROVE  /\ pc[d] \in {"sent", "await"} /\ ~IsEvent(job[d])
             /\ \E k \in DOMAIN served' : served'[k] = job[d]
  <2>1. CASE UNCHANGED <<served, answered>>
    BY <1>4, <2>1 DEF BarrierInv
  <2>2. CASE Head(cur) \in Job /\ served' = Append(served, Head(cur))
    <3>1. /\ served \in Seq(Job) /\ DOMAIN served = 1..Len(served) /\ Len(served) \in Nat
          /\ served' \in Seq(Job) /\ DOMAIN served' = 1..Len(served) + 1
          /\ \A k \in 1..Len(served) : served'[k] = served[k]
          /\ served'[Len(served) + 1] = Head(cur)
      <4>1. served \in Seq(Job)
        BY DEF QueueTypeOK
      <4>2. served' \in Seq(Job) /\ Len(served') = Len(served) + 1
        BY <2>2, <4>1, AppendProperties
      <4> QED
        BY <2>2, <4>1, <4>2, AppendProperties, LenProperties
    <3>2. CASE d \in answered
      <4>1. /\ pc[d] \in {"sent", "await"} /\ ~IsEvent(job[d])
            /\ \E k \in DOMAIN served : served[k] = job[d]
        BY <3>2 DEF BarrierInv
      <4> QED
        BY <3>1, <4>1
    <3>3. CASE d \notin answered
      <4>1. /\ ~IsEvent(Head(cur)) /\ Listening(Head(cur)) /\ d = Head(cur).by
        BY <1>2, <1>4, <2>2, <3>3 DEF Respond
      <4> QED
        BY <3>1, <4>1 DEF Listening
    <3> QED
      BY <3>2, <3>3
  <2> QED
    BY <1>2, <2>1, <2>2
<1>5. BarrierInv'
  <2>1. \A d \in answered' : /\ pc'[d] \in {"sent", "await"} /\ ~IsEvent(job'[d])
                             /\ \E k \in DOMAIN served' : served'[k] = job'[d]
    BY <1>1, <1>4 DEF IsEvent
  <2>2. /\ acked' \subseteq Range(Trail')
        /\ \A c \in Callers : before'[c] \subseteq Range(Trail')
        /\ \A c \in Callers : pc'[c] = "sent" => job'[c] \in Range(Trail')
        /\ \A k \in DOMAIN Trail' : Trail'[k] = job'[Trail'[k].by] =>
             \A e \in before'[Trail'[k].by] :
               \E i \in DOMAIN Trail' : i < k /\ Trail'[i] = e
    BY <1>1, <1>2 DEF BarrierInv
  <2> QED
    BY <2>1, <2>2 DEF BarrierInv
<1> QED
  BY <1>3, <1>5

LEMMA QueueInvInit == QueueInit => QueueInv
<1> SUFFICES ASSUME QueueInit PROVE QueueInv
  OBVIOUS
<1>1. Trail = <<>> /\ DOMAIN Trail = {}
  BY EmptySeq, ConcatEmptySeq DEF QueueInit, Trail
<1> QED
  BY <1>1, QueueTypeInit DEF QueueInit, QueueInv, OrderInv, PerCallerOrder, BarrierInv

LEMMA QueueInvStep == QueueInv /\ [QueueNext]_qvars => QueueInv'
<1> SUFFICES ASSUME QueueInv, [QueueNext]_qvars PROVE QueueInv'
  OBVIOUS
<1>1. QueueTypeOK'
  BY QueueTypeStep DEF QueueInv
<1>2. CASE UNCHANGED qvars
  <2>1. Trail' = Trail /\ UNCHANGED <<served, answered, pc, job, before, acked>>
    BY <1>2 DEF Trail, qvars, history
  <2> QED
    BY <1>1, <2>1 DEF QueueInv, OrderInv, PerCallerOrder, BarrierInv, IsEvent
<1> QED
  BY <1>1, <1>2, OrderBegin, OrderContinue, OrderSend, OrderWorker
     DEF QueueNext, QueueInv

\* However calls interleave, the queue keeps each caller's order and holds no
\* job twice.
THEOREM PerCallerOrderCorrect == QueueSpec => []PerCallerOrder
<1>1. QueueInv => PerCallerOrder
  BY DEF QueueInv, OrderInv
<1> QED
  BY <1>1, QueueInvInit, QueueInvStep, PTL DEF QueueSpec

\* A Sync or Close that is answered finds every earlier acknowledged event
\* handled.
THEOREM BarrierCorrect == QueueSpec => []ResponseIsBarrier
BY BarrierHolds, QueueInvInit, QueueInvStep, PTL DEF QueueSpec

\* The job in the worker's hand has not been served yet.
LEMMA HeadIsNew ==
  ASSUME QueueInv, cur # <<>>
  PROVE  Head(cur) \notin Range(served) /\ Head(cur) \in Job
<1>1. /\ served \in Seq(Job) /\ cur \in Seq(Job) /\ jobs \in Seq(Job)
      /\ Head(cur) \in Job /\ Len(cur) = 1 /\ cur[1] = Head(cur)
  BY AtMostOne DEF QueueInv, QueueTypeOK
<1>2. /\ DOMAIN served = 1..Len(served) /\ Len(served) \in Nat /\ Len(jobs) \in Nat
      /\ Len(cur) = 1 /\ cur[1] = Head(cur)
  BY <1>1, LenProperties
<1>3. /\ served \o cur \in Seq(Job) /\ Len(served \o cur) = Len(served) + 1
      /\ (served \o cur)[Len(served) + 1] = Head(cur)
      /\ \A i \in 1..Len(served) : (served \o cur)[i] = served[i]
  BY <1>1, <1>2, ConcatProperties
<1>4. /\ Len(served) + 1 \in DOMAIN Trail /\ Trail[Len(served) + 1] = Head(cur)
      /\ \A i \in 1..Len(served) : i \in DOMAIN Trail /\ Trail[i] = served[i]
  <2> DEFINE s == served \o cur
  <2>a. s \in Seq(Job) /\ Len(s) = Len(served) + 1 /\ Trail = s \o jobs
    BY <1>3 DEF Trail
  <2> HIDE DEF s
  <2>b. /\ Trail \in Seq(Job) /\ Len(Trail) = Len(s) + Len(jobs)
        /\ \A i \in 1..Len(s) + Len(jobs) : i <= Len(s) => Trail[i] = s[i]
    BY <1>1, <2>a, ConcatProperties
  <2>1. /\ Trail \in Seq(Job) /\ Len(Trail) = Len(served) + 1 + Len(jobs)
        /\ \A i \in 1..Len(served) + 1 : Trail[i] = (served \o cur)[i]
    BY <1>2, <2>a, <2>b DEF s
  <2>2. DOMAIN Trail = 1..Len(Trail)
    BY <2>1, LenProperties
  <2> QED
    BY <1>2, <1>3, <2>1, <2>2
<1>5. ASSUME NEW i \in DOMAIN served, served[i] = Head(cur) PROVE FALSE
  <2>1. /\ i \in DOMAIN Trail /\ Trail[i] = Head(cur) /\ i < Len(served) + 1
    BY <1>2, <1>4, <1>5
  <2>2. Trail[i].n < Trail[Len(served) + 1].n
    BY <1>4, <2>1 DEF QueueInv, OrderInv, PerCallerOrder
  <2>3. Trail[i].n \in Nat
    BY <2>1, TrailElements DEF QueueInv
  <2> QED
    BY <1>4, <2>1, <2>2, <2>3
<1> QED
  BY <1>1, <1>5 DEF Range

-----------------------------------------------------------------------------
(* Induction over numbers and over sequences, stated with sets: the          *)
(* library's theorems take the property as an operator.                      *)

Below == {p \in Nat \X Nat : p[1] < p[2]}

LEMMA BelowWellFounded == IsWellFoundedOn(Below, Nat)
BY NatLessThanWellFounded DEF OpToRel, Below

LEMMA Least ==
  ASSUME NEW S \in SUBSET Nat, S # {}
  PROVE  \E n \in S : \A m \in S : n <= m
<1>1. PICK n \in S : \A m \in S : ~(<<m, n>> \in Below)
  BY BelowWellFounded, WFMin
<1>2. ASSUME NEW m \in S PROVE n <= m
  <2>1. <<m, n>> \in Nat \X Nat /\ <<m, n>>[1] = m /\ <<m, n>>[2] = n
    OBVIOUS
  <2>2. ~(m < n)
    BY <1>1, <2>1 DEF Below
  <2> QED
    BY <2>2
<1> QED
  BY <1>2

LEMMA SetInduction ==
  ASSUME NEW S \in SUBSET Nat, 0 \in S, \A n \in S : n + 1 \in S
  PROVE  S = Nat
<1>1. SUFFICES ASSUME Nat \ S # {} PROVE FALSE
  OBVIOUS
<1>2. PICK n \in Nat \ S : \A m \in Nat \ S : n <= m
  BY <1>1, Least
<1>3. n # 0 /\ n - 1 \in Nat /\ n - 1 \notin Nat \ S
  BY <1>2
<1>4. n - 1 + 1 \in S
  BY <1>3
<1> QED
  BY <1>2, <1>3, <1>4

\* A set of sequences that has the empty one and grows by Append has them all.
LEMMA SeqInduction ==
  ASSUME NEW S, NEW T \in SUBSET Seq(S), <<>> \in T,
         \A t \in T, x \in S : Append(t, x) \in T
  PROVE  T = Seq(S)
<1> DEFINE L == {n \in Nat : \A s \in Seq(S) : Len(s) = n => s \in T}
<1>1. 0 \in L
  <2>1. ASSUME NEW s \in Seq(S), Len(s) = 0 PROVE s \in T
    BY <2>1, EmptySeq
  <2> QED
    BY <2>1
<1>2. ASSUME NEW n \in L PROVE n + 1 \in L
  <2>1. ASSUME NEW s \in Seq(S), Len(s) = n + 1 PROVE s \in T
    <3>1. s # <<>>
      BY <2>1, EmptySeq
    <3>2. PICK t \in Seq(S), x \in S : s = Append(t, x)
      BY <3>1, SequenceEmptyOrAppend
    <3>3. Len(t) = n
      BY <2>1, <3>2, AppendProperties, LenProperties
    <3> QED
      BY <3>2, <3>3
  <2> QED
    BY <2>1
<1> HIDE DEF L
<1>3. L = Nat
  <2>1. L \in SUBSET Nat
    BY DEF L
  <2> QED
    BY <1>1, <1>2, <2>1, SetInduction
<1>4. ASSUME NEW s \in Seq(S) PROVE s \in T
  <2>1. Len(s) \in L
    BY <1>3, LenProperties
  <2> QED
    BY <2>1 DEF L
<1> QED
  BY <1>4

\* What the events among the first i jobs are.
FirstEvents(s, f) ==
  f = [i \in 0..Len(s) |->
         IF i = 0 THEN <<>>
         ELSE IF IsEvent(s[i]) THEN Append(f[i - 1], s[i]) ELSE f[i - 1]]

LEMMA FirstEventsSteps ==
  ASSUME NEW s \in Seq(Job), NEW f, FirstEvents(s, f)
  PROVE  /\ Len(s) \in Nat
         /\ f[0] = <<>>
         /\ \A i \in 1..Len(s) :
              f[i] = IF IsEvent(s[i]) THEN Append(f[i - 1], s[i]) ELSE f[i - 1]
<1> DEFINE g == [i \in 0..Len(s) |->
                   IF i = 0 THEN <<>>
                   ELSE IF IsEvent(s[i]) THEN Append(f[i - 1], s[i]) ELSE f[i - 1]]
<1>1. f = g
  BY DEF FirstEvents
<1>2. Len(s) \in Nat
  BY LenProperties
<1>3. g[0] = <<>>
  BY <1>2
<1>4. ASSUME NEW i \in 1..Len(s)
      PROVE  g[i] = IF IsEvent(s[i]) THEN Append(f[i - 1], s[i]) ELSE f[i - 1]
  BY <1>2
<1> HIDE DEF g
<1> QED
  BY <1>1, <1>2, <1>3, <1>4

LEMMA FirstEventsUnique ==
  ASSUME NEW s \in Seq(Job), NEW t \in Seq(Job), NEW f, NEW g,
         FirstEvents(s, f), FirstEvents(t, g), Len(s) <= Len(t),
         \A i \in 1..Len(s) : s[i] = t[i]
  PROVE  \A i \in 0..Len(s) : f[i] = g[i]
<1> DEFINE N == {i \in Nat : i <= Len(s) => f[i] = g[i]}
<1>0. Len(s) \in Nat /\ Len(t) \in Nat
  BY LenProperties
<1>f. /\ f[0] = <<>> /\ g[0] = <<>>
      /\ \A i \in 1..Len(s) :
           f[i] = IF IsEvent(s[i]) THEN Append(f[i - 1], s[i]) ELSE f[i - 1]
      /\ \A i \in 1..Len(s) :
           g[i] = IF IsEvent(s[i]) THEN Append(g[i - 1], s[i]) ELSE g[i - 1]
  <2>1. /\ g[0] = <<>>
        /\ \A i \in 1..Len(t) :
             g[i] = IF IsEvent(t[i]) THEN Append(g[i - 1], t[i]) ELSE g[i - 1]
    BY FirstEventsSteps
  <2>2. \A i \in 1..Len(s) : i \in 1..Len(t)
    BY <1>0
  <2> QED
    BY <2>1, <2>2, FirstEventsSteps
<1>1. 0 \in N
  BY <1>f
<1>2. ASSUME NEW n \in N PROVE n + 1 \in N
  BY <1>f, <1>0
<1> HIDE DEF N
<1>3. N = Nat
  <2>1. N \in SUBSET Nat
    BY DEF N
  <2> QED
    BY <1>1, <1>2, <2>1, SetInduction
<1> QED
  BY <1>0, <1>3 DEF N

LEMMA FirstEventsExtend ==
  ASSUME NEW s \in Seq(Job), NEW x \in Job, NEW f, FirstEvents(s, f)
  PROVE  \E g : FirstEvents(Append(s, x), g)
<1> DEFINE n == Len(s)
           e == IF IsEvent(x) THEN Append(f[n], x) ELSE f[n]
           g == [i \in 0..n + 1 |-> IF i = n + 1 THEN e ELSE f[i]]
           u == Append(s, x)
<1>1. /\ n \in Nat /\ Len(u) = n + 1 /\ u[n + 1] = x
      /\ \A i \in 1..n : u[i] = s[i]
  BY AppendProperties, LenProperties
<1>2. /\ f[0] = <<>>
      /\ \A i \in 1..n :
           f[i] = IF IsEvent(s[i]) THEN Append(f[i - 1], s[i]) ELSE f[i - 1]
  BY FirstEventsSteps
<1> HIDE DEF n, u, e
<1>3. g[0] = <<>>
  BY <1>1, <1>2
<1>4. ASSUME NEW i \in 1..n
      PROVE  g[i] = IF IsEvent(u[i]) THEN Append(g[i - 1], u[i]) ELSE g[i - 1]
  <2>1. g[i] = f[i] /\ g[i - 1] = f[i - 1]
    BY <1>1
  <2> QED
    BY <1>1, <1>2, <2>1
<1>5. g[n + 1] = IF IsEvent(u[n + 1]) THEN Append(g[n], u[n + 1]) ELSE g[n]
  <2>1. g[n + 1] = e /\ g[n] = f[n]
    BY <1>1
  <2> QED
    BY <1>1, <2>1 DEF e
<1>6. g = [i \in 0..n + 1 |-> g[i]]
  OBVIOUS
<1> HIDE DEF g
<1>7. \A i \in 0..n + 1 : g[i] = IF i = 0 THEN <<>>
          ELSE IF IsEvent(u[i]) THEN Append(g[i - 1], u[i]) ELSE g[i - 1]
  <2>1. ASSUME NEW i \in 0..n + 1 PROVE i = 0 \/ i \in 1..n \/ i = n + 1
    BY <1>1
  <2> QED
    BY <1>1, <1>3, <1>4, <1>5, <2>1
<1>8. FirstEvents(u, g)
  BY <1>1, <1>6, <1>7 DEF FirstEvents
<1> QED
  BY <1>8 DEF u

LEMMA FirstEventsExist ==
  ASSUME NEW s \in Seq(Job)
  PROVE  \E f : FirstEvents(s, f)
<1> DEFINE T == {t \in Seq(Job) : \E f : FirstEvents(t, f)}
<1>1. <<>> \in T
  <2>1. FirstEvents(<<>>, [i \in 0..0 |-> <<>>])
    BY DEF FirstEvents
  <2> QED
    BY <2>1
<1>2. ASSUME NEW t \in T, NEW x \in Job PROVE Append(t, x) \in T
  BY FirstEventsExtend, AppendProperties
<1> HIDE DEF T
<1>3. T = Seq(Job)
  <2>1. T \in SUBSET Seq(Job)
    BY DEF T
  <2> QED
    BY <1>1, <1>2, <2>1, SeqInduction
<1> QED
  BY <1>3 DEF T

LEMMA EventsOfFirst ==
  ASSUME NEW s \in Seq(Job), NEW f, FirstEvents(s, f)
  PROVE  EventsOf(s) = f[Len(s)]
<1> DEFINE g == CHOOSE h : FirstEvents(s, h)
<1>1. FirstEvents(s, g)
  BY FirstEventsExist
<1>2. EventsOf(s) = g[Len(s)]
  BY DEF EventsOf, FirstEvents
<1>3. Len(s) \in Nat
  BY LenProperties
<1> HIDE DEF g
<1>4. f[Len(s)] = g[Len(s)]
  BY <1>1, <1>3, FirstEventsUnique
<1> QED
  BY <1>2, <1>4

\* EventsOf takes the jobs one by one.
LEMMA EventsOfEmpty == EventsOf(<<>>) = <<>>
<1>1. <<>> \in Seq(Job) /\ Len(<<>>) = 0
  BY EmptySeq
<1>2. FirstEvents(<<>>, [i \in 0..0 |-> <<>>])
  BY DEF FirstEvents
<1> QED
  <2>1. [i \in 0..0 |-> <<>>][0] = <<>>
    OBVIOUS
  <2> QED
    BY <1>1, <1>2, <2>1, EventsOfFirst

LEMMA EventsOfAppend ==
  ASSUME NEW s \in Seq(Job), NEW x \in Job
  PROVE  EventsOf(Append(s, x)) = IF IsEvent(x) THEN Append(EventsOf(s), x) ELSE EventsOf(s)
<1> DEFINE n == Len(s)
           u == Append(s, x)
<1>1. /\ n \in Nat /\ Len(u) = n + 1 /\ u[n + 1] = x /\ u \in Seq(Job)
      /\ \A i \in 1..n : s[i] = u[i]
  BY AppendProperties, LenProperties
<1>2. PICK f : FirstEvents(s, f)
  BY FirstEventsExist
<1>3. PICK g : FirstEvents(u, g)
  BY <1>1, FirstEventsExist
<1> HIDE DEF n, u
<1>4. f[n] = g[n]
  <2>1. \A i \in 0..Len(s) : f[i] = g[i]
    BY <1>1, <1>2, <1>3, FirstEventsUnique DEF n
  <2> QED
    BY <1>1, <2>1 DEF n
<1>5. g[n + 1] = IF IsEvent(x) THEN Append(g[n], x) ELSE g[n]
  <2>1. n + 1 \in 1..Len(u) /\ (n + 1) - 1 = n
    BY <1>1
  <2>2. \A i \in 1..Len(u) :
          g[i] = IF IsEvent(u[i]) THEN Append(g[i - 1], u[i]) ELSE g[i - 1]
    BY <1>1, <1>3, FirstEventsSteps
  <2> QED
    BY <1>1, <2>1, <2>2
<1>6. EventsOf(s) = f[n] /\ EventsOf(u) = g[n + 1]
  BY <1>1, <1>2, <1>3, EventsOfFirst DEF n
<1> QED
  BY <1>4, <1>5, <1>6 DEF u

\* It takes the two parts of a sequence one after the other.
LEMMA EventsOfSeq ==
  ASSUME NEW s \in Seq(Job)
  PROVE  EventsOf(s) \in Seq(Job)
<1> DEFINE T == {t \in Seq(Job) : EventsOf(t) \in Seq(Job)}
<1>1. <<>> \in T
  BY EventsOfEmpty, EmptySeq
<1>2. ASSUME NEW t \in T, NEW x \in Job PROVE Append(t, x) \in T
  BY EventsOfAppend, AppendProperties
<1> HIDE DEF T
<1>3. T = Seq(Job)
  <2>1. T \in SUBSET Seq(Job)
    BY DEF T
  <2> QED
    BY <1>1, <1>2, <2>1, SeqInduction
<1> QED
  BY <1>3 DEF T

LEMMA EventsOfConcat ==
  ASSUME NEW s \in Seq(Job), NEW t \in Seq(Job)
  PROVE  EventsOf(s \o t) = EventsOf(s) \o EventsOf(t)
<1> DEFINE T == {u \in Seq(Job) : EventsOf(s \o u) = EventsOf(s) \o EventsOf(u)}
<1>0. EventsOf(s) \in Seq(Job)
  BY EventsOfSeq
<1>1. <<>> \in T
  <2>1. s \o <<>> = s /\ EventsOf(s) \o <<>> = EventsOf(s)
    BY <1>0, ConcatEmptySeq
  <2> QED
    BY <2>1, EventsOfEmpty, EmptySeq
<1>2. ASSUME NEW u \in T, NEW x \in Job PROVE Append(u, x) \in T
  <2>1. u \in Seq(Job) /\ EventsOf(u) \in Seq(Job) /\ <<x>> \in Seq(Job)
    BY EventsOfSeq
  <2>2. s \o Append(u, x) = Append(s \o u, x)
    <3>1. s \o u \in Seq(Job) /\ Append(u, x) = u \o <<x>>
      BY <2>1, ConcatProperties, AppendIsConcat
    <3> QED
      BY <2>1, <3>1, ConcatAssociative, AppendIsConcat
  <2>3. EventsOf(s) \o Append(EventsOf(u), x) = Append(EventsOf(s) \o EventsOf(u), x)
    <3>1. /\ EventsOf(s) \o EventsOf(u) \in Seq(Job)
          /\ Append(EventsOf(u), x) = EventsOf(u) \o <<x>>
      BY <1>0, <2>1, ConcatProperties, AppendIsConcat
    <3> QED
      BY <1>0, <2>1, <3>1, ConcatAssociative, AppendIsConcat
  <2>4. s \o u \in Seq(Job) /\ Append(u, x) \in Seq(Job)
    BY <2>1, ConcatProperties, AppendProperties
  <2>5. EventsOf(s \o u) = EventsOf(s) \o EventsOf(u)
    OBVIOUS
  <2>6. EventsOf(s \o Append(u, x)) = EventsOf(s) \o EventsOf(Append(u, x))
    BY <2>1, <2>2, <2>3, <2>4, <2>5, EventsOfAppend
  <2> QED
    BY <2>4, <2>6
<1> HIDE DEF T
<1>3. T = Seq(Job)
  <2>1. T \in SUBSET Seq(Job)
    BY DEF T
  <2> QED
    BY <1>1, <1>2, <2>1, SeqInduction
<1> QED
  BY <1>3 DEF T

\* The elements of EventsOf(s) are those of s that are events.
LEMMA EventsOfElements ==
  ASSUME NEW s \in Seq(Job)
  PROVE  \A k \in 1..Len(EventsOf(s)) :
           \E i \in 1..Len(s) : EventsOf(s)[k] = s[i] /\ IsEvent(s[i])
<1> DEFINE T == {t \in Seq(Job) : \A k \in 1..Len(EventsOf(t)) :
                   \E i \in 1..Len(t) : EventsOf(t)[k] = t[i] /\ IsEvent(t[i])}
<1>1. <<>> \in T
  BY EventsOfEmpty, EmptySeq
<1>2. ASSUME NEW t \in T, NEW x \in Job PROVE Append(t, x) \in T
  <2> DEFINE u == Append(t, x)
             e == EventsOf(t)
             v == EventsOf(u)
  <2>1. /\ Len(t) \in Nat /\ u \in Seq(Job) /\ Len(u) = Len(t) + 1 /\ u[Len(t) + 1] = x
        /\ \A i \in 1..Len(t) : u[i] = t[i]
    BY AppendProperties, LenProperties
  <2>2. e \in Seq(Job) /\ Len(e) \in Nat
    BY EventsOfSeq, LenProperties
  <2>3. v = IF IsEvent(x) THEN Append(e, x) ELSE e
    BY EventsOfAppend
  <2>4. \A k \in 1..Len(e) : \E i \in 1..Len(t) : e[k] = t[i] /\ IsEvent(t[i])
    OBVIOUS
  <2> HIDE DEF u, e, v
  <2>5. /\ Append(e, x) \in Seq(Job) /\ Len(Append(e, x)) = Len(e) + 1
        /\ \A k \in 1..Len(e) : Append(e, x)[k] = e[k]
        /\ Append(e, x)[Len(e) + 1] = x
    BY <2>2, AppendProperties
  <2>6. ASSUME NEW k \in 1..Len(v)
        PROVE  \E i \in 1..Len(u) : v[k] = u[i] /\ IsEvent(u[i])
    <3>1. CASE k \in 1..Len(e)
      <4>1. v[k] = e[k]
        BY <2>3, <2>5, <3>1
      <4>2. PICK i \in 1..Len(t) : e[k] = t[i] /\ IsEvent(t[i])
        BY <2>4, <3>1
      <4>3. i \in 1..Len(u) /\ u[i] = t[i]
        BY <2>1
      <4> QED
        BY <4>1, <4>2, <4>3
    <3>2. CASE k \notin 1..Len(e)
      <4>1. IsEvent(x) /\ k = Len(e) + 1
        BY <2>2, <2>3, <2>5, <3>2
      <4>2. v[k] = x
        BY <2>3, <2>5, <4>1
      <4>3. Len(t) + 1 \in 1..Len(u)
        BY <2>1
      <4> QED
        BY <2>1, <4>1, <4>2, <4>3
    <3> QED
      BY <3>1, <3>2
  <2> QED
    BY <2>1, <2>6 DEF u, v
<1> HIDE DEF T
<1>3. T = Seq(Job)
  <2>1. T \in SUBSET Seq(Job)
    BY DEF T
  <2> QED
    BY <1>1, <1>2, <2>1, SeqInduction
<1> QED
  BY <1>3 DEF T

\* No event is left out.
LEMMA EventsOfAll ==
  ASSUME NEW s \in Seq(Job)
  PROVE  \A i \in 1..Len(s) : IsEvent(s[i]) => s[i] \in ToSet(EventsOf(s))
<1> DEFINE T == {t \in Seq(Job) :
                   \A i \in 1..Len(t) : IsEvent(t[i]) => t[i] \in ToSet(EventsOf(t))}
<1>1. <<>> \in T
  BY EmptySeq
<1>2. ASSUME NEW t \in T, NEW x \in Job PROVE Append(t, x) \in T
  <2> DEFINE u == Append(t, x)
             e == EventsOf(t)
             v == EventsOf(u)
  <2>1. /\ Len(t) \in Nat /\ u \in Seq(Job) /\ Len(u) = Len(t) + 1 /\ u[Len(t) + 1] = x
        /\ \A i \in 1..Len(t) : u[i] = t[i]
    BY AppendProperties, LenProperties
  <2>2. e \in Seq(Job) /\ Len(e) \in Nat /\ DOMAIN e = 1..Len(e)
    BY EventsOfSeq, LenProperties
  <2>3. v = IF IsEvent(x) THEN Append(e, x) ELSE e
    BY EventsOfAppend
  <2>4. \A i \in 1..Len(t) : IsEvent(t[i]) => t[i] \in ToSet(e)
    OBVIOUS
  <2> HIDE DEF u, e, v
  <2>5. ToSet(e) \subseteq ToSet(v) /\ (IsEvent(x) => x \in ToSet(v))
    <3>1. CASE IsEvent(x)
      <4>1. /\ DOMAIN v = 1..Len(e) + 1 /\ v[Len(e) + 1] = x
            /\ \A k \in 1..Len(e) : v[k] = e[k]
        BY <2>2, <2>3, <3>1, AppendProperties, LenProperties
      <4>2. Len(e) + 1 \in DOMAIN v /\ \A k \in DOMAIN e : k \in DOMAIN v /\ v[k] = e[k]
        BY <2>2, <4>1
      <4> QED
        BY <4>1, <4>2 DEF ToSet
    <3>2. CASE ~IsEvent(x)
      BY <2>3, <3>2
    <3> QED
      BY <3>1, <3>2
  <2>6. ASSUME NEW i \in 1..Len(u), IsEvent(u[i]) PROVE u[i] \in ToSet(v)
    <3>1. i \in 1..Len(t) \/ i = Len(t) + 1
      BY <2>1
    <3> QED
      BY <2>1, <2>4, <2>5, <2>6, <3>1
  <2> QED
    BY <2>1, <2>6 DEF u, v
<1> HIDE DEF T
<1>3. T = Seq(Job)
  <2>1. T \in SUBSET Seq(Job)
    BY DEF T
  <2> QED
    BY <1>1, <1>2, <2>1, SeqInduction
<1> QED
  BY <1>3 DEF T

\* Sequences without repetitions.
Distinct(s) == \A i, k \in 1..Len(s) : s[i] = s[k] => i = k

LEMMA EventsOfDistinct ==
  ASSUME NEW s \in Seq(Job), Distinct(s)
  PROVE  Distinct(EventsOf(s))
<1> DEFINE T == {t \in Seq(Job) : Distinct(t) => Distinct(EventsOf(t))}
<1>1. <<>> \in T
  BY EmptySeq, EventsOfEmpty DEF Distinct
<1>2. ASSUME NEW t \in T, NEW x \in Job, Distinct(Append(t, x))
      PROVE  Distinct(EventsOf(Append(t, x)))
  <2> DEFINE u == Append(t, x)
             e == EventsOf(t)
             v == EventsOf(u)
  <2>1. /\ Len(t) \in Nat /\ u \in Seq(Job) /\ Len(u) = Len(t) + 1 /\ u[Len(t) + 1] = x
        /\ \A i \in 1..Len(t) : u[i] = t[i]
    BY AppendProperties, LenProperties
  <2>2. e \in Seq(Job) /\ Len(e) \in Nat
    BY EventsOfSeq, LenProperties
  <2>3. v = IF IsEvent(x) THEN Append(e, x) ELSE e
    BY EventsOfAppend
  <2>4. Distinct(u) /\ (Distinct(t) => Distinct(e))
    BY <1>2
  <2>5. \A k \in 1..Len(e) : \E i \in 1..Len(t) : e[k] = t[i]
    BY EventsOfElements
  <2> HIDE DEF u, e, v
  <2>6. Distinct(e)
    <3>1. Distinct(t)
      <4>1. \A i \in 1..Len(t) : i \in 1..Len(u)
        BY <2>1
      <4> QED
        BY <2>1, <2>4, <4>1 DEF Distinct
    <3> QED
      BY <2>4, <3>1
  <2>7. ASSUME NEW k \in 1..Len(e) PROVE e[k] # x
    <3>1. PICK i \in 1..Len(t) : e[k] = t[i]
      BY <2>5
    <3>2. i \in 1..Len(u) /\ Len(t) + 1 \in 1..Len(u) /\ i # Len(t) + 1
      BY <2>1
    <3> QED
      BY <2>1, <2>4, <3>1, <3>2 DEF Distinct
  <2>8. CASE IsEvent(x)
    <3>1. /\ Len(v) = Len(e) + 1 /\ v[Len(e) + 1] = x
          /\ \A k \in 1..Len(e) : v[k] = e[k]
      BY <2>2, <2>3, <2>8, AppendProperties
    <3>2. \A k \in 1..Len(v) : k \in 1..Len(e) \/ k = Len(e) + 1
      BY <2>2, <3>1
    <3>3. ASSUME NEW i \in 1..Len(v), NEW k \in 1..Len(v), v[i] = v[k] PROVE i = k
      BY <2>6, <2>7, <3>1, <3>2, <3>3 DEF Distinct
    <3> QED
      BY <3>3 DEF Distinct, v, u
  <2>9. CASE ~IsEvent(x)
    BY <2>3, <2>6, <2>9 DEF v, u
  <2> QED
    BY <2>8, <2>9
<1>3. \A t \in T, x \in Job : Append(t, x) \in T
  BY <1>2, AppendProperties
<1> HIDE DEF T
<1>4. T = Seq(Job)
  <2>1. T \in SUBSET Seq(Job)
    BY DEF T
  <2> QED
    BY <1>1, <1>3, <2>1, SeqInduction
<1> QED
  BY <1>4 DEF T

LEMMA ToSetSize ==
  ASSUME NEW S, NEW s \in Seq(S)
  PROVE  /\ IsFiniteSet(ToSet(s)) /\ Cardinality(ToSet(s)) \in Nat
         /\ Cardinality(ToSet(s)) <= Len(s)
         /\ Distinct(s) => Cardinality(ToSet(s)) = Len(s)
<1>1. /\ Len(s) \in Nat /\ DOMAIN s = 1..Len(s) /\ s \in [1..Len(s) -> S]
  BY LenProperties
<1>2. IsFiniteSet(1..Len(s)) /\ Cardinality(1..Len(s)) = Len(s)
  BY <1>1, FS_Interval
<1>3. s \in [1..Len(s) -> ToSet(s)]
  BY <1>1 DEF ToSet
<1>4. s \in Surjection(1..Len(s), ToSet(s))
  BY <1>1, <1>3 DEF Surjection, ToSet
<1>5. Distinct(s) => s \in Injection(1..Len(s), ToSet(s))
  BY <1>3 DEF Distinct, Injection, IsInjective
<1> QED
  BY <1>1, <1>2, <1>4, <1>5, FS_Surjection, FS_CardinalityType

-----------------------------------------------------------------------------
(* The protocol implements OrderedDelivery. *)

\* While the worker runs it has served no close job; and calls count from one.
SealInv ==
  /\ QueueInv /\ ClosingInv
  /\ worker = "running" => \A i \in DOMAIN served : served[i].kind # "close"
  /\ \A c \in Callers : pc[c] # "idle" => job[c].n > 0

LEMMA SealInit == QueueInit => SealInv
<1> SUFFICES ASSUME QueueInit PROVE SealInv
  OBVIOUS
<1>1. DOMAIN served = {} /\ \A c \in Callers : pc[c] = "idle"
  BY EmptySeq, LenProperties DEF QueueInit
<1> QED
  BY <1>1, QueueInvInit, ClosingInit DEF SealInv

LEMMA SealStep == SealInv /\ [QueueNext]_qvars => SealInv'
<1> SUFFICES ASSUME SealInv, [QueueNext]_qvars PROVE SealInv'
  OBVIOUS
<1> USE DEF SealInv
<1>0. QueueTypeOK /\ QueueInv' /\ ClosingInv'
  BY QueueInvStep, ClosingStep DEF QueueInv
<1>1. CASE UNCHANGED qvars
  BY <1>0, <1>1 DEF qvars, history
<1>2. ASSUME NEW c \in Callers, Call(c) PROVE SealInv'
  <2>1. UNCHANGED <<worker, served>>
    BY <1>0, <1>2, CallEffect
  <2>2. job'[c].n > 0 /\ \A d \in Callers \ {c} : job'[d] = job[d] /\ pc'[d] = pc[d]
    <3>1. job[c].n \in Nat /\ job'[c].n = job[c].n + 1
      BY <1>0, <1>2, CallEffect, TrailElements
    <3> QED
      BY <1>0, <1>2, <3>1, CallEffect
  <2> QED
    BY <1>0, <2>1, <2>2
<1>3. ASSUME NEW c \in Callers, Continue(c) \/ Expire(c) PROVE SealInv'
  <2>1. UNCHANGED <<worker, served, job>> /\ \A d \in Callers \ {c} : pc'[d] = pc[d]
    BY <1>0, <1>3, ContinueEffect
  <2>2. pc[c] # "idle"
    BY <1>3 DEF Continue, EnqueueClose, SendJob, Acknowledge, Drop, GiveUp, ResetClosing,
         TakeResponse, AbandonResponse, StopWaiting, Join, WaitDone, Expire
  <2> QED
    BY <1>0, <2>1, <2>2
<1>4. CASE Work
  <2>1. UNCHANGED <<pc, job>>
    BY <1>4 DEF Work, Receive, FinishEvent, FinishFlush, FinishClose, MarkClosed, CloseDone
  <2>2. ASSUME worker' = "running", NEW i \in DOMAIN served'
        PROVE  served'[i].kind # "close"
    <3>1. worker = "running" /\ (UNCHANGED served \/ FinishEvent \/ FinishFlush)
      BY <1>4, <2>2 DEF Work, Receive, FinishEvent, FinishFlush, FinishClose,
           MarkClosed, CloseDone, history
    <3>2. CASE UNCHANGED served
      BY <2>2, <3>1, <3>2
    <3>3. CASE FinishEvent \/ FinishFlush
      <4>1. /\ cur # <<>> /\ Served /\ UNCHANGED jobs /\ Head(cur).kind # "close"
        BY <3>3 DEF FinishEvent, FinishFlush, IsEvent
      <4>2. Head(cur) \in Job /\ served' = Append(served, Head(cur)) /\ served \in Seq(Job)
        BY <1>0, <4>1, FinishServes DEF QueueTypeOK
      <4>3. /\ DOMAIN served = 1..Len(served) /\ Len(served) \in Nat
            /\ DOMAIN served' = 1..Len(served) + 1
            /\ \A k \in 1..Len(served) : served'[k] = served[k]
            /\ served'[Len(served) + 1] = Head(cur)
        BY <4>2, AppendProperties, LenProperties
      <4>4. i \in 1..Len(served) \/ i = Len(served) + 1
        BY <2>2, <4>3
      <4> QED
        BY <3>1, <4>1, <4>3, <4>4
    <3> QED
      BY <3>1, <3>2, <3>3
  <2> QED
    BY <1>0, <2>1, <2>2
<1> QED
  BY <1>1, <1>2, <1>3, <1>4 DEF QueueNext

\* When the first part of the trail holds no close job, its events are the
\* first ones accepted, and none of them is behind the seal.
LEMMA EventsOfPart ==
  ASSUME QueueTypeOK, NEW p \in Seq(Job), NEW q \in Seq(Job), Trail = p \o q,
         \A i \in 1..Len(p) : p[i].kind # "close"
  PROVE  /\ EventsOf(p) \in Seq(Job) /\ Len(EventsOf(p)) \in Nat
         /\ EventsOf(Trail) \in Seq(Job) /\ Len(EventsOf(Trail)) \in Nat
         /\ Len(EventsOf(p)) <= Len(EventsOf(Trail))
         /\ EventsOf(p) = SubSeq(EventsOf(Trail), 1, Len(EventsOf(p)))
         /\ \A k \in Seal : k \in Nat /\ Len(EventsOf(p)) <= k
<1>1. ASSUME NEW r \in Seq(Job)
      PROVE  /\ EventsOf(p) \in Seq(Job) /\ Len(EventsOf(p)) \in Nat
             /\ EventsOf(p \o r) \in Seq(Job) /\ Len(EventsOf(p \o r)) \in Nat
             /\ Len(EventsOf(p)) <= Len(EventsOf(p \o r))
             /\ EventsOf(p) = SubSeq(EventsOf(p \o r), 1, Len(EventsOf(p)))
  <2> DEFINE e == EventsOf(p)
             f == EventsOf(r)
             g == EventsOf(p \o r)
  <2>1. e \in Seq(Job) /\ f \in Seq(Job) /\ g = e \o f
    BY EventsOfSeq, EventsOfConcat
  <2> HIDE DEF e, f, g
  <2>2. /\ g \in Seq(Job) /\ Len(e) \in Nat /\ Len(f) \in Nat /\ Len(g) = Len(e) + Len(f)
        /\ \A i \in 1..Len(e) : g[i] = e[i]
    BY <2>1, ConcatProperties, LenProperties
  <2>3. \A i \in 1..Len(e) : g[i] \in Job
    BY <2>1, <2>2, ElementOfSeq
  <2>4. /\ SubSeq(g, 1, Len(e)) \in Seq(Job) /\ Len(SubSeq(g, 1, Len(e))) = Len(e)
        /\ \A i \in 1..Len(e) : SubSeq(g, 1, Len(e))[i] = g[i]
    BY <2>2, <2>3, SubSeqProperties
  <2>5. e = SubSeq(g, 1, Len(e))
    BY <2>1, <2>2, <2>4, SeqEqual
  <2> QED
    BY <2>1, <2>2, <2>5 DEF e, g
<1>2. ASSUME NEW i \in CloseAt
      PROVE  \E r \in Seq(Job) : SubSeq(Trail, 1, i) = p \o r
  <2>1. /\ Trail \in Seq(Job) /\ Len(p) \in Nat /\ Len(q) \in Nat
        /\ Len(Trail) = Len(p) + Len(q) /\ DOMAIN Trail = 1..Len(Trail)
        /\ \A k \in 1..Len(p) : Trail[k] = p[k]
    BY ConcatProperties, LenProperties
  <2>2. i \in 1..Len(Trail) /\ Trail[i].kind = "close"
    BY <2>1 DEF CloseAt
  <2>3. i > Len(p)
    BY <2>1, <2>2
  <2>4. SubSeq(Trail, 1, Len(p)) = p
    <3>1. \A k \in 1..Len(p) : Trail[k] \in Job
      BY <2>1, ElementOfSeq
    <3>2. /\ SubSeq(Trail, 1, Len(p)) \in Seq(Job)
          /\ Len(SubSeq(Trail, 1, Len(p))) = Len(p)
          /\ \A k \in 1..Len(p) : SubSeq(Trail, 1, Len(p))[k] = Trail[k]
      BY <2>1, <3>1, SubSeqProperties
    <3> QED
      BY <2>1, <3>2, SeqEqual
  <2>5. SubSeq(Trail, 1, Len(p)) \o SubSeq(Trail, Len(p) + 1, i) = SubSeq(Trail, 1, i)
    <3>1. /\ 1 \in 1..Len(Trail) + 1 /\ Len(p) \in 1 - 1..Len(Trail)
          /\ i \in Len(p)..Len(Trail)
      BY <2>1, <2>2, <2>3
    <3> QED
      BY <2>1, <3>1, ConcatAdjacentSubSeq
  <2>6. SubSeq(Trail, Len(p) + 1, i) \in Seq(Job)
    <3>1. \A k \in Len(p) + 1..i : Trail[k] \in Job
      BY <2>1, <2>2, ElementOfSeq
    <3> QED
      BY <2>1, <2>2, <3>1, SubSeqProperties
  <2> QED
    BY <2>4, <2>5, <2>6
<1>3. ASSUME NEW k \in Seal PROVE k \in Nat /\ Len(EventsOf(p)) <= k
  <2>1. PICK i \in CloseAt : k = Len(EventsOf(SubSeq(Trail, 1, i)))
    BY DEF Seal
  <2> QED
    BY <1>1, <1>2, <2>1
<1> QED
  BY <1>1, <1>3

\* What a send does to the events accepted and to the seal.
LEMMA SendMaps ==
  ASSUME SealInv, NEW c \in Callers, SendJob(c)
  PROVE  /\ IsEvent(job[c]) =>
              /\ EventsOf(Trail)' = Append(EventsOf(Trail), job[c])
              /\ job[c] \in Events /\ job[c] \notin ToSet(EventsOf(Trail))
         /\ ~IsEvent(job[c]) => EventsOf(Trail)' = EventsOf(Trail)
         /\ job[c].kind # "close" => Seal' = Seal
         /\ job[c].kind = "close" => Seal = {} /\ Seal' = {Len(EventsOf(Trail))}
<1> USE DEF SealInv, QueueInv
<1> DEFINE m == Len(Trail)
<1>1. /\ Trail \in Seq(Job) /\ job[c] \in Job /\ Trail' = Append(Trail, job[c])
      /\ pc[c] = "send" /\ job[c].n > 0
  BY SendAppends, TrailIsSeq DEF SendJob, QueueTypeOK
<1>2. /\ m \in Nat /\ DOMAIN Trail = 1..m /\ Trail' \in Seq(Job)
      /\ DOMAIN Trail' = 1..m + 1 /\ Len(Trail') = m + 1
      /\ \A i \in 1..m : Trail'[i] = Trail[i]
      /\ Trail'[m + 1] = job[c]
  BY <1>1, AppendProperties, LenProperties
<1>3. EventsOf(Trail)' = IF IsEvent(job[c]) THEN Append(EventsOf(Trail), job[c])
                                            ELSE EventsOf(Trail)
  BY <1>1, EventsOfAppend
<1>4. ASSUME IsEvent(job[c])
      PROVE  job[c] \in Events /\ job[c] \notin ToSet(EventsOf(Trail))
  <2>1. job[c] \in Events
    BY <1>1, <1>4 DEF Events
  <2>2. ASSUME job[c] \in ToSet(EventsOf(Trail)) PROVE FALSE
    <3>1. PICK k \in 1..Len(EventsOf(Trail)) : EventsOf(Trail)[k] = job[c]
      BY <1>1, <2>2, EventsOfSeq, LenProperties DEF ToSet
    <3>2. PICK i \in 1..m : job[c] = Trail[i]
      BY <1>1, <3>1, EventsOfElements
    <3>3. job[c].by = c /\ job[c].n \in Nat
      BY TrailElements
    <3>4. Trail[i].n < job[c].n
      BY <1>1, <1>2, <3>2, <3>3 DEF OrderInv
    <3> QED
      BY <3>2, <3>3, <3>4
  <2> QED
    BY <2>1, <2>2
<1>5. \A i \in 1..m : SubSeq(Trail', 1, i) = SubSeq(Trail, 1, i)
  <2>1. ASSUME NEW i \in 1..m PROVE SubSeq(Trail', 1, i) = SubSeq(Trail, 1, i)
    <3>1. Trail' = Trail \o <<job[c]>> /\ <<job[c]>> \in Seq(Job)
      BY <1>1, AppendIsConcat
    <3> QED
      BY <1>1, <1>2, <3>1, SubSeqOfConcat1
  <2> QED
    BY <2>1
<1>6. /\ \A i \in 1..m : i \in CloseAt' <=> i \in CloseAt
      /\ m + 1 \in CloseAt' <=> job[c].kind = "close"
      /\ CloseAt \subseteq 1..m /\ CloseAt' \subseteq 1..m + 1
  BY <1>2 DEF CloseAt
<1> HIDE DEF m
<1>7. ASSUME job[c].kind # "close" PROVE Seal' = Seal
  <2>1. CloseAt' = CloseAt
    <3>1. ASSUME NEW i \in CloseAt' PROVE i \in CloseAt
      <4>1. i \in 1..m \/ i = m + 1
        BY <1>2, <1>6
      <4> QED
        BY <1>6, <1>7, <4>1
    <3>2. ASSUME NEW i \in CloseAt PROVE i \in CloseAt'
      BY <1>6
    <3> QED
      BY <3>1, <3>2
  <2>2. \A i \in CloseAt : EventsOf(SubSeq(Trail', 1, i)) = EventsOf(SubSeq(Trail, 1, i))
    BY <1>5, <1>6
  <2> QED
    BY <2>1, <2>2 DEF Seal
<1>8. ASSUME job[c].kind = "close" PROVE Seal = {} /\ Seal' = {Len(EventsOf(Trail))}
  <2>1. c \in Closing
    BY <1>1, <1>8 DEF Closing
  <2>2. CloseJobs = {} /\ worker = "running"
    BY <2>1 DEF ClosingInv, ClosingOwned
  <2>3. CloseAt = {}
    <3>1. ASSUME NEW i \in CloseAt PROVE FALSE
      <4>1. /\ served \in Seq(Job) /\ Pending \in Seq(Job) /\ Trail = served \o Pending
            /\ DOMAIN served = 1..Len(served) /\ Len(served) \in Nat
            /\ DOMAIN Pending = 1..Len(Pending) /\ Len(Pending) \in Nat
            /\ m = Len(Trail)
        BY TrailIsSeq, LenProperties DEF QueueTypeOK, m
      <4>2. /\ m = Len(served) + Len(Pending)
            /\ \A k \in 1..Len(served) + Len(Pending) :
                 Trail[k] = IF k <= Len(served) THEN served[k] ELSE Pending[k - Len(served)]
        BY <4>1, ConcatProperties
      <4>3. i \in 1..m /\ Trail[i].kind = "close"
        BY <1>6 DEF CloseAt
      <4>4. CASE i <= Len(served)
        <5>1. i \in DOMAIN served /\ Trail[i] = served[i]
          BY <4>1, <4>2, <4>3, <4>4
        <5> QED
          BY <2>2, <4>3, <5>1
      <4>5. CASE ~(i <= Len(served))
        <5>1. i - Len(served) \in DOMAIN Pending /\ Trail[i] = Pending[i - Len(served)]
          BY <4>1, <4>2, <4>3, <4>5
        <5> QED
          BY <2>2, <4>3, <5>1 DEF CloseJobs
      <4> QED
        BY <4>4, <4>5
    <3> QED
      BY <3>1
  <2>4. CloseAt' = {m + 1}
    <3>1. ASSUME NEW i \in CloseAt' PROVE i = m + 1
      <4>1. i \in 1..m \/ i = m + 1
        BY <1>2, <1>6
      <4> QED
        BY <1>6, <2>3, <4>1
    <3> QED
      BY <1>6, <1>8, <3>1
  <2>5. Seal = {}
    BY <2>3 DEF Seal
  <2>6. SubSeq(Trail', 1, m + 1) = Trail'
    BY <1>2, SubSeqFull
  <2>7. Seal' = {Len(EventsOf(Trail'))}
    BY <2>4, <2>6 DEF Seal
  <2> QED
    BY <1>1, <1>8, <2>5, <2>7, EventsOfAppend DEF IsEvent
<1> QED
  BY <1>3, <1>4, <1>7, <1>8

\* The other steps queue nothing.
LEMMA TrailStays ==
  ASSUME QueueTypeOK, [QueueNext]_qvars, \A c \in Callers : ~SendJob(c)
  PROVE  /\ Trail' = Trail
         /\ EventsOf(Trail)' = EventsOf(Trail) /\ Seal' = Seal
<1>1. Trail' = Trail
  <2>1. CASE UNCHANGED qvars
    BY <2>1 DEF qvars, history, Trail
  <2>2. ASSUME NEW c \in Callers, Call(c) PROVE Trail' = Trail
    BY <2>2, CallEffect DEF Trail
  <2>3. ASSUME NEW c \in Callers, Continue(c) \/ Expire(c) PROVE Trail' = Trail
    BY <2>3, ContinueEffect DEF Trail
  <2>4. CASE Work
    <3>1. CASE Receive
      BY <3>1, ReceiveKeeps
    <3>2. CASE FinishEvent \/ FinishFlush \/ FinishClose
      <4>1. cur # <<>> /\ Served /\ UNCHANGED jobs
        BY <3>2 DEF FinishEvent, FinishFlush, FinishClose
      <4> QED
        BY <4>1, FinishServes
    <3>3. CASE MarkClosed \/ CloseDone
      BY <3>3 DEF MarkClosed, CloseDone, history, Trail
    <3> QED
      BY <2>4, <3>1, <3>2, <3>3 DEF Work
  <2> QED
    BY <2>1, <2>2, <2>3, <2>4 DEF QueueNext
<1> QED
  BY <1>1 DEF Seal, CloseAt

\* The close job in the worker's hand is where the stream is sealed.
LEMMA CloseSeals ==
  ASSUME SealInv, worker = "running", cur # <<>>, Head(cur).kind = "close"
  PROVE  Seal = {Len(EventsOf(served))}
<1> USE DEF SealInv, QueueInv
<1> DEFINE m == Len(served)
<1>1. /\ served \in Seq(Job) /\ Pending \in Seq(Job) /\ Trail = served \o Pending
      /\ Trail \in Seq(Job)
      /\ DOMAIN served = 1..m /\ m \in Nat
      /\ DOMAIN Pending = 1..Len(Pending) /\ Len(Pending) \in Nat
      /\ DOMAIN Trail = 1..Len(Trail)
  BY TrailIsSeq, LenProperties DEF QueueTypeOK
<1>2. Pending # <<>> /\ Pending[1] = Head(cur) /\ Len(Pending) >= 1 /\ Head(cur) \in Job
  <2>1. cur = <<Head(cur)>> /\ Head(cur) \in Job /\ Len(cur) = 1 /\ cur[1] = Head(cur)
    BY AtMostOne DEF QueueTypeOK
  <2>2. Len(Pending) = 1 + Len(jobs) /\ Pending[1] = Head(cur) /\ Len(jobs) \in Nat
    <3>1. cur \in Seq(Job) /\ jobs \in Seq(Job) /\ Len(jobs) \in Nat
      BY LenProperties DEF QueueTypeOK
    <3>2. /\ Len(cur \o jobs) = Len(cur) + Len(jobs)
          /\ \A i \in 1..Len(cur) + Len(jobs) :
               (cur \o jobs)[i] = IF i <= Len(cur) THEN cur[i] ELSE jobs[i - Len(cur)]
      BY <3>1, ConcatProperties
    <3> QED
      BY <2>1, <3>1, <3>2 DEF Pending
  <2> QED
    BY <2>1, <2>2, <1>1, EmptySeq
<1>3. /\ Len(Trail) = m + Len(Pending)
      /\ \A k \in 1..m : Trail[k] = served[k]
      /\ \A k \in 1..Len(Pending) : Trail[m + k] = Pending[k]
  BY <1>1, ConcatProperties
<1>4. CloseAt = {m + 1}
  <2>1. 1 \in CloseJobs
    BY <1>1, <1>2 DEF CloseJobs
  <2>2. m + 1 \in CloseAt
    BY <1>1, <1>2, <1>3 DEF CloseAt
  <2>3. ASSUME NEW i \in CloseAt PROVE i = m + 1
    <3>1. i \in 1..m + Len(Pending) /\ Trail[i].kind = "close"
      BY <1>1, <1>3 DEF CloseAt
    <3>2. CASE i <= m
      <4>1. i \in DOMAIN served /\ Trail[i] = served[i]
        BY <1>1, <1>3, <3>1, <3>2
      <4> QED
        BY <3>1, <4>1
    <3>3. CASE ~(i <= m)
      <4>1. /\ i - m \in 1..Len(Pending) /\ m + (i - m) = i
            /\ i - m = 1 => i = m + 1
        BY <1>1, <3>1, <3>3
      <4>2. Trail[i] = Pending[i - m]
        BY <1>3, <4>1
      <4>3. i - m \in CloseJobs
        BY <1>1, <3>1, <4>1, <4>2 DEF CloseJobs
      <4>4. i - m = 1
        BY <2>1, <4>3 DEF ClosingInv, ClosingOwned
      <4> QED
        BY <4>1, <4>4
    <3> QED
      BY <3>2, <3>3
  <2> QED
    BY <2>2, <2>3
<1>5. SubSeq(Trail, 1, m + 1) = Append(served, Head(cur))
  <2>1. \A k \in 1..m + 1 : Trail[k] \in Job
    BY <1>1, <1>2, <1>3, ElementOfSeq
  <2>2. /\ SubSeq(Trail, 1, m + 1) \in Seq(Job)
        /\ Len(SubSeq(Trail, 1, m + 1)) = m + 1
        /\ \A k \in 1..m + 1 : SubSeq(Trail, 1, m + 1)[k] = Trail[k]
    <3> DEFINE n == m + 1
    <3>1. n \in Nat /\ n >= 1
      BY <1>1
    <3> HIDE DEF n
    <3>2. /\ SubSeq(Trail, 1, n) \in Seq(Job)
          /\ Len(SubSeq(Trail, 1, n)) = n
          /\ \A k \in 1..n : SubSeq(Trail, 1, n)[k] = Trail[k]
      BY <2>1, <3>1, SubSeqProperties DEF n
    <3> QED
      BY <3>2 DEF n
  <2> DEFINE a == Append(served, Head(cur))
  <2>3. /\ a \in Seq(Job) /\ Len(a) = m + 1
        /\ \A k \in 1..m : a[k] = served[k]
        /\ a[m + 1] = Head(cur)
    BY <1>1, <1>2, AppendProperties
  <2> HIDE DEF a
  <2>4. \A k \in 1..m + 1 : a[k] = Trail[k]
    <3>1. Trail[m + 1] = Head(cur)
      BY <1>1, <1>2, <1>3
    <3>2. \A k \in 1..m + 1 : k \in 1..m \/ k = m + 1
      BY <1>1
    <3> QED
      BY <1>3, <2>3, <3>1, <3>2
  <2> QED
    BY <2>2, <2>3, <2>4, SeqEqual DEF a
<1>6. EventsOf(SubSeq(Trail, 1, m + 1)) = EventsOf(served)
  BY <1>1, <1>2, <1>5, EventsOfAppend DEF IsEvent
<1> QED
  BY <1>4, <1>6 DEF Seal

\* The events served, and with the one in the worker's hand, are the first ones
\* accepted and not behind the seal.
LEMMA ServedPart ==
  ASSUME SealInv, worker = "running"
  PROVE  /\ EventsOf(served) \in Seq(Job) /\ Len(EventsOf(served)) \in Nat
         /\ EventsOf(served) = SubSeq(EventsOf(Trail), 1, Len(EventsOf(served)))
         /\ Len(EventsOf(served)) <= Len(EventsOf(Trail)) /\ Len(EventsOf(Trail)) \in Nat
         /\ \A k \in Seal : k \in Nat /\ Len(EventsOf(served)) <= k
<1>1. QueueTypeOK
  BY DEF SealInv, QueueInv
<1>2. /\ served \in Seq(Job) /\ Pending \in Seq(Job) /\ Trail = served \o Pending
      /\ DOMAIN served = 1..Len(served)
  BY <1>1, TrailIsSeq, LenProperties DEF QueueTypeOK
<1>3. \A i \in 1..Len(served) : served[i].kind # "close"
  BY <1>2 DEF SealInv
<1> QED
  BY <1>1, <1>2, <1>3, EventsOfPart

LEMMA EventPart ==
  ASSUME SealInv, FinishEvent
  PROVE  /\ served' \in Seq(Job) /\ Trail' = Trail /\ Head(cur) \in Job
         /\ EventsOf(served') = Append(EventsOf(served), Head(cur))
         /\ EventsOf(served') = SubSeq(EventsOf(Trail), 1, Len(EventsOf(served')))
         /\ Len(EventsOf(served')) = Len(EventsOf(served)) + 1
         /\ Len(EventsOf(served)) \in Nat
         /\ Len(EventsOf(served')) <= Len(EventsOf(Trail)) /\ Len(EventsOf(Trail)) \in Nat
         /\ \A k \in Seal : k \in Nat /\ Len(EventsOf(served')) <= k
<1>0. QueueTypeOK /\ [QueueNext]_qvars
  BY DEF SealInv, QueueInv, QueueNext, Work
<1>1. /\ worker = "running" /\ cur # <<>> /\ IsEvent(Head(cur)) /\ Served
      /\ UNCHANGED <<jobs, worker>> /\ served \in Seq(Job)
  BY <1>0 DEF FinishEvent, QueueTypeOK
<1>2. /\ Head(cur) \in Job /\ served' = Append(served, Head(cur)) /\ Trail' = Trail
  BY <1>0, <1>1, FinishServes
<1>3. EventsOf(served') = Append(EventsOf(served), Head(cur))
  BY <1>1, <1>2, EventsOfAppend
<1>4. QueueTypeOK' /\ SealInv' /\ worker' = "running"
  BY <1>0, <1>1, QueueTypeStep, SealStep
<1>5. /\ served' \in Seq(Job) /\ Pending' \in Seq(Job) /\ Trail = served' \o Pending'
  <2>1. served' \in Seq(Job) /\ cur' \in Seq(Job) /\ jobs' \in Seq(Job)
    BY <1>4 DEF QueueTypeOK
  <2>2. Pending' \in Seq(Job)
    BY <2>1, ConcatProperties DEF Pending
  <2>3. (served' \o cur') \o jobs' = served' \o (cur' \o jobs')
    BY <2>1, ConcatAssociative
  <2> QED
    BY <1>2, <2>1, <2>2, <2>3 DEF Trail, Pending
<1>6. \A i \in 1..Len(served') : served'[i].kind # "close"
  BY <1>4, <1>5, LenProperties DEF SealInv
<1>7. /\ EventsOf(served') = SubSeq(EventsOf(Trail), 1, Len(EventsOf(served')))
      /\ Len(EventsOf(served')) <= Len(EventsOf(Trail)) /\ Len(EventsOf(Trail)) \in Nat
      /\ \A k \in Seal : k \in Nat /\ Len(EventsOf(served')) <= k
  BY <1>0, <1>5, <1>6, EventsOfPart
<1>8. /\ Len(EventsOf(served')) = Len(EventsOf(served)) + 1
      /\ Len(EventsOf(served)) \in Nat
  BY <1>1, <1>2, <1>3, EventsOfSeq, AppendProperties, LenProperties
<1> QED
  BY <1>2, <1>3, <1>5, <1>7, <1>8

\* A step of the protocol is a step of OrderedDelivery or leaves it alone.
LEMMA QueueDelivers == SealInv /\ [QueueNext]_qvars => [Queue!Next]_(Queue!vars)
<1> SUFFICES ASSUME SealInv, [QueueNext]_qvars PROVE [Queue!Next]_(Queue!vars)
  OBVIOUS
<1>0. QueueTypeOK
  BY DEF SealInv, QueueInv
<1>1. ASSUME NEW c \in Callers, SendJob(c) PROVE [Queue!Next]_(Queue!vars)
  <2>1. UNCHANGED <<served, worker>>
    BY <1>1 DEF SendJob, history
  <2>2. EventsOf(served)' = EventsOf(served) /\ (worker # "running")' = (worker # "running")
    BY <2>1
  <2>3. CASE IsEvent(job[c])
    <3>1. /\ EventsOf(Trail)' = Append(EventsOf(Trail), job[c])
          /\ job[c] \in Events /\ job[c] \notin ToSet(EventsOf(Trail))
          /\ Seal' = Seal
      BY <1>1, <2>3, SendMaps DEF IsEvent
    <3>2. Queue!Accept
      BY <2>2, <3>1 DEF Queue!Accept, Queue!ToSet, ToSet
    <3> QED
      BY <3>2 DEF Queue!Next
  <2>4. CASE job[c].kind = "close"
    <3>1. /\ EventsOf(Trail)' = EventsOf(Trail)
          /\ Seal = {} /\ Seal' = {Len(EventsOf(Trail))}
      BY <1>1, <2>4, SendMaps DEF IsEvent
    <3>2. Queue!Seal
      BY <2>2, <3>1 DEF Queue!Seal
    <3> QED
      BY <3>2 DEF Queue!Next
  <2>5. CASE ~IsEvent(job[c]) /\ job[c].kind # "close"
    <3>1. EventsOf(Trail)' = EventsOf(Trail) /\ Seal' = Seal
      BY <1>1, <2>5, SendMaps
    <3> QED
      BY <2>2, <3>1 DEF Queue!vars
  <2> QED
    BY <2>3, <2>4, <2>5
<1>2. ASSUME \A c \in Callers : ~SendJob(c) PROVE [Queue!Next]_(Queue!vars)
  <2>0. EventsOf(Trail)' = EventsOf(Trail) /\ Seal' = Seal
    BY <1>0, <1>2, TrailStays
  <2>1. CASE FinishEvent
    <3>1. worker = "running" /\ UNCHANGED worker
      BY <2>1 DEF FinishEvent
    <3> DEFINE n == Len(EventsOf(served'))
    <3>2. /\ EventsOf(served') = SubSeq(EventsOf(Trail), 1, n)
          /\ n = Len(EventsOf(served)) + 1 /\ Len(EventsOf(served)) \in Nat
          /\ n <= Len(EventsOf(Trail)) /\ Len(EventsOf(Trail)) \in Nat
          /\ \A k \in Seal : k \in Nat /\ n <= k
      BY <2>1, EventPart
    <3> HIDE DEF n
    <3>3. Queue!Limit \in Nat /\ n <= Queue!Limit
      BY <3>2 DEF Queue!Limit
    <3>4. Queue!Deliver
      <4>1. n \in Len(EventsOf(served)) + 1 .. Queue!Limit
        BY <3>2, <3>3
      <4>2. EventsOf(served)' = SubSeq(EventsOf(Trail), 1, n)
        BY <3>2
      <4> QED
        BY <2>0, <3>1, <4>1, <4>2 DEF Queue!Deliver
    <3> QED
      BY <3>4 DEF Queue!Next
  <2>2. CASE FinishClose
    <3>1. /\ worker = "running" /\ cur # <<>> /\ Head(cur).kind = "close" /\ Served
          /\ UNCHANGED jobs /\ worker' = "unwinding" /\ served \in Seq(Job)
      BY <1>0, <2>2 DEF FinishClose, QueueTypeOK
    <3>2. /\ Head(cur) \in Job /\ served' = Append(served, Head(cur))
      BY <1>0, <3>1, FinishServes
    <3>3. EventsOf(served)' = EventsOf(served)
      BY <3>1, <3>2, EventsOfAppend DEF IsEvent
    <3>4. Seal = {Len(EventsOf(served))}
      BY <3>1, CloseSeals
    <3>5. Queue!Shut
      BY <2>0, <3>1, <3>3, <3>4 DEF Queue!Shut
    <3> QED
      BY <3>5 DEF Queue!Next
  <2>3. CASE ~FinishEvent /\ ~FinishClose
    <3>1. EventsOf(served)' = EventsOf(served)
      <4>1. CASE FinishFlush
        <5>1. /\ cur # <<>> /\ Head(cur).kind = "flush" /\ Served
              /\ UNCHANGED jobs /\ served \in Seq(Job)
          BY <1>0, <4>1 DEF FinishFlush, QueueTypeOK
        <5>2. Head(cur) \in Job /\ served' = Append(served, Head(cur))
          BY <1>0, <5>1, FinishServes
        <5> QED
          BY <5>1, <5>2, EventsOfAppend DEF IsEvent
      <4>2. CASE ~FinishFlush
        <5>1. UNCHANGED served
          <6>1. ASSUME NEW c \in Callers, Call(c) PROVE UNCHANGED served
            BY <1>0, <6>1, CallEffect
          <6>2. ASSUME NEW c \in Callers, Continue(c) \/ Expire(c) PROVE UNCHANGED served
            BY <1>0, <6>2, ContinueEffect
          <6>3. CASE Work
            BY <2>3, <4>2, <6>3 DEF Work, Receive, MarkClosed, CloseDone, history
          <6>4. CASE UNCHANGED qvars
            BY <6>4 DEF qvars, history
          <6> QED
            BY <6>1, <6>2, <6>3, <6>4 DEF QueueNext
        <5> QED
          BY <5>1
      <4> QED
        BY <4>1, <4>2
    <3>2. (worker # "running")' = (worker # "running")
      <4>1. ASSUME NEW c \in Callers, Call(c) PROVE UNCHANGED worker
        BY <1>0, <4>1, CallEffect
      <4>2. ASSUME NEW c \in Callers, Continue(c) \/ Expire(c) PROVE UNCHANGED worker
        BY <1>0, <4>2, ContinueEffect
      <4>3. CASE Work
        BY <2>3, <4>3 DEF Work, Receive, FinishFlush, MarkClosed, CloseDone
      <4>4. CASE UNCHANGED qvars
        BY <4>4 DEF qvars
      <4> QED
        BY <4>1, <4>2, <4>3, <4>4 DEF QueueNext
    <3> QED
      BY <2>0, <3>1, <3>2 DEF Queue!vars
  <2> QED
    BY <2>1, <2>2, <2>3
<1> QED
  BY <1>1, <1>2

LEMMA QueueDeliversInit == QueueInit => Queue!Init
<1> SUFFICES ASSUME QueueInit PROVE Queue!Init
  OBVIOUS
<1>1. Trail = <<>> /\ served = <<>> /\ worker = "running"
  BY EmptySeq, ConcatEmptySeq DEF QueueInit, Trail
<1>2. EventsOf(Trail) = <<>> /\ EventsOf(served) = <<>>
  BY <1>1, EventsOfEmpty
<1>3. Seal = {}
  BY <1>1 DEF Seal, CloseAt
<1> QED
  BY <1>1, <1>2, <1>3 DEF Queue!Init

\* No event is lost, repeated or overtaken on its way through the channel.
THEOREM ServesInOrderOfQueue == QueueSpec => ServesInOrder
<1>1. QueueInit => SealInv /\ Queue!Init
  BY SealInit, QueueDeliversInit
<1>2. SealInv /\ [QueueNext]_qvars => SealInv'
  BY SealStep
<1>3. SealInv /\ [QueueNext]_qvars => [Queue!Next]_(Queue!vars)
  BY QueueDelivers
<1> QED
  BY <1>1, <1>2, <1>3, PTL DEF QueueSpec, ServesInOrder, Queue!Spec

-----------------------------------------------------------------------------
(* The counters. *)

Sending       == {c \in Callers : pc[c] = "sent"}
Started(kind) == {i \in DOMAIN (served \o cur) : (served \o cur)[i].kind = kind}

\* StatsBalance with what its cardinalities need: nothing says that the callers
\* are finitely many, but those that have sent and not counted yet are.
StatsInv ==
  /\ IsFiniteSet(Sending) /\ enqueued + Cardinality(Sending) = Len(Trail)
  /\ flushes = Cardinality(Started("flush")) /\ closes = Cardinality(Started("close"))

LEMMA StatsInit == QueueInit => StatsInv
<1> SUFFICES ASSUME QueueInit PROVE StatsInv
  OBVIOUS
<1>1. served \o cur = <<>> /\ Trail = <<>> /\ Len(Trail) = 0
  BY EmptySeq, ConcatEmptySeq DEF QueueInit, Trail
<1>2. DOMAIN (served \o cur) = {}
  BY <1>1, EmptySeq, LenProperties
<1>3. Sending = {} /\ Started("flush") = {} /\ Started("close") = {}
  BY <1>2 DEF QueueInit, Sending, Started
<1>4. enqueued = 0 /\ flushes = 0 /\ closes = 0
  BY DEF QueueInit
<1>5. IsFiniteSet({}) /\ Cardinality({}) = 0
  BY FS_EmptySet
<1>6. enqueued + Cardinality(Sending) = Len(Trail)
  BY <1>1, <1>3, <1>4, <1>5
<1> QED
  BY <1>3, <1>4, <1>5, <1>6 DEF StatsInv

\* The jobs the worker has received, and their numbers by kind, after a step.
LEMMA ReceiveStarts ==
  ASSUME QueueTypeOK, Receive, NEW kind
  PROVE  /\ IsFiniteSet(Started(kind)) /\ Cardinality(Started(kind)) \in Nat
         /\ Cardinality(Started(kind)') =
              IF Head(jobs).kind = kind THEN Cardinality(Started(kind)) + 1
                                        ELSE Cardinality(Started(kind))
<1> DEFINE m == Len(served)
           h == Head(jobs)
           a == Append(served, h)
<1>1. /\ served \in Seq(Job) /\ h \in Job /\ cur = <<>> /\ cur' = <<h>> /\ served' = served
  BY HeadTailProperties DEF QueueTypeOK, Receive, history
<1>2. served \o cur = served /\ served' \o cur' = a
  BY <1>1, ConcatEmptySeq, AppendIsConcat
<1>3. /\ DOMAIN served = 1..m /\ m \in Nat /\ DOMAIN a = 1..m + 1
      /\ \A i \in 1..m : a[i] = served[i]
      /\ a[m + 1] = h
  BY <1>1, AppendProperties, LenProperties
<1> HIDE DEF m, a, h
<1>4. Started(kind) = {i \in 1..m : served[i].kind = kind}
  BY <1>2, <1>3 DEF Started
<1>5. Started(kind)' = {i \in 1..m + 1 : a[i].kind = kind}
  BY <1>2, <1>3 DEF Started
<1>6. IsFiniteSet(Started(kind)) /\ Cardinality(Started(kind)) \in Nat
  <2>1. IsFiniteSet(1..m)
    BY <1>3, FS_Interval
  <2> QED
    BY <1>4, <2>1, FS_Subset, FS_CardinalityType
<1>7. CASE h.kind = kind
  <2>1. m + 1 \notin Started(kind)
    BY <1>3, <1>4
  <2>2. Started(kind)' = Started(kind) \cup {m + 1}
    <3>1. \A i : i \in 1..m + 1 <=> i \in 1..m \/ i = m + 1
      BY <1>3
    <3> QED
      BY <1>3, <1>4, <1>5, <1>7, <3>1
  <2> QED
    BY <1>6, <1>7, <2>1, <2>2, FS_AddElement DEF h
<1>8. CASE h.kind # kind
  <2>1. Started(kind)' = Started(kind)
    <3>1. \A i : i \in 1..m + 1 <=> i \in 1..m \/ i = m + 1
      BY <1>3
    <3> QED
      BY <1>3, <1>4, <1>5, <1>8, <3>1
  <2> QED
    BY <1>6, <1>8, <2>1 DEF h
<1> QED
  BY <1>6, <1>7, <1>8

\* The worker finishes a job it had started.
LEMMA FinishKeepsStarted ==
  ASSUME QueueTypeOK, cur # <<>>, Served
  PROVE  served' \o cur' = served \o cur
<1>1. /\ cur = <<Head(cur)>> /\ Head(cur) \in Job /\ served \in Seq(Job)
      /\ served' = Append(served, Head(cur)) /\ cur' = <<>>
  BY AtMostOne DEF QueueTypeOK, Served
<1>2. served' \in Seq(Job) /\ served' = served \o cur
  BY <1>1, AppendProperties, AppendIsConcat
<1> QED
  BY <1>1, <1>2, ConcatEmptySeq

LEMMA StatsStep == QueueTypeOK /\ StatsInv /\ [QueueNext]_qvars => StatsInv'
<1> SUFFICES ASSUME QueueTypeOK, StatsInv, [QueueNext]_qvars PROVE StatsInv'
  OBVIOUS
<1> USE DEF StatsInv
<1>0. Len(Trail) \in Nat /\ Trail \in Seq(Job) /\ enqueued \in Nat
  BY TrailIsSeq DEF QueueTypeOK
<1>a. IsFiniteSet(Sending) /\ Cardinality(Sending) \in Nat
  BY FS_CardinalityType
<1>1. CASE UNCHANGED qvars
  <2>1. Sending' = Sending /\ Trail' = Trail /\ UNCHANGED <<enqueued, flushes, closes>>
    BY <1>1 DEF qvars, stats, history, Sending, Trail
  <2>2. Started("flush")' = Started("flush") /\ Started("close")' = Started("close")
    BY <1>1 DEF qvars, history, Started
  <2> QED
    BY <2>1, <2>2
<1>2. ASSUME NEW c \in Callers, Call(c) PROVE StatsInv'
  <2>1. /\ pc[c] = "idle" /\ pc'[c] # "sent"
        /\ \A d \in Callers \ {c} : pc'[d] = pc[d]
        /\ UNCHANGED <<jobs, cur, served>>
    BY <1>2, CallEffect DEF Call
  <2>2. UNCHANGED stats
    BY <1>2 DEF Call, Write, Sync, Close, Begin
  <2>3. Sending' = Sending
    BY <2>1 DEF Sending
  <2>4. /\ Started("flush")' = Started("flush") /\ Started("close")' = Started("close")
        /\ Trail' = Trail
    BY <2>1 DEF Started, Trail
  <2> QED
    BY <2>2, <2>3, <2>4 DEF stats
<1>3. ASSUME NEW c \in Callers, Continue(c) \/ Expire(c) PROVE StatsInv'
  <2>1. /\ \A d \in Callers \ {c} : pc'[d] = pc[d]
        /\ UNCHANGED <<cur, served>>
    BY <1>3, ContinueEffect
  <2>2. Started("flush")' = Started("flush") /\ Started("close")' = Started("close")
    BY <2>1 DEF Started
  <2>3. UNCHANGED <<flushes, closes>>
    BY <1>3 DEF Continue, EnqueueClose, SendJob, Acknowledge, Drop, GiveUp, ResetClosing,
         TakeResponse, AbandonResponse, StopWaiting, Join, WaitDone, Expire, stats
  <2>4. IsFiniteSet(Sending') /\ enqueued' + Cardinality(Sending') = Len(Trail')
    <3>1. CASE SendJob(c)
      <4>1. /\ pc[c] = "send" /\ pc'[c] = "sent" /\ enqueued' = enqueued
            /\ job[c] \in Job
        BY <3>1 DEF SendJob, QueueTypeOK, stats
      <4>2. c \notin Sending /\ Sending' = Sending \cup {c}
        BY <2>1, <4>1 DEF Sending
      <4>3. Trail' = Append(Trail, job[c])
        BY <3>1, SendAppends
      <4>4. Len(Trail') = Len(Trail) + 1
        BY <1>0, <4>1, <4>3, AppendProperties
      <4>5. IsFiniteSet(Sending') /\ Cardinality(Sending') = Cardinality(Sending) + 1
        BY <1>a, <4>2, FS_AddElement
      <4> QED
        BY <1>0, <1>a, <4>1, <4>4, <4>5
    <3>2. CASE Acknowledge(c)
      <4>1. /\ pc[c] = "sent" /\ pc'[c] # "sent" /\ enqueued' = enqueued + 1
            /\ UNCHANGED jobs
        BY <3>2 DEF Acknowledge, QueueTypeOK
      <4>2. c \in Sending /\ Sending' = Sending \ {c}
        BY <2>1, <4>1 DEF Sending
      <4>3. Trail' = Trail
        BY <2>1, <4>1 DEF Trail
      <4>4. IsFiniteSet(Sending') /\ Cardinality(Sending') = Cardinality(Sending) - 1
        BY <1>a, <4>2, FS_RemoveElement
      <4> QED
        BY <1>0, <1>a, <4>1, <4>3, <4>4
    <3>3. CASE ~SendJob(c) /\ ~Acknowledge(c)
      <4>1. UNCHANGED <<jobs, enqueued>> /\ (pc'[c] = "sent" <=> pc[c] = "sent")
        BY <1>3, <3>3 DEF Continue, EnqueueClose, Drop, GiveUp, ResetClosing,
           TakeResponse, AbandonResponse, StopWaiting, Join, WaitDone, Expire, stats,
           QueueTypeOK
      <4>2. Sending' = Sending
        BY <2>1, <4>1 DEF Sending
      <4>3. Trail' = Trail
        BY <2>1, <4>1 DEF Trail
      <4> QED
        BY <1>a, <4>1, <4>2, <4>3
    <3> QED
      BY <3>1, <3>2, <3>3
  <2> QED
    BY <2>2, <2>3, <2>4
<1>4. CASE Work
  <2>1. UNCHANGED <<pc, enqueued>>
    BY <1>4 DEF Work, Receive, FinishEvent, FinishFlush, FinishClose, MarkClosed,
         CloseDone, stats
  <2>2. Sending' = Sending
    BY <2>1 DEF Sending
  <2>3. CASE Receive
    <3>1. Trail' = Trail
      BY <2>3, ReceiveKeeps
    <3>2. /\ flushes' = IF Head(jobs).kind = "flush" THEN flushes + 1 ELSE flushes
          /\ closes' = IF Head(jobs).kind = "close" THEN closes + 1 ELSE closes
      BY <2>3 DEF Receive
    <3>3. flushes' = Cardinality(Started("flush")')
      BY <2>3, <3>2, ReceiveStarts
    <3>4. closes' = Cardinality(Started("close")')
      BY <2>3, <3>2, ReceiveStarts
    <3> QED
      BY <2>1, <2>2, <3>1, <3>3, <3>4
  <2>4. CASE FinishEvent \/ FinishFlush \/ FinishClose
    <3>1. cur # <<>> /\ Served /\ UNCHANGED jobs /\ UNCHANGED <<flushes, closes>>
      BY <2>4 DEF FinishEvent, FinishFlush, FinishClose, stats
    <3>2. Trail' = Trail /\ served' \o cur' = served \o cur
      BY <3>1, FinishServes, FinishKeepsStarted
    <3>3. Started("flush")' = Started("flush") /\ Started("close")' = Started("close")
      BY <3>2 DEF Started
    <3> QED
      BY <2>1, <2>2, <3>1, <3>2, <3>3
  <2>5. CASE MarkClosed \/ CloseDone
    <3>1. UNCHANGED <<jobs, cur, served, flushes, closes>>
      BY <2>5 DEF MarkClosed, CloseDone, stats, history
    <3>2. /\ Started("flush")' = Started("flush") /\ Started("close")' = Started("close")
          /\ Trail' = Trail
      BY <3>1 DEF Started, Trail
    <3> QED
      BY <2>1, <2>2, <3>1, <3>2
  <2> QED
    BY <1>4, <2>3, <2>4, <2>5 DEF Work
<1> QED
  BY <1>1, <1>2, <1>3, <1>4 DEF QueueNext

LEMMA StatsInvImplies == StatsInv => StatsBalance
BY DEF StatsInv, StatsBalance, Started, Sending

\* Stats accounts for every job, for any number of callers and calls.
THEOREM StatsBalanceCorrect == QueueSpec => []StatsBalance
<1>1. QueueInit => QueueTypeOK /\ StatsInv
  BY QueueTypeInit, StatsInit
<1>2. QueueTypeOK /\ StatsInv /\ [QueueNext]_qvars => (QueueTypeOK /\ StatsInv)'
  BY QueueTypeStep, StatsStep
<1> QED
  BY <1>1, <1>2, StatsInvImplies, PTL DEF QueueSpec

=============================================================================
