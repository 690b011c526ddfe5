------------------------------ MODULE FileSink ------------------------------
(***************************************************************************)
(* FileSink over its WriterSink: two mutexes, one in front of the flag     *)
(* closed, one around the write itself; and the file, which keeps what is  *)
(* written in the system's cache until it is synced, and loses that much   *)
(* when the machine goes down.                                             *)
(*                                                                         *)
(* An encoded line takes two system calls, so that it can be seen half     *)
(* written.  A line is identified by the call that wrote it.               *)
(***************************************************************************)
EXTENDS Naturals, Sequences, FiniteSets, SequencesExt

CONSTANTS
  Callers,
  MaxCalls,    \* bound of the model: calls a caller makes
  MaxCrashes   \* bound of the model

ASSUME FileAssumption == MaxCalls \in Nat /\ MaxCrashes \in Nat

VARIABLES
  pc, op, n,      \* a caller's place, operation and number of calls
  mu, writerMu,   \* holders of FileSink.mu and WriterSink.mu, as sets
  closed,         \* the sink's flag
  open,           \* external: the file descriptor is open
  content,        \* external: what readers of the file see
  durable,        \* external: how much of it would survive a crash
  crashes,
  acked,          \* history: lines whose Write has returned nil
  before,         \* history: what was acked when the caller's call began
  synced          \* history: lines that a Sync has promised to be on disk

vars == <<pc, op, n, mu, writerMu, closed, open, content, durable, crashes,
          acked, before, synced>>

Ops  == {"write", "sync", "close"}
Line == Callers \X (1..MaxCalls)
Id(c) == <<c, n[c]>>

TypeOK ==
  /\ pc \in [Callers -> {"idle", "check", "write", "tail", "flush", "shut"}]
  /\ op \in [Callers -> Ops] /\ n \in [Callers -> 0..MaxCalls]
  /\ mu \subseteq Callers /\ Cardinality(mu) <= 1
  /\ writerMu \subseteq Callers /\ Cardinality(writerMu) <= 1
  /\ closed \in BOOLEAN /\ open \in BOOLEAN
  /\ content \in Seq(Line \X {"head", "tail"})
  /\ durable \in 0..Len(content)
  /\ crashes \in 0..MaxCrashes
  /\ acked \subseteq Line /\ synced \subseteq Line
  /\ before \in [Callers -> SUBSET Line]

Init ==
  /\ pc = [c \in Callers |-> "idle"]
  /\ op = [c \in Callers |-> "write"] /\ n = [c \in Callers |-> 0]
  /\ mu = {} /\ writerMu = {}
  /\ closed = FALSE /\ open = TRUE
  /\ content = <<>> /\ durable = 0 /\ crashes = 0
  /\ acked = {} /\ before = [c \in Callers |-> {}] /\ synced = {}

Goto(c, place) == pc' = [pc EXCEPT ![c] = place]

Begin(c) ==
  /\ pc[c] = "idle" /\ n[c] < MaxCalls
  /\ \E o \in Ops : op' = [op EXCEPT ![c] = o]
  /\ n' = [n EXCEPT ![c] = @ + 1]
  /\ before' = [before EXCEPT ![c] = acked]
  /\ Goto(c, "check")
  /\ UNCHANGED <<mu, writerMu, closed, open, content, durable, crashes, acked, synced>>

\* Write reads the flag under the lock and lets go of it before it writes.
CheckClosed(c) ==
  /\ pc[c] = "check" /\ op[c] = "write" /\ mu = {}
  /\ Goto(c, IF closed THEN "idle" ELSE "write")
  /\ UNCHANGED <<op, n, mu, writerMu, closed, open, content, durable, crashes,
                 acked, before, synced>>

\* Mutant of WriteHead: the writer's lock is not taken.
WriteHeadUnlocked(c) ==
  /\ pc[c] = "write" /\ open
  /\ content' = Append(content, <<Id(c), "head">>)
  /\ Goto(c, "tail")
  /\ UNCHANGED <<op, n, mu, writerMu, closed, open, durable, crashes, acked, before,
                 synced>>

\* WriterSink.Write: the line is encoded, then written under the writer's lock.
\* The file refuses when it is closed, and may fail with nothing written.
WriteHead(c) ==
  /\ pc[c] = "write" /\ writerMu = {}
  /\ \/ /\ open
        /\ content' = Append(content, <<Id(c), "head">>)
        /\ writerMu' = {c}
        /\ Goto(c, "tail")
     \/ /\ Goto(c, "idle")
        /\ UNCHANGED <<content, writerMu>>
  /\ UNCHANGED <<op, n, mu, closed, open, durable, crashes, acked, before, synced>>

\* A write in progress is carried to its end though the file is closed meanwhile;
\* or the disk is full and the line stays torn.
WriteTail(c) ==
  /\ pc[c] = "tail"
  /\ \/ /\ content' = Append(content, <<Id(c), "tail">>)
        /\ acked' = acked \cup {Id(c)}
     \/ UNCHANGED <<content, acked>>
  /\ writerMu' = {}
  /\ Goto(c, "idle")
  /\ UNCHANGED <<op, n, mu, closed, open, durable, crashes, before, synced>>

\* Sync holds the lock throughout; a closed sink has nothing to sync.
Sync(c) ==
  /\ pc[c] = "check" /\ op[c] = "sync" /\ mu = {}
  /\ IF closed THEN Goto(c, "idle") /\ UNCHANGED mu
               ELSE Goto(c, "flush") /\ mu' = mu \cup {c}
  /\ UNCHANGED <<op, n, writerMu, closed, open, content, durable, crashes, acked,
                 before, synced>>

\* Mutant of SyncFile: the lock is kept when the file fails to sync.
SyncFileKeeps(c) ==
  /\ pc[c] = "flush"
  /\ \/ /\ durable' = Len(content)
        /\ synced' = synced \cup before[c]
        /\ mu' = mu \ {c}
     \/ UNCHANGED <<durable, synced, mu>>
  /\ Goto(c, "idle")
  /\ UNCHANGED <<op, n, writerMu, closed, open, content, crashes, acked, before>>

\* The delegate has nothing to sync; the file may fail to.
SyncFile(c) ==
  /\ pc[c] = "flush"
  /\ \/ /\ durable' = Len(content)
        /\ synced' = synced \cup before[c]
     \/ UNCHANGED <<durable, synced>>
  /\ mu' = mu \ {c}
  /\ Goto(c, "idle")
  /\ UNCHANGED <<op, n, writerMu, closed, open, content, crashes, acked, before>>

\* Close sets the flag first; a second Close is a nil no-op.
Close(c) ==
  /\ pc[c] = "check" /\ op[c] = "close" /\ mu = {}
  /\ IF closed THEN Goto(c, "idle") /\ UNCHANGED <<mu, closed>>
               ELSE Goto(c, "shut") /\ mu' = mu \cup {c} /\ closed' = TRUE
  /\ UNCHANGED <<op, n, writerMu, open, content, durable, crashes, acked, before,
                 synced>>

\* The file is closed, whatever error that returns, and not synced.
CloseFile(c) ==
  /\ pc[c] = "shut"
  /\ open' = FALSE
  /\ mu' = mu \ {c}
  /\ Goto(c, "idle")
  /\ UNCHANGED <<op, n, writerMu, closed, content, durable, crashes, acked, before,
                 synced>>

\* External: the system writes back its cache when it likes.
WriteBack ==
  /\ durable < Len(content)
  /\ durable' = durable + 1
  /\ UNCHANGED <<pc, op, n, mu, writerMu, closed, open, content, crashes, acked,
                 before, synced>>

\* Mutant of Reopened: the file is truncated.
ReopenedEmpty(file) == <<>>

\* NewFileSink opens the file for appending.
Reopened(file) == file

\* The machine goes down with every call in progress, and the program starts
\* again on the same file.
Crash ==
  /\ crashes < MaxCrashes
  /\ crashes' = crashes + 1
  /\ content' = Reopened(SubSeq(content, 1, durable))
  /\ durable' = Len(content')
  /\ pc' = [c \in Callers |-> "idle"]
  /\ mu' = {} /\ writerMu' = {}
  /\ closed' = FALSE /\ open' = TRUE
  /\ acked' = synced
  /\ UNCHANGED <<op, n, before, synced>>

Continue(c) == \/ CheckClosed(c) \/ WriteHead(c) \/ WriteTail(c) \/ Sync(c)
               \/ SyncFile(c) \/ Close(c) \/ CloseFile(c)

Next == (\E c \in Callers : Begin(c) \/ Continue(c)) \/ WriteBack \/ Crash

Spec == Init /\ [][Next]_vars

\* The goroutines run; a mutex is handed to one that waits for it, and no
\* machine need ever crash or the cache be written back.
FairSpec == Spec /\ \A c \in Callers : WF_vars(Continue(c))

-----------------------------------------------------------------------------
\* A line is in the file in one piece.
Whole(l) == \E i \in 1..Len(content) - 1 :
              content[i] = <<l, "head">> /\ content[i + 1] = <<l, "tail">>

\* An acknowledged line is in the file, unbroken by the lines of other writers,
\* though the file may have been closed while it was being written.
AckedWhole == \A l \in acked : Whole(l)

\* A Sync that finds the sink open and returns nil is a promise: what was
\* acknowledged when it began is in the file for good, through any crash and
\* restart.  (On a closed sink Sync returns nil and promises nothing.)
SyncedSurvive == \A l \in synced : Whole(l)

\* The two locks never make callers wait for each other for ever.
CallsReturn == \A c \in Callers : pc[c] # "idle" ~> pc[c] = "idle"

=============================================================================
