---------------------------- MODULE FileSinkProofs ----------------------------
(***************************************************************************)
(* Theorems about FileSink, for any number of callers, calls and crashes.  *)
(***************************************************************************)
EXTENDS FileSink, FiniteSetTheorems, SequenceTheorems, TLAPS

LEMMA Bounds == MaxCalls \in Nat /\ MaxCrashes \in Nat
BY FileAssumption

Part == Line \X {"head", "tail"}

\* A line is in one piece in the first k parts of s.
WholeIn(s, l, k) == \E i \in 1..k - 1 : s[i] = <<l, "head">> /\ s[i + 1] = <<l, "tail">>

\* Whoever is in a call has a number for it and holds the lock its place asks for;
\* behind a head that is still to get its tail stands nothing.
CallerInv(c) ==
  /\ pc[c] # "idle" => n[c] >= 1 /\ before[c] \subseteq acked
  /\ pc[c] \in {"flush", "shut"} => mu = {c}
  /\ pc[c] = "tail" => /\ writerMu = {c}
                       /\ content # <<>> /\ content[Len(content)] = <<Id(c), "head">>

\* What is acknowledged is whole, and what is synced is whole on the disk.
LinesInv ==
  /\ \A l \in acked : WholeIn(content, l, Len(content))
  /\ \A l \in synced : WholeIn(content, l, durable)

\* A lock has one holder at most.
Lock(m) == m = {} \/ \E c \in Callers : m = {c}

FileInv ==
  /\ TypeOK /\ LinesInv
  /\ Lock(mu) /\ Lock(writerMu)
  /\ \A c \in Callers : CallerInv(c)

LEMMA LockTyped ==
  ASSUME NEW m, Lock(m) PROVE m \subseteq Callers /\ Cardinality(m) <= 1
<1>1. CASE m = {}
  BY <1>1, FS_EmptySet
<1>2. ASSUME NEW c \in Callers, m = {c} PROVE m \subseteq Callers /\ Cardinality(m) <= 1
  <2>1. Cardinality({c}) = 1
    BY FS_Singleton
  <2> QED
    BY <1>2, <2>1
<1> QED
  BY <1>1, <1>2 DEF Lock

\* What is whole stays so when more of the file counts or is written.
LEMMA StaysWhole ==
  ASSUME NEW s \in Seq(Part), NEW t \in Seq(Part), NEW k \in 0..Len(s), NEW m \in 0..Len(t),
         k <= m, \A i \in 1..k : t[i] = s[i], NEW l, WholeIn(s, l, k)
  PROVE  WholeIn(t, l, m)
<1>1. PICK i \in 1..k - 1 : s[i] = <<l, "head">> /\ s[i + 1] = <<l, "tail">>
  BY DEF WholeIn
<1>2. i \in 1..k /\ i + 1 \in 1..k /\ i \in 1..m - 1
  OBVIOUS
<1> QED
  BY <1>1, <1>2 DEF WholeIn

LEMMA LinesStay ==
  ASSUME LinesInv, content \in Seq(Part), durable \in 0..Len(content),
         content' \in Seq(Part), Len(content') >= Len(content),
         \A i \in 1..Len(content) : content'[i] = content[i],
         durable' = durable, acked' = acked, synced' = synced
  PROVE  LinesInv'
<1>1. Len(content) \in Nat /\ Len(content') \in Nat
  BY LenProperties
<1>2. ASSUME NEW l \in acked PROVE WholeIn(content', l, Len(content'))
  BY <1>1, StaysWhole DEF LinesInv
<1>3. ASSUME NEW l \in synced PROVE WholeIn(content', l, durable)
  BY <1>1, StaysWhole DEF LinesInv
<1> QED
  BY <1>2, <1>3 DEF LinesInv

LEMMA FileInit == Init => FileInv
<1> SUFFICES ASSUME Init PROVE FileInv
  OBVIOUS
<1> USE DEF Init
<1>1. Lock(mu) /\ Lock(writerMu)
  BY DEF Lock
<1>2. TypeOK
  <2>1. mu \subseteq Callers /\ Cardinality(mu) <= 1 /\ writerMu = mu
    BY <1>1, LockTyped
  <2>2. content \in Seq(Line \X {"head", "tail"}) /\ Len(content) = 0 /\ durable = 0
    BY EmptySeq
  <2>3. 0 \in 0..MaxCalls /\ 0 \in 0..MaxCrashes
    BY Bounds
  <2>4. /\ pc \in [Callers -> {"idle", "check", "write", "tail", "flush", "shut"}]
        /\ op \in [Callers -> Ops] /\ n \in [Callers -> 0..MaxCalls]
        /\ before \in [Callers -> SUBSET Line]
    BY <2>3 DEF Ops
  <2>5. /\ closed \in BOOLEAN /\ open \in BOOLEAN /\ crashes \in 0..MaxCrashes
        /\ acked \subseteq Line /\ synced \subseteq Line
    BY <2>3
  <2>6. durable \in 0..Len(content)
    BY <2>2
  <2> QED
    BY <2>1, <2>2, <2>4, <2>5, <2>6 DEF TypeOK
<1>3. LinesInv /\ \A c \in Callers : CallerInv(c)
  BY DEF LinesInv, CallerInv
<1> QED
  BY <1>1, <1>2, <1>3 DEF FileInv

LEMMA IdIsLine ==
  ASSUME FileInv, NEW c \in Callers, pc[c] # "idle" PROVE Id(c) \in Line
BY Bounds DEF FileInv, CallerInv, TypeOK, Line, Id

-----------------------------------------------------------------------------
\* Steps that leave the file and what is known of it alone.
LEMMA QuietKeeps ==
  ASSUME FileInv, NEW c \in Callers,
         Begin(c) \/ CheckClosed(c) \/ Sync(c) \/ Close(c) \/ CloseFile(c)
  PROVE  FileInv'
<1> USE DEF FileInv, Goto
<1>1. UNCHANGED <<content, durable, acked, synced, writerMu, crashes>>
  BY DEF Begin, CheckClosed, Sync, Close, CloseFile
<1>2. LinesInv' /\ Lock(writerMu)'
  BY <1>1 DEF LinesInv, Lock
<1>3. mu' = mu \/ mu' = {} \/ (mu = {} /\ mu' = {c})
  BY DEF Begin, CheckClosed, Sync, Close, CloseFile, CallerInv
<1>4. Lock(mu)'
  BY <1>3 DEF Lock
<1>5. /\ pc' \in [Callers -> {"idle", "check", "write", "tail", "flush", "shut"}]
      /\ op' \in [Callers -> Ops] /\ n' \in [Callers -> 0..MaxCalls]
      /\ closed' \in BOOLEAN /\ open' \in BOOLEAN
      /\ before' \in [Callers -> SUBSET Line]
  <2>1. CASE Begin(c)
    BY <2>1, Bounds DEF TypeOK, Begin
  <2>2. CASE CheckClosed(c) \/ Sync(c) \/ Close(c) \/ CloseFile(c)
    BY <2>2 DEF TypeOK, CheckClosed, Sync, Close, CloseFile
  <2> QED
    BY <2>1, <2>2
<1>6. TypeOK'
  BY <1>1, <1>2, <1>4, <1>5, LockTyped DEF TypeOK
<1>7. ASSUME NEW d \in Callers PROVE CallerInv(d)'
  <2> USE DEF TypeOK
  <2>1. CASE d = c
    <3>1. CASE Begin(c)
      BY <1>1, <2>1, <3>1, Bounds DEF Begin, CallerInv, Ops
    <3>2. CASE CheckClosed(c) \/ Sync(c) \/ Close(c) \/ CloseFile(c)
      <4>1. n'[c] = n[c] /\ before'[c] = before[c] /\ pc[c] # "idle" /\ pc'[c] # "tail"
        BY <3>2 DEF CheckClosed, Sync, Close, CloseFile
      <4>2. pc'[c] \in {"flush", "shut"} => mu' = {c}
        BY <3>2 DEF CheckClosed, Sync, Close, CloseFile
      <4> QED
        BY <1>1, <2>1, <4>1, <4>2 DEF CallerInv
    <3> QED
      BY <3>1, <3>2
  <2>2. CASE d # c
    <3>1. pc'[d] = pc[d] /\ n'[d] = n[d] /\ before'[d] = before[d]
      BY <2>2 DEF Begin, CheckClosed, Sync, Close, CloseFile
    <3>2. pc[d] \in {"flush", "shut"} => mu' = mu
      BY <2>2 DEF Begin, CheckClosed, Sync, Close, CloseFile, CallerInv
    <3> QED
      BY <1>1, <3>1, <3>2 DEF CallerInv, Id
  <2> QED
    BY <2>1, <2>2
<1> QED
  BY <1>2, <1>4, <1>6, <1>7

\* A line begins, or is refused.
LEMMA WriteHeadKeeps ==
  ASSUME FileInv, NEW c \in Callers, WriteHead(c)
  PROVE  FileInv'
<1> USE DEF FileInv, Goto
<1>1. UNCHANGED <<op, n, mu, closed, open, durable, crashes, acked, before, synced>>
      /\ pc[c] = "write" /\ writerMu = {}
  BY DEF WriteHead
<1>2. \/ content' = content /\ writerMu' = writerMu /\ pc' = [pc EXCEPT ![c] = "idle"]
      \/ /\ content' = Append(content, <<Id(c), "head">>)
         /\ writerMu' = {c} /\ pc' = [pc EXCEPT ![c] = "tail"]
  BY DEF WriteHead
<1>3. <<Id(c), "head">> \in Part /\ content \in Seq(Part)
  BY <1>1, IdIsLine DEF Part, TypeOK
<1>4. /\ content' \in Seq(Part) /\ Len(content') >= Len(content)
      /\ \A i \in 1..Len(content) : content'[i] = content[i]
  BY <1>2, <1>3, AppendProperties
<1>5. Lock(mu)' /\ Lock(writerMu)'
  BY <1>1, <1>2 DEF Lock
<1>6. TypeOK'
  <2>1. pc' \in [Callers -> {"idle", "check", "write", "tail", "flush", "shut"}]
    BY <1>2 DEF TypeOK
  <2>2. durable' \in 0..Len(content')
    BY <1>1, <1>3, <1>4, LenProperties DEF TypeOK
  <2>3. mu' \subseteq Callers /\ Cardinality(mu') <= 1
        /\ writerMu' \subseteq Callers /\ Cardinality(writerMu') <= 1
    BY <1>5, LockTyped
  <2> QED
    BY <1>1, <1>4, <2>1, <2>2, <2>3 DEF TypeOK, Part
<1>7. LinesInv'
  BY <1>1, <1>3, <1>4, LinesStay DEF TypeOK
<1>8. ASSUME NEW d \in Callers PROVE CallerInv(d)'
  <2>1. pc[d] # "tail"
    BY <1>1 DEF CallerInv
  <2>2. d # c => pc'[d] = pc[d]
    BY <1>2 DEF TypeOK
  <2>3. CASE pc'[d] # "tail"
    BY <1>1, <1>2, <2>2, <2>3 DEF CallerInv, TypeOK
  <2>4. CASE pc'[d] = "tail"
    <3>1. d = c /\ content' = Append(content, <<Id(c), "head">>) /\ writerMu' = {c}
      BY <1>2, <2>1, <2>2, <2>4 DEF TypeOK
    <3>2. content' # <<>> /\ content'[Len(content')] = <<Id(c), "head">>
      BY <1>3, <3>1, AppendProperties
    <3> QED
      BY <1>1, <2>4, <3>1, <3>2 DEF CallerInv, Id
  <2> QED
    BY <2>3, <2>4
<1> QED
  BY <1>5, <1>6, <1>7, <1>8

\* A line ends, or stays torn.
LEMMA WriteTailKeeps ==
  ASSUME FileInv, NEW c \in Callers, WriteTail(c)
  PROVE  FileInv'
<1> USE DEF FileInv, Goto
<1>1. /\ UNCHANGED <<op, n, mu, closed, open, durable, crashes, before, synced>>
      /\ pc[c] = "tail" /\ writerMu' = {} /\ pc' = [pc EXCEPT ![c] = "idle"]
  BY DEF WriteTail
<1>2. \/ content' = content /\ acked' = acked
      \/ /\ content' = Append(content, <<Id(c), "tail">>)
         /\ acked' = acked \cup {Id(c)}
  BY DEF WriteTail
<1>3. /\ <<Id(c), "tail">> \in Part /\ content \in Seq(Part) /\ Id(c) \in Line
      /\ writerMu = {c} /\ content # <<>> /\ content[Len(content)] = <<Id(c), "head">>
  BY <1>1, IdIsLine DEF Part, TypeOK, CallerInv
<1>4. /\ content' \in Seq(Part) /\ Len(content') >= Len(content)
      /\ \A i \in 1..Len(content) : content'[i] = content[i]
  <2>1. CASE content' = content
    BY <1>3, <2>1
  <2>2. CASE content' = Append(content, <<Id(c), "tail">>)
    BY <1>3, <2>2, AppendProperties
  <2> QED
    BY <1>2, <2>1, <2>2
<1>5. Lock(mu)' /\ Lock(writerMu)'
  BY <1>1 DEF Lock
<1>6. TypeOK'
  <2>1. pc' \in [Callers -> {"idle", "check", "write", "tail", "flush", "shut"}]
    BY <1>1 DEF TypeOK
  <2>2. durable' \in 0..Len(content')
    BY <1>1, <1>3, <1>4, LenProperties DEF TypeOK
  <2>3. mu' \subseteq Callers /\ Cardinality(mu') <= 1
        /\ writerMu' \subseteq Callers /\ Cardinality(writerMu') <= 1
    BY <1>5, LockTyped
  <2>4. acked' \subseteq Line
    BY <1>2, <1>3 DEF TypeOK
  <2> QED
    BY <1>1, <1>4, <2>1, <2>2, <2>3, <2>4 DEF TypeOK, Part
<1>7. LinesInv'
  <2>1. ASSUME NEW l, WholeIn(content, l, Len(content))
        PROVE  WholeIn(content', l, Len(content'))
    BY <1>3, <1>4, <2>1, StaysWhole
  <2>2. ASSUME NEW l \in synced PROVE WholeIn(content', l, durable)
    <3>1. /\ durable \in 0..Len(content) /\ durable \in 0..Len(content')
          /\ \A i \in 1..durable : content'[i] = content[i]
      BY <1>3, <1>4, LenProperties DEF TypeOK
    <3>2. WholeIn(content, l, durable)
      BY <2>2 DEF LinesInv
    <3> QED
      BY <1>3, <1>4, <3>1, <3>2, StaysWhole
  <2>3. content' # content => WholeIn(content', Id(c), Len(content'))
    <3>1. SUFFICES ASSUME content' = Append(content, <<Id(c), "tail">>)
                   PROVE  WholeIn(content', Id(c), Len(content'))
      BY <1>2
    <3>2. /\ Len(content) \in 1..Len(content') - 1
          /\ content'[Len(content)] = <<Id(c), "head">>
          /\ content'[Len(content) + 1] = <<Id(c), "tail">>
      BY <1>3, <1>4, <3>1, AppendProperties, EmptySeq
    <3> QED
      BY <3>2 DEF WholeIn
  <2>4. acked' \subseteq acked \cup (IF content' # content THEN {Id(c)} ELSE {})
    <3>1. content # Append(content, <<Id(c), "tail">>)
      BY <1>3, AppendProperties
    <3> QED
      BY <1>2, <3>1
  <2> QED
    BY <1>1, <2>1, <2>2, <2>3, <2>4 DEF LinesInv
<1>8. ASSUME NEW d \in Callers PROVE CallerInv(d)'
  <2>1. pc'[d] # "tail" /\ (pc'[d] # "idle" => pc'[d] = pc[d])
    BY <1>1, <1>3 DEF CallerInv, TypeOK
  <2>2. acked \subseteq acked'
    BY <1>2
  <2> QED
    BY <1>1, <2>1, <2>2 DEF CallerInv
<1> QED
  BY <1>5, <1>6, <1>7, <1>8

-----------------------------------------------------------------------------
\* More of the file gets on the disk.
LEMMA SyncFilePreserves ==
  ASSUME FileInv, NEW c \in Callers, SyncFile(c)
  PROVE  FileInv'
<1> USE DEF FileInv, Goto
<1>1. /\ UNCHANGED <<op, n, writerMu, closed, open, content, crashes, acked, before>>
      /\ pc[c] = "flush" /\ pc' = [pc EXCEPT ![c] = "idle"] /\ mu' = mu \ {c}
      /\ mu = {c} /\ before[c] \subseteq acked /\ content \in Seq(Part)
  BY DEF SyncFile, CallerInv, TypeOK, Part
<1>2. \/ durable' = durable /\ synced' = synced
      \/ durable' = Len(content) /\ synced' = synced \cup before[c]
  BY DEF SyncFile
<1>3. Lock(mu)' /\ Lock(writerMu)'
  BY <1>1 DEF Lock
<1>4. TypeOK'
  <2>1. durable' \in 0..Len(content)
    BY <1>1, <1>2, LenProperties DEF TypeOK
  <2> QED
    BY <1>1, <1>2, <1>3, <2>1, LockTyped DEF TypeOK
<1>5. LinesInv'
  <2>1. durable \in 0..Len(content) /\ durable' \in 0..Len(content) /\ durable <= durable'
    BY <1>1, <1>2, LenProperties DEF TypeOK
  <2>2. ASSUME NEW l \in synced PROVE WholeIn(content, l, durable')
    BY <1>1, <2>1, StaysWhole DEF LinesInv
  <2>3. durable' = Len(content) => \A l \in before[c] : WholeIn(content, l, durable')
    BY <1>1 DEF LinesInv
  <2> QED
    BY <1>1, <1>2, <2>2, <2>3 DEF LinesInv
<1>6. ASSUME NEW d \in Callers PROVE CallerInv(d)'
  <2>1. pc'[d] # "idle" => pc'[d] = pc[d] /\ d # c
    BY <1>1 DEF TypeOK
  <2> QED
    BY <1>1, <2>1 DEF CallerInv, Id
<1> QED
  BY <1>3, <1>4, <1>5, <1>6

LEMMA WriteBackKeeps ==
  ASSUME FileInv, WriteBack
  PROVE  FileInv'
<1> USE DEF FileInv
<1>1. /\ durable' = durable + 1 /\ durable < Len(content)
      /\ UNCHANGED <<pc, op, n, mu, writerMu, closed, open, content, crashes, acked,
                     before, synced>>
  BY DEF WriteBack
<1>2. content \in Seq(Part) /\ durable \in 0..Len(content) /\ durable' \in 0..Len(content)
  BY <1>1, LenProperties DEF TypeOK, Part
<1>3. TypeOK' /\ Lock(mu)' /\ Lock(writerMu)' /\ \A d \in Callers : CallerInv(d)'
  BY <1>1, <1>2 DEF TypeOK, Lock, CallerInv, Id
<1>4. LinesInv'
  BY <1>1, <1>2, StaysWhole DEF LinesInv
<1> QED
  BY <1>3, <1>4

\* The machine goes down: what is on the disk is what there is.
LEMMA CrashKeeps ==
  ASSUME FileInv, Crash
  PROVE  FileInv'
<1> USE DEF FileInv
<1>1. /\ UNCHANGED <<op, n, before, synced>> /\ acked' = synced
      /\ pc' = [c \in Callers |-> "idle"] /\ mu' = {} /\ writerMu' = {}
      /\ closed' = FALSE /\ open' = TRUE /\ crashes' \in 0..MaxCrashes
      /\ content' = SubSeq(content, 1, durable) /\ durable' = Len(content')
  BY Bounds DEF Crash, Reopened, TypeOK
<1>2. content \in Seq(Part) /\ durable \in 0..Len(content)
  BY DEF TypeOK, Part
<1>3. /\ content' \in Seq(Part) /\ Len(content') = durable
      /\ \A i \in 1..durable : content'[i] = content[i]
  BY <1>1, <1>2, SubSeqProperties
<1>4. Lock(mu)' /\ Lock(writerMu)'
  BY <1>1 DEF Lock
<1>5. TypeOK'
  <2>1. mu' \subseteq Callers /\ Cardinality(mu') <= 1
        /\ writerMu' \subseteq Callers /\ Cardinality(writerMu') <= 1
    BY <1>4, LockTyped
  <2>2. durable' \in 0..Len(content')
    BY <1>1, <1>2, <1>3
  <2> QED
    BY <1>1, <1>3, <2>1, <2>2 DEF TypeOK, Part
<1>6. LinesInv'
  <2>1. ASSUME NEW l \in synced PROVE WholeIn(content', l, durable)
    <3>1. WholeIn(content, l, durable)
      BY <2>1 DEF LinesInv
    <3> QED
      BY <1>2, <1>3, <3>1, StaysWhole
  <2> QED
    BY <1>1, <1>3, <2>1 DEF LinesInv
<1>7. \A d \in Callers : CallerInv(d)'
  BY <1>1 DEF CallerInv
<1> QED
  BY <1>4, <1>5, <1>6, <1>7

LEMMA FileStep == FileInv /\ [Next]_vars => FileInv'
<1> SUFFICES ASSUME FileInv, [Next]_vars PROVE FileInv'
  OBVIOUS
<1>1. ASSUME NEW c \in Callers, Begin(c) \/ Continue(c) PROVE FileInv'
  BY <1>1, QuietKeeps, WriteHeadKeeps, WriteTailKeeps, SyncFilePreserves DEF Continue
<1>2. CASE UNCHANGED vars
  BY <1>2 DEF vars, FileInv, TypeOK, LinesInv, Lock, CallerInv, Id
<1> QED
  BY <1>1, <1>2, WriteBackKeeps, CrashKeeps DEF Next

LEMMA FileInvariant == Spec => []FileInv
BY FileInit, FileStep, PTL DEF Spec

-----------------------------------------------------------------------------
\* The variables of the file sink stay in their types; each of its mutexes has at
\* most one holder.
THEOREM FileTypeCorrect == Spec => []TypeOK
<1>1. FileInv => TypeOK
  BY DEF FileInv
<1> QED
  BY <1>1, FileInvariant, PTL

\* A line whose Write has returned nil stands in the file in one piece.
THEOREM AckedWholeCorrect == Spec => []AckedWhole
<1>1. FileInv => AckedWhole
  BY DEF FileInv, LinesInv, WholeIn, AckedWhole, Whole
<1> QED
  BY <1>1, FileInvariant, PTL

\* What a Sync has promised outlives every crash.
THEOREM SyncedSurviveCorrect == Spec => []SyncedSurvive
<1>1. FileInv => SyncedSurvive
  <2> SUFFICES ASSUME FileInv, NEW l \in synced PROVE Whole(l)
    BY DEF SyncedSurvive
  <2>1. content \in Seq(Part) /\ durable \in 0..Len(content) /\ WholeIn(content, l, durable)
    BY DEF FileInv, TypeOK, LinesInv, Part
  <2>2. WholeIn(content, l, Len(content))
    BY <2>1, StaysWhole, LenProperties
  <2> QED
    BY <2>2 DEF WholeIn, Whole
<1> QED
  BY <1>1, FileInvariant, PTL
===============================================================================
