------------------------- MODULE EventFieldsProofs -------------------------
(***************************************************************************)
(* Theorems about EventFields, for any fields, processors, children,       *)
(* numbers of goroutines and loggers, and any room append may leave: what  *)
(* memory is shared (FieldsInv), what the redaction leaves of a value      *)
(* (RedactsByPath), what is in the memory (StoryInv), and that nothing of  *)
(* a sensitive value is written (MaskedInv).                               *)
(***************************************************************************)
EXTENDS EventFields, SequenceTheorems, FiniteSetTheorems, WellFoundedInduction, TLAPS

IsSeq(s) == \E S : s \in Seq(S)

LEMMA AppendIsSeq ==
  ASSUME NEW s, IsSeq(s), NEW x
  PROVE  /\ IsSeq(Append(s, x)) /\ Len(Append(s, x)) = Len(s) + 1 /\ Len(s) \in Nat
         /\ DOMAIN Append(s, x) = 1..Len(s) + 1 /\ DOMAIN s = 1..Len(s)
         /\ Append(s, x)[Len(s) + 1] = x
         /\ \A i \in DOMAIN s : Append(s, x)[i] = s[i]
<1>1. PICK S : s \in Seq(S)
  BY DEF IsSeq
<1>2. s \in Seq(S \cup {x})
  BY <1>1
<1>3. Append(s, x) \in Seq(S \cup {x})
  BY <1>2
<1> QED
  BY <1>2, <1>3 DEF IsSeq

LEMMA ExceptIsSeq ==
  ASSUME NEW s, IsSeq(s), NEW k \in DOMAIN s, NEW x
  PROVE  /\ IsSeq([s EXCEPT ![k] = x]) /\ Len([s EXCEPT ![k] = x]) = Len(s)
         /\ \A i \in DOMAIN s : i # k => [s EXCEPT ![k] = x][i] = s[i]
<1>1. PICK S : s \in Seq(S)
  BY DEF IsSeq
<1>2. s \in Seq(S \cup {x})
  BY <1>1
<1>3. [s EXCEPT ![k] = x] \in Seq(S \cup {x}) /\ Len([s EXCEPT ![k] = x]) = Len(s)
  BY <1>2
<1> QED
  BY <1>1, <1>3 DEF IsSeq

IsSlice(s) == s = [arr |-> s.arr, len |-> s.len]

\* A slice on an array that there is.
Sliced(s, h) == s = Nil \/ s.arr \in DOMAIN h

\* What append may do: nothing but to write into the slice's own array or to make
\* a new one.
LEMMA GoAppendFrame ==
  ASSUME NEW h, IsSeq(h), NEW s, IsSlice(s), Sliced(s, h),
         NEW cells, NEW spare
  PROVE  LET r == GoAppend(h, s, cells, spare) IN
         /\ IsSeq(r.heap) /\ Len(r.heap) >= Len(h) /\ Len(r.heap) \in Nat
         /\ \A a \in DOMAIN h : a # s.arr => r.heap[a] = h[a]
         /\ IsSlice(r.slice)
         /\ Sliced(r.slice, r.heap)
         /\ r.slice.arr \in {s.arr, Len(h) + 1}
<1> USE DEF IsSlice
<1> DEFINE r == GoAppend(h, s, cells, spare)
<1>0. Len(h) \in Nat /\ DOMAIN h = 1..Len(h)
  BY AppendIsSeq
<1>1. CASE cells = <<>>
  <2>1. r = [heap |-> h, slice |-> s]
    BY <1>1 DEF GoAppend
  <2> QED
    BY <1>0, <2>1
<1>2. CASE cells # <<>> /\ Fits(h, s, cells)
  <2>1. s.arr \in DOMAIN h
    BY <1>2 DEF Fits, Sliced, Nil
  <2>2. PICK cs : r = [heap |-> [h EXCEPT ![s.arr] = cs], slice |-> [s EXCEPT !.len = @ + Len(cells)]]
    BY <1>2 DEF GoAppend
  <2>3. r.slice = [arr |-> s.arr, len |-> s.len + Len(cells)]
    BY <2>2
  <2>4. DOMAIN r.heap = DOMAIN h /\ r.heap = [h EXCEPT ![s.arr] = cs]
    BY <2>2
  <2>5. /\ IsSeq(r.heap) /\ Len(r.heap) = Len(h)
        /\ \A a \in DOMAIN h : a # s.arr => r.heap[a] = h[a]
    BY <2>1, <2>4, ExceptIsSeq
  <2>6. r.slice = [arr |-> r.slice.arr, len |-> r.slice.len] /\ r.slice.arr = s.arr
    BY <2>3
  <2>7. Sliced(r.slice, r.heap)
    BY <2>1, <2>4, <2>6 DEF Sliced
  <2> QED
    BY <1>0, <2>5, <2>6, <2>7
<1>3. CASE cells # <<>> /\ ~Fits(h, s, cells)
  <2>1. PICK cs : r = [heap |-> Append(h, cs), slice |-> [arr |-> Len(h) + 1, len |-> s.len + Len(cells)]]
    BY <1>3 DEF GoAppend
  <2> QED
    BY <1>0, <2>1, AppendIsSeq DEF Sliced
<1> QED
  BY <1>1, <1>2, <1>3

\* A clone leaves every array as it is.
LEMMA CloneFrame ==
  ASSUME NEW h, IsSeq(h), NEW s, IsSlice(s), Sliced(s, h)
  PROVE  LET r == cloneFields(h, s) IN
         /\ IsSeq(r.heap) /\ Len(r.heap) >= Len(h) /\ Len(r.heap) \in Nat
         /\ \A a \in DOMAIN h : r.heap[a] = h[a]
         /\ IsSlice(r.slice)
         /\ Sliced(r.slice, r.heap)
         /\ r.slice.arr \in {0, Len(h) + 1}
<1> USE DEF IsSlice
<1> DEFINE r == cloneFields(h, s)
<1>0. Len(h) \in Nat /\ DOMAIN h = 1..Len(h)
  BY AppendIsSeq
<1>1. CASE s.len = 0
  <2>1. r = [heap |-> h, slice |-> Nil]
    BY <1>1 DEF cloneFields
  <2> QED
    BY <1>0, <2>1 DEF Sliced, Nil
<1>2. CASE s.len # 0
  <2>1. PICK cs, n : r = [heap |-> Append(h, cs), slice |-> [arr |-> Len(h) + 1, len |-> n]]
    BY <1>2 DEF cloneFields, Alloc
  <2> QED
    BY <1>0, <2>1, AppendIsSeq DEF Sliced
<1> QED
  BY <1>1, <1>2

-----------------------------------------------------------------------------
(* The inductive invariant: the array a call works on is neither one of the  *)
(* callers' own nor one that a logger's fields are in.                       *)

CallOf(U) == [stage : U, event : U, base : U, fields : U, ids : U, name : U, err : U, again : U]

IsCall(r) == \E U : r \in CallOf(U)

IsLogger(r) == r = [fields |-> r.fields, name |-> r.name, ctx |-> r.ctx, was |-> r.was]

HeapInv == IsSeq(heap) /\ Len(heap) >= Len(Args) /\ \A a \in DOMAIN Args : heap[a] = Args[a]

LoggersInv ==
  /\ IsSeq(loggers)
  /\ \A l \in DOMAIN loggers : /\ IsLogger(loggers[l]) /\ IsSlice(loggers[l].fields)
                                /\ Sliced(loggers[l].fields, heap)

\* Not an array of somebody else's that is to stay as it is.
Own(a) == a = 0 \/ (a \notin DOMAIN Args /\ \A l \in DOMAIN loggers : loggers[l].fields.arr # a)

CallsInv ==
  /\ \E S : call \in [Goroutines -> S]
  /\ \A g \in Goroutines :
       /\ IsCall(call[g])
       /\ IsSlice(call[g].base) /\ Sliced(call[g].base, heap) /\ Own(call[g].base.arr)
       /\ IsSlice(call[g].fields) /\ Sliced(call[g].fields, heap) /\ Own(call[g].fields.arr)

FieldsInv == HeapInv /\ LoggersInv /\ CallsInv

LEMMA ArgsAre == /\ IsSeq(Args) /\ Len(Args) \in Nat /\ DOMAIN Args = 1..Len(Args)
BY FieldsAssumption, AppendIsSeq DEF IsSeq, IsList

LEMMA FieldsInit == Init => FieldsInv
<1> SUFFICES ASSUME Init PROVE FieldsInv
  OBVIOUS
<1>1. HeapInv
  BY ArgsAre DEF Init, HeapInv
<1>2. loggers = <<Root>> /\ IsLogger(Root) /\ IsSlice(Root.fields) /\ Root.fields = Nil
  BY DEF Init, Root, IsLogger, IsSlice, Nil
<1>3. IsSeq(loggers) /\ DOMAIN loggers = {1} /\ loggers[1] = Root
  <2>1. <<Root>> \in Seq({Root}) /\ DOMAIN <<Root>> = {1} /\ <<Root>>[1] = Root
    OBVIOUS
  <2> QED
    BY <1>2, <2>1 DEF IsSeq
<1>4. LoggersInv
  BY <1>2, <1>3 DEF LoggersInv, Sliced
<1>5. call = [g \in Goroutines |-> Idle]
  BY DEF Init
<1>6. IsCall(Idle) /\ Idle.base = Nil /\ Idle.fields = Nil
  <2>1. Idle \in CallOf({0, Nil, {}, <<>>, NoError, FALSE})
    BY DEF Idle, CallOf
  <2> QED
    BY <2>1 DEF IsCall, Idle
<1>7. IsSlice(Nil) /\ Own(Nil.arr)
  BY DEF IsSlice, Nil, Own
<1>8. call \in [Goroutines -> {Idle}]
  BY <1>5
<1>9. CallsInv
  BY <1>5, <1>6, <1>7, <1>8 DEF CallsInv, Sliced
<1> QED
  BY <1>1, <1>4, <1>9 DEF FieldsInv

-----------------------------------------------------------------------------
(* Steps on the heap. *)

\* The heap may get new arrays and another content of array a.
Grows(a) ==
  /\ IsSeq(heap') /\ Len(heap') >= Len(heap)
  /\ \A b \in DOMAIN heap : b # a => heap'[b] = heap[b]

LoggersKept ==
  \A l \in DOMAIN loggers :
    /\ loggers'[l] = loggers[l]
    /\ Content(heap, loggers[l].fields)' = Content(heap, loggers[l].fields)

LEMMA HeapStep ==
  ASSUME FieldsInv, NEW a, Own(a), Grows(a)
  PROVE  /\ HeapInv'
         /\ DOMAIN heap \subseteq DOMAIN heap' /\ DOMAIN heap = 1..Len(heap) /\ Len(heap) \in Nat
         /\ \A s : Sliced(s, heap) => Sliced(s, heap')
         /\ \A l \in DOMAIN loggers : Content(heap', loggers[l].fields) = Content(heap, loggers[l].fields)
<1> USE DEF FieldsInv
<1>1. /\ DOMAIN heap = 1..Len(heap) /\ Len(heap) \in Nat
      /\ DOMAIN heap' = 1..Len(heap') /\ Len(heap') \in Nat
  BY AppendIsSeq DEF HeapInv, Grows
<1>2. DOMAIN heap \subseteq DOMAIN heap' /\ DOMAIN Args \subseteq DOMAIN heap
  BY <1>1, ArgsAre DEF Grows, HeapInv
<1>3. HeapInv'
  <2>1. ASSUME NEW b \in DOMAIN Args PROVE heap'[b] = Args[b]
    BY <1>1, <1>2 DEF HeapInv, Grows, Own
  <2> QED
    BY <1>1, <2>1, ArgsAre DEF HeapInv, Grows
<1>4. ASSUME NEW l \in DOMAIN loggers
      PROVE  Content(heap', loggers[l].fields) = Content(heap, loggers[l].fields)
  <2>1. CASE loggers[l].fields = Nil
    BY <2>1 DEF Content, Nil
  <2>2. CASE loggers[l].fields.arr \in DOMAIN heap
    <3>1. loggers[l].fields.arr # a
      BY <1>1, <2>2 DEF Own
    <3> QED
      BY <2>2, <3>1 DEF Content, Grows
  <2> QED
    BY <2>1, <2>2 DEF LoggersInv, Sliced
<1> QED
  BY <1>1, <1>2, <1>3, <1>4 DEF Sliced

\* A step of one call: the others' slices and the loggers are where they were.
LEMMA CallStep ==
  ASSUME FieldsInv, NEW a, Own(a), Grows(a), UNCHANGED loggers,
         NEW g \in Goroutines, NEW r, call' = [call EXCEPT ![g] = r], IsCall(r),
         IsSlice(r.base), Sliced(r.base, heap'), Own(r.base.arr),
         IsSlice(r.fields), Sliced(r.fields, heap'), Own(r.fields.arr)
  PROVE  FieldsInv' /\ LoggersKept
<1> USE DEF FieldsInv
<1>1. /\ HeapInv' /\ \A s : Sliced(s, heap) => Sliced(s, heap')
      /\ \A l \in DOMAIN loggers : Content(heap', loggers[l].fields) = Content(heap, loggers[l].fields)
  BY HeapStep
<1>2. LoggersInv'
  BY <1>1 DEF LoggersInv
<1>3. LoggersKept
  BY <1>1 DEF LoggersKept
<1>4. \A b : Own(b)' <=> Own(b)
  BY DEF Own
<1>5. PICK S : call \in [Goroutines -> S]
  BY DEF CallsInv
<1>6. call' \in [Goroutines -> S \cup {r}]
  BY <1>5
<1>7. ASSUME NEW h \in Goroutines
      PROVE  /\ IsCall(call'[h])
             /\ IsSlice(call'[h].base) /\ Sliced(call'[h].base, heap') /\ Own(call'[h].base.arr)
             /\ IsSlice(call'[h].fields) /\ Sliced(call'[h].fields, heap') /\ Own(call'[h].fields.arr)
  <2>1. CASE h = g
    BY <1>5, <2>1
  <2>2. CASE h # g
    BY <1>1, <1>5, <2>2 DEF CallsInv
  <2> QED
    BY <2>1, <2>2
<1>8. CallsInv'
  BY <1>4, <1>6, <1>7 DEF CallsInv
<1> QED
  BY <1>1, <1>2, <1>3, <1>8

LEMMA HeapSame ==
  ASSUME FieldsInv, UNCHANGED heap
  PROVE  Own(0) /\ Grows(0)
BY AppendIsSeq DEF FieldsInv, HeapInv, Own, Grows

-----------------------------------------------------------------------------
(* One lemma per action. *)

LEMMA DeriveKeeps ==
  ASSUME FieldsInv, NEW l \in DOMAIN loggers, NEW fields, NEW name, NEW ctx, NEW spare,
         Derive(l, fields, name, ctx, spare)
  PROVE  FieldsInv' /\ LoggersKept
<1> USE DEF FieldsInv
<1> DEFINE own   == cloneFields(heap, loggers[l].fields)
           cells == Content(heap, fields)
           more  == GoAppend(own.heap, own.slice, cells, spare)
           new   == [fields |-> more.slice, name |-> name, ctx |-> ctx, was |-> loggers[l].was \o cells]
<1>1. heap' = more.heap /\ loggers' = Append(loggers, new) /\ call' = call
  BY DEF Derive
<1>2. /\ IsSeq(own.heap) /\ Len(own.heap) >= Len(heap) /\ Len(own.heap) \in Nat
      /\ \A a \in DOMAIN heap : own.heap[a] = heap[a]
      /\ IsSlice(own.slice) /\ Sliced(own.slice, own.heap) /\ own.slice.arr \in {0, Len(heap) + 1}
  <2>1. IsSeq(heap) /\ IsSlice(loggers[l].fields) /\ Sliced(loggers[l].fields, heap)
    BY DEF HeapInv, LoggersInv
  <2> QED
    BY <2>1, CloneFrame DEF IsSlice
<1>3. /\ IsSeq(more.heap) /\ Len(more.heap) >= Len(own.heap) /\ Len(more.heap) \in Nat
      /\ \A a \in DOMAIN own.heap : a # own.slice.arr => more.heap[a] = own.heap[a]
      /\ IsSlice(more.slice) /\ Sliced(more.slice, more.heap)
      /\ more.slice.arr \in {own.slice.arr, Len(own.heap) + 1}
  BY <1>2, GoAppendFrame DEF IsSlice
<1>4. new.fields = more.slice /\ IsLogger(new)
  BY DEF IsLogger
<1> HIDE DEF own, more, new
<1>5. /\ DOMAIN heap = 1..Len(heap) /\ Len(heap) \in Nat /\ DOMAIN own.heap = 1..Len(own.heap)
  BY <1>2, AppendIsSeq DEF HeapInv
<1>6. Grows(0) /\ Own(0)
  BY <1>1, <1>2, <1>3, <1>5 DEF Grows, Own
<1>7. /\ HeapInv' /\ \A s : Sliced(s, heap) => Sliced(s, heap')
      /\ \A k \in DOMAIN loggers : Content(heap', loggers[k].fields) = Content(heap, loggers[k].fields)
  BY <1>6, HeapStep
<1>8. /\ IsSeq(loggers') /\ DOMAIN loggers' = (DOMAIN loggers) \cup {Len(loggers) + 1}
      /\ loggers'[Len(loggers) + 1] = new
      /\ \A k \in DOMAIN loggers : loggers'[k] = loggers[k]
  BY <1>1, AppendIsSeq DEF LoggersInv
<1>9. LoggersKept
  BY <1>7, <1>8 DEF LoggersKept
<1>10. LoggersInv'
  BY <1>1, <1>3, <1>4, <1>7, <1>8 DEF LoggersInv
<1>11. \A a : Own(a) /\ (a = 0 \/ a \in DOMAIN heap) => Own(a)'
  <2>1. new.fields.arr \notin DOMAIN heap
    BY <1>2, <1>3, <1>4, <1>5
  <2> QED
    BY <1>8, <2>1 DEF Own
<1>12. \A s : Sliced(s, heap) => s.arr = 0 \/ s.arr \in DOMAIN heap
  BY DEF Sliced, Nil
<1>13. CallsInv'
  BY <1>1, <1>7, <1>11, <1>12 DEF CallsInv
<1> QED
  BY <1>7, <1>9, <1>10, <1>13

LEMMA LogErrKeeps ==
  ASSUME FieldsInv, NEW g \in Goroutines, NEW l \in DOMAIN loggers, NEW a \in DOMAIN Args,
         NEW given, NEW err, LogErr(g, l, a, given, err)
  PROVE  FieldsInv' /\ LoggersKept
<1> USE DEF FieldsInv
<1>1. PICK spare \in Spare, more \in Spare :
        /\ heap' = NewFields(l, a, spare, more).heap
        /\ call' = [call EXCEPT ![g] = [Idle EXCEPT !.stage = 1, !.event = Len(events) + 1,
                     !.base = NewFields(l, a, spare, more).slice,
                     !.fields = NewFields(l, a, spare, more).slice,
                     !.ids = IdsIn(resolveContext(given, l)), !.name = loggers[l].name, !.err = err]]
        /\ UNCHANGED loggers
  BY DEF LogErr
<1> DEFINE copy == GoAppend(heap, Nil, Content(heap, loggers[l].fields), spare)
           f    == GoAppend(copy.heap, copy.slice, Content(heap, ArgSlice(a)), more)
           r    == [Idle EXCEPT !.stage = 1, !.event = Len(events) + 1, !.base = f.slice,
                     !.fields = f.slice, !.ids = IdsIn(resolveContext(given, l)),
                     !.name = loggers[l].name, !.err = err]
<1>2. NewFields(l, a, spare, more) = f
  BY DEF NewFields
<1>3. /\ IsSeq(copy.heap) /\ Len(copy.heap) >= Len(heap) /\ Len(copy.heap) \in Nat
      /\ \A b \in DOMAIN heap : b # 0 => copy.heap[b] = heap[b]
      /\ IsSlice(copy.slice) /\ Sliced(copy.slice, copy.heap) /\ copy.slice.arr \in {0, Len(heap) + 1}
  <2>1. Nil = [arr |-> Nil.arr, len |-> Nil.len] /\ Nil.arr = 0 /\ Sliced(Nil, heap) /\ IsSeq(heap)
    BY DEF Nil, Sliced, HeapInv
  <2> QED
    BY <2>1, GoAppendFrame DEF IsSlice
<1>4. /\ IsSeq(f.heap) /\ Len(f.heap) >= Len(copy.heap) /\ Len(f.heap) \in Nat
      /\ \A b \in DOMAIN copy.heap : b # copy.slice.arr => f.heap[b] = copy.heap[b]
      /\ IsSlice(f.slice) /\ Sliced(f.slice, f.heap)
      /\ f.slice.arr \in {copy.slice.arr, Len(copy.heap) + 1}
  BY <1>3, GoAppendFrame DEF IsSlice
<1>5. IsCall(r) /\ r.base = f.slice /\ r.fields = f.slice
  <2> DEFINE U == {0, 1, Len(events) + 1, f.slice, IdsIn(resolveContext(given, l)), loggers[l].name, err,
                   Nil, {}, <<>>, NoError, FALSE}
  <2> HIDE DEF f
  <2>1. Idle \in CallOf(U)
    BY DEF Idle, CallOf
  <2>2. r \in CallOf(U)
    BY <2>1 DEF CallOf
  <2>3. r.base = f.slice /\ r.fields = f.slice
    BY <2>1 DEF CallOf
  <2> QED
    BY <2>2, <2>3 DEF IsCall
<1>6. heap' = f.heap /\ call' = [call EXCEPT ![g] = r]
  BY <1>1, <1>2
<1> HIDE DEF copy, f, r
<1>7. /\ DOMAIN heap = 1..Len(heap) /\ Len(heap) \in Nat /\ DOMAIN copy.heap = 1..Len(copy.heap)
      /\ DOMAIN f.heap = 1..Len(f.heap)
  BY <1>3, <1>4, AppendIsSeq DEF HeapInv
<1>8. Grows(0) /\ Own(0)
  BY <1>3, <1>4, <1>6, <1>7 DEF Grows, Own
<1>9. Own(f.slice.arr)
  <2>1. f.slice.arr = 0 \/ f.slice.arr > Len(heap)
    BY <1>3, <1>4, <1>7
  <2>2. f.slice.arr \notin DOMAIN Args \/ f.slice.arr = 0
    BY <1>7, <2>1, ArgsAre DEF HeapInv
  <2>3. \A k \in DOMAIN loggers : loggers[k].fields.arr = 0 \/ loggers[k].fields.arr \in DOMAIN heap
    BY DEF LoggersInv, Sliced, Nil
  <2> QED
    BY <1>7, <2>1, <2>2, <2>3 DEF Own
<1> QED
  BY <1>1, <1>4, <1>5, <1>6, <1>8, <1>9, CallStep, ZenonT(60)

\* The calls' records change in their own place only.
LEMMA CallOfG ==
  ASSUME FieldsInv, NEW g \in Goroutines
  PROVE  /\ IsCall(call[g]) /\ IsSlice(call[g].base) /\ IsSlice(call[g].fields)
         /\ Sliced(call[g].base, heap) /\ Own(call[g].base.arr)
         /\ Sliced(call[g].fields, heap) /\ Own(call[g].fields.arr)
BY DEF FieldsInv, CallsInv

LEMMA StepStage ==
  ASSUME FieldsInv, NEW g \in Goroutines, NEW st, NEW r, r = [call[g] EXCEPT !.stage = st]
  PROVE  IsCall(r) /\ r.base = call[g].base /\ r.fields = call[g].fields
<1>1. PICK U : call[g] \in CallOf(U)
  BY CallOfG DEF IsCall
<1>2. call[g] \in CallOf(U \cup {st})
  BY <1>1 DEF CallOf
<1>3. r \in CallOf(U \cup {st})
  BY <1>2 DEF CallOf
<1>4. r.base = call[g].base /\ r.fields = call[g].fields
  BY <1>1 DEF CallOf
<1> QED
  BY <1>3, <1>4 DEF IsCall

\* Redact writes into the array of its own call.
LEMMA RedactKeeps ==
  ASSUME FieldsInv, NEW g \in Goroutines, Redact(g)
  PROVE  FieldsInv' /\ LoggersKept
<1> DEFINE s == call[g].fields
           e == ErrorAfter({"redact"}, call[g].err)
           r == [call[g] EXCEPT !.stage = @ + 1, !.err = e]
<1>1. call' = [call EXCEPT ![g] = r] /\ UNCHANGED loggers
  <2>1. PICK S : call \in [Goroutines -> S]
    BY DEF FieldsInv, CallsInv
  <2> QED
    BY <2>1 DEF Redact
<1>2. PICK cs : heap' = IF s.len = 0 THEN heap ELSE [heap EXCEPT ![s.arr] = cs]
  BY DEF Redact
<1>3. Own(s.arr) /\ Grows(s.arr) /\ DOMAIN heap' = DOMAIN heap
  <2>1. CASE s.len = 0
    BY <1>2, <2>1, CallOfG, AppendIsSeq DEF Grows, FieldsInv, HeapInv
  <2>2. CASE s.len # 0
    <3>1. s.arr \in DOMAIN heap /\ heap' = [heap EXCEPT ![s.arr] = cs]
      BY <1>2, <2>2, CallOfG DEF Sliced, Nil
    <3>2. IsSeq(heap) /\ Len(heap) \in Nat
      BY AppendIsSeq DEF FieldsInv, HeapInv
    <3>3. DOMAIN heap' = DOMAIN heap
      BY <3>1
    <3> DEFINE x == s.arr
    <3> HIDE DEF s
    <3>4. IsSeq(heap') /\ Len(heap') = Len(heap) /\ \A b \in DOMAIN heap : b # x => heap'[b] = heap[b]
      BY <3>1, <3>2, ExceptIsSeq, ZenonT(60)
    <3>5. Own(x)
      BY CallOfG DEF s
    <3> QED
      BY <3>2, <3>3, <3>4, <3>5 DEF Grows
  <2> QED
    BY <2>1, <2>2
<1>4. IsCall(r) /\ r.base = call[g].base /\ r.fields = call[g].fields
  <2>1. PICK U : call[g] \in CallOf(U)
    BY CallOfG DEF IsCall
  <2>2. call[g] \in CallOf(U \cup {call[g].stage + 1, e})
    BY <2>1 DEF CallOf
  <2>3. r \in CallOf(U \cup {call[g].stage + 1, e})
    BY <2>2 DEF CallOf
  <2> QED
    BY <2>1, <2>3 DEF IsCall, CallOf
<1>5. Sliced(r.base, heap') /\ Sliced(r.fields, heap')
  BY <1>3, <1>4, CallOfG DEF Sliced
<1> HIDE DEF r, s
<1> QED
  BY <1>1, <1>3, <1>4, <1>5, CallOfG, CallStep

LEMMA EnrichKeeps ==
  ASSUME FieldsInv, NEW g \in Goroutines, Enrich(g)
  PROVE  FieldsInv' /\ LoggersKept
<1> DEFINE s     == call[g].fields
           cells == IF Adds(g, Processor(g)) THEN <<IdField(Processor(g))>> ELSE <<>>
<1>1. PICK spare \in Spare :
        /\ heap' = GoAppend(heap, s, cells, spare).heap
        /\ call' = [call EXCEPT ![g].stage = @ + 1, ![g].fields = GoAppend(heap, s, cells, spare).slice]
        /\ UNCHANGED loggers
  BY DEF Enrich
<1> DEFINE f == GoAppend(heap, s, cells, spare)
           r == [call[g] EXCEPT !.stage = call[g].stage + 1, !.fields = f.slice]
<1>2. call' = [call EXCEPT ![g] = r]
  <2>1. PICK S : call \in [Goroutines -> S]
    BY DEF FieldsInv, CallsInv
  <2> QED
    BY <1>1, <2>1
<1>3. /\ IsSeq(f.heap) /\ Len(f.heap) >= Len(heap) /\ Len(f.heap) \in Nat
      /\ \A b \in DOMAIN heap : b # s.arr => f.heap[b] = heap[b]
      /\ IsSlice(f.slice) /\ Sliced(f.slice, f.heap) /\ f.slice.arr \in {s.arr, Len(heap) + 1}
  <2>1. IsSeq(heap) /\ IsSlice(s) /\ Sliced(s, heap)
    BY CallOfG DEF FieldsInv, HeapInv
  <2> HIDE DEF s
  <2> QED
    BY <2>1, GoAppendFrame DEF IsSlice
<1>4. IsCall(r) /\ r.base = call[g].base /\ r.fields = f.slice
  <2> HIDE DEF f
  <2>1. PICK U : call[g] \in CallOf(U)
    BY CallOfG DEF IsCall
  <2>2. call[g] \in CallOf(U \cup {call[g].stage + 1, f.slice})
    BY <2>1 DEF CallOf
  <2>3. r \in CallOf(U \cup {call[g].stage + 1, f.slice})
    BY <2>2 DEF CallOf
  <2>4. r.base = call[g].base /\ r.fields = f.slice
    BY <2>1 DEF CallOf
  <2> QED
    BY <2>3, <2>4 DEF IsCall
<1>5. heap' = f.heap
  BY <1>1
<1> HIDE DEF f, r
<1>6. Grows(s.arr) /\ Own(s.arr)
  BY <1>3, <1>5, CallOfG DEF Grows
<1>7. /\ DOMAIN heap = 1..Len(heap) /\ Len(heap) \in Nat
      /\ \A q : Sliced(q, heap) => Sliced(q, heap')
  BY <1>6, HeapStep
<1>8. Own(Len(heap) + 1)
  BY <1>7, ArgsAre DEF Own, FieldsInv, HeapInv, LoggersInv, Sliced, Nil
<1>9. Own(f.slice.arr)
  BY <1>3, <1>6, <1>8
<1> QED
  BY <1>1, <1>2, <1>3, <1>4, <1>5, <1>6, <1>7, <1>9, CallOfG, CallStep, ZenonT(60)

\* The children, and what comes after them: a new array at most.
LEMMA MovesKeeps ==
  ASSUME FieldsInv, NEW g \in Goroutines, Moves(g), Grows(0), UNCHANGED loggers
  PROVE  FieldsInv' /\ LoggersKept
<1> DEFINE r == [call[g] EXCEPT !.stage = call[g].stage + 1]
<1>1. call' = [call EXCEPT ![g] = r]
  <2>1. PICK S : call \in [Goroutines -> S]
    BY DEF FieldsInv, CallsInv
  <2> QED
    BY <2>1 DEF Moves
<1>2. IsCall(r) /\ r.base = call[g].base /\ r.fields = call[g].fields
  BY StepStage
<1> HIDE DEF r
<1>3. Own(0)
  BY DEF Own
<1>4. \A q : Sliced(q, heap) => Sliced(q, heap')
  BY <1>3, HeapStep
<1> QED
  BY <1>1, <1>2, <1>3, <1>4, CallOfG, CallStep

LEMMA CloneGrows ==
  ASSUME FieldsInv, NEW g \in Goroutines, heap' = cloneFields(heap, call[g].fields).heap
  PROVE  Grows(0)
<1>1. IsSeq(heap) /\ IsSlice(call[g].fields) /\ Sliced(call[g].fields, heap)
  BY CallOfG DEF FieldsInv, HeapInv
<1> QED
  BY <1>1, CloneFrame DEF IsSlice, Grows

\* The text encoder's clone is gone when it returns.
LEMMA TextGrows ==
  ASSUME FieldsInv, NEW g \in Goroutines, heap' = TextSorts(heap, call[g].fields)
  PROVE  Grows(0) /\ Len(heap') = Len(heap)
<1> DEFINE s == call[g].fields
           c == cloneFields(heap, s)
           o == Overwritten(c.heap, c.slice, Sorted(Content(heap, s)))
<1>1. IsSeq(heap) /\ IsSlice(s) /\ Sliced(s, heap) /\ Len(heap) \in Nat /\ DOMAIN heap = 1..Len(heap)
  BY CallOfG, AppendIsSeq DEF FieldsInv, HeapInv
<1>2. /\ IsSeq(c.heap) /\ Len(c.heap) >= Len(heap) /\ Len(c.heap) \in Nat
      /\ \A a \in DOMAIN heap : c.heap[a] = heap[a]
      /\ Sliced(c.slice, c.heap) /\ c.slice.arr \in {0, Len(heap) + 1}
  <2> HIDE DEF s
  <2> QED
    BY <1>1, CloneFrame DEF IsSlice
<1>3. heap' = SubSeq(o, 1, Len(heap))
  BY DEF TextSorts
<1>4. PICK cs : o = IF c.slice.len = 0 THEN c.heap ELSE [c.heap EXCEPT ![c.slice.arr] = cs]
  BY DEF Overwritten
<1> HIDE DEF s, c, o
<1>5. /\ IsSeq(o) /\ Len(o) >= Len(heap) /\ Len(o) \in Nat
      /\ \A a \in DOMAIN heap : o[a] = heap[a]
  <2>1. CASE c.slice.len = 0
    BY <1>2, <1>4, <2>1
  <2>2. CASE c.slice.len # 0
    <3>1. c.slice.arr \in DOMAIN c.heap /\ c.slice.arr \notin DOMAIN heap
      BY <1>1, <1>2, <2>2 DEF Sliced, Nil
    <3>2. o = [c.heap EXCEPT ![c.slice.arr] = cs]
      BY <1>4, <2>2
    <3>3. IsSeq(o) /\ Len(o) = Len(c.heap) /\ \A i \in DOMAIN c.heap : i # c.slice.arr => o[i] = c.heap[i]
      BY <1>2, <3>1, <3>2, ExceptIsSeq
    <3>4. DOMAIN heap \subseteq DOMAIN c.heap
      BY <1>1, <1>2, AppendIsSeq
    <3> QED
      BY <1>2, <3>1, <3>3, <3>4
  <2> QED
    BY <2>1, <2>2
<1>6. PICK S : o \in Seq(S)
  BY <1>5 DEF IsSeq
<1>7. /\ heap' \in Seq(S) /\ Len(heap') = Len(heap)
      /\ \A a \in 1..Len(heap) : heap'[a] = o[a]
  BY <1>1, <1>3, <1>5, <1>6
<1> QED
  BY <1>1, <1>5, <1>7 DEF Grows, IsSeq

LEMMA CallAgainKeeps ==
  ASSUME FieldsInv, NEW g \in Goroutines, CallAgain(g)
  PROVE  FieldsInv' /\ LoggersKept
<1> DEFINE r == [call[g] EXCEPT !.stage = 1, !.again = TRUE, !.fields = call[g].base]
<1>1. call' = [call EXCEPT ![g] = r] /\ UNCHANGED <<heap, loggers>>
  <2>1. PICK S : call \in [Goroutines -> S]
    BY DEF FieldsInv, CallsInv
  <2> QED
    BY <2>1 DEF CallAgain
<1>2. IsCall(r) /\ r.base = call[g].base /\ r.fields = call[g].base
  <2>1. PICK U : call[g] \in CallOf(U)
    BY CallOfG DEF IsCall
  <2>2. call[g] \in CallOf(U \cup {1, TRUE, call[g].base})
    BY <2>1 DEF CallOf
  <2>3. r \in CallOf(U \cup {1, TRUE, call[g].base})
    BY <2>2 DEF CallOf
  <2>4. r.base = call[g].base /\ r.fields = call[g].base
    BY <2>1 DEF CallOf
  <2> QED
    BY <2>3, <2>4 DEF IsCall
<1> HIDE DEF r
<1>3. Own(0) /\ Grows(0)
  BY <1>1, HeapSame
<1> QED
  BY <1>1, <1>2, <1>3, CallOfG, CallStep

LEMMA ReturnKeeps ==
  ASSUME FieldsInv, NEW g \in Goroutines, Return(g)
  PROVE  FieldsInv' /\ LoggersKept
<1>1. call' = [call EXCEPT ![g] = Idle] /\ UNCHANGED <<heap, loggers>>
  BY DEF Return
<1>2. /\ IsCall(Idle) /\ Idle.base = Nil /\ Idle.fields = Nil
      /\ IsSlice(Nil) /\ Own(Nil.arr) /\ Sliced(Nil, heap')
  <2>1. Idle \in CallOf({0, Nil, {}, <<>>, NoError, FALSE})
    BY DEF Idle, CallOf
  <2> QED
    BY <2>1 DEF IsCall, Idle, IsSlice, Nil, Own, Sliced
<1>3. Own(0) /\ Grows(0)
  BY <1>1, HeapSame
<1> QED
  BY <1>1, <1>2, <1>3, CallStep

\* Steps that touch neither an array nor a call.
LEMMA RestKeeps ==
  ASSUME FieldsInv, UNCHANGED <<heap, loggers, call>>
  PROVE  FieldsInv' /\ LoggersKept
BY DEF FieldsInv, HeapInv, LoggersInv, CallsInv, Own, LoggersKept

-----------------------------------------------------------------------------
LEMMA FieldsStep == FieldsInv /\ [Next]_vars => FieldsInv' /\ LoggersKept
<1> SUFFICES ASSUME FieldsInv, [Next]_vars PROVE FieldsInv' /\ LoggersKept
  OBVIOUS
<1>1. ASSUME NEW l \in DOMAIN loggers, With(l) \/ WithContext(l) \/ \E n \in Names : WithName(l, n)
      PROVE  FieldsInv' /\ LoggersKept
  BY <1>1, DeriveKeeps DEF With, WithContext, WithName
<1>2. ASSUME NEW l \in DOMAIN loggers, NEW g \in Goroutines, NEW a \in DOMAIN Args, NEW err, NEW given,
             LogErr(g, l, a, given, err)
      PROVE  FieldsInv' /\ LoggersKept
  BY <1>2, LogErrKeeps
<1>3. ASSUME NEW g \in Goroutines, Redact(g) \/ Enrich(g) \/ Return(g) \/ CallAgain(g)
      PROVE  FieldsInv' /\ LoggersKept
  BY <1>3, RedactKeeps, EnrichKeeps, ReturnKeeps, CallAgainKeeps
<1>4. ASSUME NEW g \in Goroutines, WriteText(g) \/ WriteJSON(g) \/ WriteAsync(g)
      PROVE  FieldsInv' /\ LoggersKept
  <2>1. Moves(g) /\ UNCHANGED loggers
    BY <1>4 DEF WriteText, WriteJSON, WriteAsync
  <2>2. Grows(0)
    BY <1>4, TextGrows, CloneGrows, HeapSame DEF WriteText, WriteJSON, WriteAsync
  <2> QED
    BY <2>1, <2>2, MovesKeeps
<1>5. ASSUME Deliver \/ ChangeBoxes \/ UNCHANGED vars
      PROVE  FieldsInv' /\ LoggersKept
  BY <1>5, RestKeeps DEF Deliver, ChangeBoxes, vars
<1> QED
  BY <1>1, <1>2, <1>3, <1>4, <1>5 DEF Next

LEMMA FieldsInvariant == Spec => []FieldsInv
BY FieldsInit, FieldsStep, PTL DEF Spec

\* The fields of a logger never change, whatever With, WithName and WithContext
\* derive from it and whatever LogErr, the processors and the encoders do.
THEOREM LoggersImmutableCorrect == Spec => LoggersImmutable
<1>1. FieldsInv /\ [Next]_vars =>
        [\A l \in DOMAIN loggers :
           /\ loggers'[l] = loggers[l]
           /\ Content(heap, loggers[l].fields)' = Content(heap, loggers[l].fields)]_vars
  BY FieldsStep DEF LoggersKept
<1> QED
  BY <1>1, FieldsInvariant, PTL DEF Spec, LoggersImmutable

\* No call ever writes into the slices the callers have passed to it.
THEOREM CallerUntouchedCorrect == Spec => []CallerUntouched
<1>1. FieldsInv => CallerUntouched
  BY DEF FieldsInv, HeapInv, CallerUntouched
<1> QED
  BY <1>1, FieldsInvariant, PTL

-----------------------------------------------------------------------------
(* Sequences, slices and what they hold. *)

LEMMA SeqIs ==
  ASSUME NEW s, IsSeq(s)
  PROVE  Len(s) \in Nat /\ DOMAIN s = 1..Len(s) /\ s = [i \in 1..Len(s) |-> s[i]]
BY DEF IsSeq

LEMMA SameSeq ==
  ASSUME NEW s, NEW t, IsSeq(s), IsSeq(t), DOMAIN s = DOMAIN t, \A i \in DOMAIN s : s[i] = t[i]
  PROVE  s = t
<1>1. /\ s = [i \in 1..Len(s) |-> s[i]] /\ t = [i \in 1..Len(t) |-> t[i]]
      /\ DOMAIN s = 1..Len(s) /\ DOMAIN t = 1..Len(t)
  BY SeqIs
<1>2. s = [i \in DOMAIN s |-> s[i]] /\ t = [i \in DOMAIN s |-> t[i]]
  BY <1>1
<1> QED
  BY <1>2

LEMMA FunIsSeq ==
  ASSUME NEW n \in Nat, NEW t, t = [i \in 1..n |-> t[i]]
  PROVE  IsSeq(t) /\ Len(t) = n /\ DOMAIN t = 1..n
<1>1. t \in [1..n -> {t[i] : i \in 1..n}]
  OBVIOUS
<1>2. t \in Seq({t[i] : i \in 1..n})
  BY <1>1
<1>3. IsSeq(t) /\ DOMAIN t = 1..n
  BY <1>1, <1>2 DEF IsSeq
<1>4. Len(t) \in Nat /\ 1..Len(t) = 1..n
  BY <1>3, SeqIs
<1>5. Len(t) = n
  <2>1. n \in 1..n \/ n = 0
    OBVIOUS
  <2>2. Len(t) \in 1..Len(t) \/ Len(t) = 0
    BY <1>4
  <2> QED
    BY <1>4, <2>1, <2>2
<1> QED
  BY <1>3, <1>5

LEMMA ConcatIs ==
  ASSUME NEW s, NEW t, IsSeq(s), IsSeq(t)
  PROVE  /\ IsSeq(s \o t) /\ Len(s \o t) = Len(s) + Len(t)
         /\ \A i \in 1..Len(s) : (s \o t)[i] = s[i]
         /\ \A i \in 1..Len(t) : (s \o t)[Len(s) + i] = t[i]
<1>1. PICK S : s \in Seq(S)
  BY DEF IsSeq
<1>2. PICK T : t \in Seq(T)
  BY DEF IsSeq
<1>3. s \in Seq(S \cup T) /\ t \in Seq(S \cup T)
  BY <1>1, <1>2
<1>4. s \o t \in Seq(S \cup T)
  BY <1>3
<1> QED
  BY <1>3, <1>4 DEF IsSeq

LEMMA SubSeqIs ==
  ASSUME NEW s, IsSeq(s), NEW m \in 0..Len(s)
  PROVE  /\ IsSeq(SubSeq(s, 1, m)) /\ Len(SubSeq(s, 1, m)) = m
         /\ \A i \in 1..m : SubSeq(s, 1, m)[i] = s[i]
<1>1. PICK S : s \in Seq(S)
  BY DEF IsSeq
<1>2. Len(s) \in Nat /\ m \in Int
  BY SeqIs
<1>3. 1 \in 1..Len(s) + 1 /\ m \in 1 - 1..Len(s)
  BY <1>2
<1>4. /\ SubSeq(s, 1, m) \in Seq(S) /\ Len(SubSeq(s, 1, m)) = m - 1 + 1
      /\ \A i \in 1 .. m - 1 + 1 : SubSeq(s, 1, m)[i] = s[1 + i - 1]
  BY <1>1, <1>3, SubSeqProperties
<1>5. m - 1 + 1 = m /\ \A i \in 1..m : 1 + i - 1 = i
  BY <1>2
<1> QED
  BY <1>4, <1>5 DEF IsSeq

LEMMA EmptyIsSeq == IsSeq(<<>>) /\ Len(<<>>) = 0 /\ DOMAIN <<>> = {}
<1>1. <<>> \in Seq({})
  OBVIOUS
<1> QED
  BY <1>1 DEF IsSeq

LEMMA OneIsSeq == ASSUME NEW x PROVE IsSeq(<<x>>) /\ Len(<<x>>) = 1 /\ <<x>>[1] = x
<1>1. <<x>> \in Seq({x})
  OBVIOUS
<1> QED
  BY <1>1 DEF IsSeq

\* An array of arrays, and a slice within one of them.
IsHeap(h) == IsSeq(h) /\ \A a \in DOMAIN h : IsSeq(h[a])

Within(s, h) == IsSlice(s) /\ (s = Nil \/ (s.arr \in DOMAIN h /\ s.len \in 0..Len(h[s.arr])))

LEMMA ContentIs ==
  ASSUME NEW h, IsHeap(h), NEW s, Within(s, h)
  PROVE  /\ IsSeq(Content(h, s)) /\ Len(Content(h, s)) = s.len /\ s.len \in Nat
         /\ DOMAIN Content(h, s) = 1..s.len
         /\ \A i \in 1..s.len : Content(h, s)[i] = h[s.arr][i]
<1>1. CASE s = Nil
  BY <1>1, EmptyIsSeq DEF Content, Nil
<1>2. CASE s.arr \in DOMAIN h /\ s.len \in 0..Len(h[s.arr])
  <2>1. IsSeq(h[s.arr])
    BY <1>2 DEF IsHeap
  <2>2. CASE s.len = 0
    BY <2>2, EmptyIsSeq DEF Content
  <2>3. CASE s.len # 0
    <3>1. Content(h, s) = SubSeq(h[s.arr], 1, s.len)
      BY <2>3 DEF Content
    <3>2. Len(h[s.arr]) \in Nat
      BY <2>1, SeqIs
    <3>3. /\ IsSeq(Content(h, s)) /\ Len(Content(h, s)) = s.len
          /\ \A i \in 1..s.len : Content(h, s)[i] = h[s.arr][i]
      BY <1>2, <2>1, <3>1, SubSeqIs
    <3> QED
      BY <1>2, <3>2, <3>3, SeqIs
  <2> QED
    BY <2>2, <2>3
<1> QED
  BY <1>1, <1>2 DEF Within

\* The content of a slice depends on its array alone.
LEMMA ContentKept ==
  ASSUME NEW h, NEW k, NEW s, Within(s, h), s # Nil => s.arr \in DOMAIN k /\ k[s.arr] = h[s.arr]
  PROVE  Content(k, s) = Content(h, s) /\ Within(s, k)
BY DEF Content, Within, Nil

LEMMA WithinIsSliced ==
  ASSUME NEW h, NEW s, Within(s, h)
  PROVE  /\ Sliced(s, h) /\ s = [arr |-> s.arr, len |-> s.len]
         /\ s # Nil => s.arr \in DOMAIN h
BY DEF Within, Sliced, IsSlice

\* append puts the cells behind what the slice holds, in its array or in a new one,
\* and changes nothing of what it holds, nor of the other arrays.
AppendDoes(h, s, cells, r) ==
  /\ IsHeap(r.heap) /\ Within(r.slice, r.heap)
  /\ Content(r.heap, r.slice) = Content(h, s) \o cells
  /\ r.slice.len = s.len + Len(cells)
  /\ \A a \in DOMAIN h : Len(r.heap[a]) = Len(h[a]) /\ \A i \in 1..s.len : r.heap[a][i] = h[a][i]
  /\ Len(r.heap) >= Len(h) /\ \A a \in DOMAIN h : a # s.arr => r.heap[a] = h[a]
  /\ r.slice.arr \in {s.arr, Len(h) + 1}

LEMMA AppendContent ==
  ASSUME NEW h, IsHeap(h), NEW s, Within(s, h), NEW cells, IsSeq(cells), NEW spare \in Nat
  PROVE  AppendDoes(h, s, cells, GoAppend(h, s, cells, spare))
<1> DEFINE r == GoAppend(h, s, cells, spare)
           n == Len(cells)
           c == Content(h, s)
<1>c. /\ Len(r.heap) >= Len(h) /\ \A a \in DOMAIN h : a # s.arr => r.heap[a] = h[a]
      /\ r.slice.arr \in {s.arr, Len(h) + 1}
  <2>1. IsSeq(h) /\ IsSlice(s) /\ Sliced(s, h)
    BY WithinIsSliced DEF IsHeap, Within
  <2> QED
    BY <2>1, GoAppendFrame
<1> SUFFICES /\ IsHeap(r.heap) /\ Within(r.slice, r.heap)
             /\ Content(r.heap, r.slice) = Content(h, s) \o cells
             /\ r.slice.len = s.len + Len(cells)
             /\ \A a \in DOMAIN h : /\ Len(r.heap[a]) = Len(h[a])
                                    /\ \A i \in 1..s.len : r.heap[a][i] = h[a][i]
  BY <1>c DEF AppendDoes
<1>0. /\ n \in Nat /\ s.len \in Nat /\ DOMAIN cells = 1..n
      /\ IsSeq(c) /\ Len(c) = s.len /\ DOMAIN c = 1..s.len
      /\ \A i \in 1..s.len : c[i] = h[s.arr][i]
  BY SeqIs, ContentIs
<1> HIDE DEF c
<1>a. IsSeq(c \o cells) /\ Len(c \o cells) = s.len + n
      /\ (\A i \in 1..s.len : (c \o cells)[i] = c[i])
      /\ (\A i \in 1..n : (c \o cells)[s.len + i] = cells[i])
  BY <1>0, ConcatIs
<1>b. IsSeq(h) /\ Len(h) \in Nat /\ DOMAIN h = 1..Len(h) /\ \A a \in DOMAIN h : IsSeq(h[a])
  BY SeqIs DEF IsHeap
<1>1. CASE cells = <<>>
  <2>1. r = [heap |-> h, slice |-> s]
    BY <1>1 DEF GoAppend
  <2>2. n = 0
    BY <1>1, EmptyIsSeq
  <2>3. DOMAIN c = DOMAIN (c \o cells) /\ \A i \in DOMAIN c : c[i] = (c \o cells)[i]
    BY <1>0, <1>a, <2>2, SeqIs
  <2>4. c = c \o cells
    BY <1>0, <1>a, <2>3, SameSeq
  <2> QED
    BY <1>0, <2>1, <2>2, <2>4, <1>b DEF c, IsHeap
<1>2. CASE cells # <<>> /\ Fits(h, s, cells)
  <2> DEFINE old == h[s.arr]
             new == [i \in DOMAIN old |-> IF i \in s.len + 1 .. s.len + n THEN cells[i - s.len] ELSE old[i]]
  <2>1. s.arr \in DOMAIN h /\ s.len + n <= Len(old)
    BY <1>2 DEF Fits, Within, Nil
  <2>2. IsSeq(old) /\ Len(old) \in Nat /\ DOMAIN old = 1..Len(old)
    BY <1>b, <2>1, SeqIs
  <2>3. r = [heap |-> [h EXCEPT ![s.arr] = new], slice |-> [s EXCEPT !.len = @ + n]]
    BY <1>2 DEF GoAppend
  <2>4. r.heap = [h EXCEPT ![s.arr] = new]
    BY <2>3
  <2>5. r.slice = [arr |-> s.arr, len |-> s.len + n]
    BY <2>3 DEF Within, IsSlice
  <2>6. IsSeq(new) /\ Len(new) = Len(old)
    <3>1. new = [i \in 1..Len(old) |-> new[i]]
      BY <2>2
    <3> HIDE DEF new
    <3> QED
      BY <2>2, <3>1, FunIsSeq
  <2>7. \A i \in 1..Len(old) : new[i] = IF i \in s.len + 1 .. s.len + n THEN cells[i - s.len] ELSE old[i]
    BY <2>2
  <2> HIDE DEF new, r
  <2>8. IsSeq(r.heap) /\ DOMAIN r.heap = DOMAIN h
    <3> DEFINE x == s.arr
    <3>1. x \in DOMAIN h /\ r.heap = [h EXCEPT ![x] = new]
      BY <2>1, <2>4
    <3> HIDE DEF x
    <3>2. IsSeq([h EXCEPT ![x] = new])
      BY <1>b, <3>1, ExceptIsSeq
    <3>3. DOMAIN r.heap = DOMAIN h
      BY <3>1
    <3> QED
      BY <3>1, <3>2, <3>3
  <2>9. \A a \in DOMAIN h : r.heap[a] = IF a = s.arr THEN new ELSE h[a]
    BY <2>4
  <2>10. IsHeap(r.heap)
    BY <1>b, <2>6, <2>8, <2>9 DEF IsHeap
  <2>11. Within(r.slice, r.heap)
    BY <1>0, <2>1, <2>2, <2>5, <2>6, <2>8, <2>9 DEF Within, IsSlice
  <2>12. ASSUME NEW a \in DOMAIN h
         PROVE  Len(r.heap[a]) = Len(h[a]) /\ \A i \in 1..s.len : r.heap[a][i] = h[a][i]
    <3>1. CASE a # s.arr
      BY <2>9, <3>1
    <3>2. CASE a = s.arr
      <4>1. r.heap[a] = new /\ h[a] = old
        BY <2>9, <3>2
      <4>2. \A i \in 1..s.len : i \in 1..Len(old) /\ i \notin s.len + 1 .. s.len + n
        BY <1>0, <2>1, <2>2
      <4>3. \A i \in 1..s.len : new[i] = old[i]
        BY <2>7, <4>2
      <4> HIDE DEF old
      <4> QED
        BY <2>6, <4>1, <4>3
    <3> QED
      BY <3>1, <3>2
  <2> DEFINE d == Content(r.heap, r.slice)
  <2>13. IsSeq(d) /\ DOMAIN d = 1..s.len + n /\ \A i \in 1..s.len + n : d[i] = new[i]
    BY <2>1, <2>5, <2>9, <2>10, <2>11, ContentIs
  <2> HIDE DEF d
  <2>14. ASSUME NEW i \in 1..s.len + n PROVE d[i] = (c \o cells)[i]
    <3>1. CASE i <= s.len
      <4>1. i \in 1..s.len /\ i \in 1..Len(old) /\ i \notin s.len + 1 .. s.len + n
        BY <1>0, <2>1, <2>2, <3>1
      <4>2. new[i] = old[i] /\ (c \o cells)[i] = old[i]
        BY <1>0, <1>a, <2>7, <4>1
      <4> QED
        BY <2>13, <4>2
    <3>2. CASE i > s.len
      <4>1. i - s.len \in 1..n /\ s.len + (i - s.len) = i /\ i \in 1..Len(old)
        BY <1>0, <2>1, <2>2, <3>2
      <4>2. (c \o cells)[i] = cells[i - s.len]
        BY <1>a, <4>1
      <4>3. new[i] = cells[i - s.len]
        BY <1>0, <2>7, <3>2, <4>1
      <4> QED
        BY <2>13, <4>2, <4>3
    <3> QED
      BY <1>0, <3>1, <3>2
  <2>15. d = c \o cells
    <3>1. DOMAIN (c \o cells) = 1..s.len + n
      BY <1>a, SeqIs
    <3> QED
      BY <1>a, <2>13, <2>14, <3>1, SameSeq
  <2> QED
    BY <2>5, <2>10, <2>11, <2>12, <2>15 DEF d, r, c
<1>3. CASE cells # <<>> /\ ~Fits(h, s, cells)
  <2> DEFINE room == [i \in 1..spare |-> Blank]
             new  == (c \o cells) \o room
  <2>1. r = [heap |-> Append(h, new), slice |-> [arr |-> Len(h) + 1, len |-> s.len + n]]
    BY <1>3 DEF GoAppend, c
  <2>2. IsSeq(room) /\ Len(room) = spare
    <3>1. room = [i \in 1..spare |-> room[i]]
      OBVIOUS
    <3> HIDE DEF room
    <3> QED
      BY <3>1, FunIsSeq
  <2> HIDE DEF room
  <2>3. /\ IsSeq(new) /\ Len(new) = s.len + n + spare
        /\ \A i \in 1..s.len + n : new[i] = (c \o cells)[i]
    BY <1>a, <2>2, ConcatIs
  <2> HIDE DEF new, r
  <2>4. /\ IsSeq(r.heap) /\ DOMAIN r.heap = 1..Len(h) + 1 /\ r.heap[Len(h) + 1] = new
        /\ \A a \in DOMAIN h : r.heap[a] = h[a]
    BY <1>b, <2>1, AppendIsSeq
  <2>5. r.slice = [arr |-> Len(h) + 1, len |-> s.len + n]
    BY <2>1
  <2>6. IsHeap(r.heap)
    BY <1>b, <2>3, <2>4 DEF IsHeap
  <2>7. Within(r.slice, r.heap)
    BY <1>0, <1>b, <2>3, <2>4, <2>5 DEF Within, IsSlice
  <2> DEFINE d == Content(r.heap, r.slice)
  <2>8. IsSeq(d) /\ DOMAIN d = 1..s.len + n /\ \A i \in 1..s.len + n : d[i] = new[i]
    BY <2>4, <2>5, <2>6, <2>7, ContentIs
  <2>9. DOMAIN (c \o cells) = 1..s.len + n
    BY <1>a, SeqIs
  <2> HIDE DEF d
  <2>10. d = c \o cells
    BY <1>a, <2>3, <2>8, <2>9, SameSeq
  <2> QED
    BY <2>4, <2>5, <2>6, <2>7, <2>10 DEF d, r, c
<1> QED
  BY <1>1, <1>2, <1>3

LEMMA CloneContent ==
  ASSUME NEW h, IsHeap(h), NEW s, Within(s, h)
  PROVE  LET r == cloneFields(h, s) IN
         /\ IsHeap(r.heap) /\ Within(r.slice, r.heap)
         /\ Content(r.heap, r.slice) = Content(h, s) /\ r.slice.len = s.len
<1> DEFINE r == cloneFields(h, s)
           c == Content(h, s)
<1>0. IsSeq(c) /\ Len(c) = s.len /\ s.len \in Nat /\ DOMAIN c = 1..s.len
  BY ContentIs
<1>1. IsSeq(h) /\ Len(h) \in Nat /\ DOMAIN h = 1..Len(h) /\ \A a \in DOMAIN h : IsSeq(h[a])
  BY SeqIs DEF IsHeap
<1>2. CASE s.len = 0
  <2>1. r = [heap |-> h, slice |-> Nil]
    BY <1>2 DEF cloneFields
  <2>2. Nil.len = 0 /\ Within(Nil, h)
    BY DEF Nil, Within, IsSlice
  <2>3. Content(h, Nil) = Content(h, s)
    BY <1>2 DEF Content, Nil
  <2> QED
    BY <1>2, <2>1, <2>2, <2>3
<1>3. CASE s.len # 0
  <2>1. r = [heap |-> Append(h, c), slice |-> [arr |-> Len(h) + 1, len |-> s.len]]
    BY <1>0, <1>3 DEF cloneFields, Alloc
  <2> HIDE DEF r, c
  <2>2. /\ IsSeq(r.heap) /\ DOMAIN r.heap = 1..Len(h) + 1 /\ r.heap[Len(h) + 1] = c
        /\ \A a \in DOMAIN h : r.heap[a] = h[a]
    BY <1>1, <2>1, AppendIsSeq
  <2>3. r.slice = [arr |-> Len(h) + 1, len |-> s.len]
    BY <2>1
  <2>4. IsHeap(r.heap)
    BY <1>0, <1>1, <2>2 DEF IsHeap
  <2>5. Within(r.slice, r.heap)
    BY <1>0, <1>1, <2>2, <2>3 DEF Within, IsSlice
  <2>6. Content(r.heap, r.slice) = c
    <3>1. /\ IsSeq(Content(r.heap, r.slice)) /\ DOMAIN Content(r.heap, r.slice) = 1..s.len
          /\ \A i \in 1..s.len : Content(r.heap, r.slice)[i] = c[i]
      BY <2>2, <2>3, <2>4, <2>5, ContentIs
    <3> QED
      BY <1>0, <3>1, SameSeq
  <2> QED
    BY <2>3, <2>4, <2>5, <2>6 DEF r, c
<1> QED
  BY <1>2, <1>3

-----------------------------------------------------------------------------
(* Induction over numbers. *)

Below == {p \in Nat \X Nat : p[1] < p[2]}

LEMMA Least ==
  ASSUME NEW S \in SUBSET Nat, S # {}
  PROVE  \E n \in S : \A m \in S : n <= m
<1>0. IsWellFoundedOn(Below, Nat)
  BY NatLessThanWellFounded DEF OpToRel, Below
<1>1. PICK n \in S : \A m \in S : ~(<<m, n>> \in Below)
  BY <1>0, WFMin
<1>2. ASSUME NEW m \in S PROVE n <= m
  <2>1. <<m, n>> \in Nat \X Nat /\ <<m, n>>[1] = m /\ <<m, n>>[2] = n
    OBVIOUS
  <2>2. ~(m < n)
    BY <1>1, <2>1 DEF Below
  <2> QED
    BY <2>2
<1> QED
  BY <1>2

\* Induction, over a set of numbers instead of an operator.
LEMMA SetInduction ==
  ASSUME NEW S \in SUBSET Nat, 0 \in S, \A n \in S : n + 1 \in S
  PROVE  S = Nat
<1>1. SUFFICES ASSUME Nat \ S # {} PROVE FALSE
  OBVIOUS
<1>2. PICK n \in Nat \ S : \A m \in Nat \ S : n <= m
  BY <1>1, Least
<1>3. n # 0 /\ n - 1 \in Nat /\ n - 1 \notin Nat \ S
  BY <1>2
<1>4. n - 1 + 1 \in S
  BY <1>3
<1> QED
  BY <1>2, <1>3, <1>4

-----------------------------------------------------------------------------
(* The redaction of a value. *)

LEMMA NestingIs ==
  /\ Depth \in Nat /\ DOMAIN Nesting = 1..Depth
  /\ \A v : v \in Samples <=> \E d \in 1..Depth : v \in Nesting[d]
<1>1. IsSeq(Nesting)
  BY NestingAssumption DEF IsSeq
<1> QED
  BY <1>1, SeqIs DEF Depth, Samples

Holds(v) == v.kind \in {"map", "list"}

Kept(v) == [kind |-> v.kind, items |-> [k \in DOMAIN v.items |-> v.items[k]]]

\* A container is made of what is less deep.
LEMMA ContainerIs ==
  ASSUME NEW d \in 1..Depth, NEW v \in Nesting[d], Holds(v)
  PROVE  /\ v = Kept(v)
         /\ v.kind = "list" => \A k \in DOMAIN v.items : k \in Nat /\ k # 0
         /\ \A k \in DOMAIN v.items : d - 1 \in 1..Depth /\ \E c \in 1..d - 1 : v.items[k] \in Nesting[c]
<1>1. d \in DOMAIN Nesting /\ Depth \in Nat
  BY NestingIs
<1>2. /\ v = Kept(v)
      /\ v.kind = "list" => DOMAIN v.items \subseteq Nat \ {0}
      /\ \A k \in DOMAIN v.items : \E c \in 1..d - 1 : v.items[k] \in Nesting[c]
  BY <1>1, NestingAssumption DEF Holds, Kept
<1> QED
  BY <1>1, <1>2

LEMMA ItemsAre ==
  ASSUME NEW v \in Samples, Holds(v)
  PROVE  v = Kept(v) /\ \A k \in DOMAIN v.items : v.items[k] \in Samples
<1>1. PICK d \in 1..Depth : v \in Nesting[d]
  BY NestingIs
<1>2. v = Kept(v) /\ \A k \in DOMAIN v.items : \E c \in 1..d - 1 : v.items[k] \in Nesting[c]
  BY <1>1, ContainerIs
<1>3. ASSUME NEW k \in DOMAIN v.items PROVE v.items[k] \in Samples
  <2>1. PICK c \in 1..d - 1 : v.items[k] \in Nesting[c]
    BY <1>2
  <2>2. c \in 1..Depth
    BY NestingIs
  <2> QED
    BY <2>1, <2>2, NestingIs
<1> QED
  BY <1>2, <1>3

\* w tells what becomes of values when their first n levels are redacted.
WalksTo(w, ci, n) ==
  w = [d \in 0..n |-> [v \in Samples |-> IF d = 0 THEN v ELSE RedactNested(ci, v, w[d - 1])]]

LEMMA WalksToIs ==
  ASSUME NEW w, NEW ci, NEW n \in Nat, WalksTo(w, ci, n)
  PROVE  /\ \A v \in Samples : w[0][v] = v
         /\ \A d \in 1..n : w[d] = [v \in Samples |-> RedactNested(ci, v, w[d - 1])]
<1> DEFINE e(d) == [v \in Samples |-> IF d = 0 THEN v ELSE RedactNested(ci, v, w[d - 1])]
<1>1. w = [d \in 0..n |-> e(d)]
  BY DEF WalksTo
<1>2. \A d \in 0..n : w[d] = e(d)
  <2> HIDE DEF e
  <2> QED
    BY <1>1
<1>3. w[0] = e(0)
  BY <1>2
<1>4. ASSUME NEW d \in 1..n PROVE w[d] = [v \in Samples |-> RedactNested(ci, v, w[d - 1])]
  <2>1. d \in 0..n /\ d # 0
    OBVIOUS
  <2> QED
    BY <1>2, <2>1
<1> QED
  BY <1>3, <1>4

LEMMA WalkIs ==
  ASSUME NEW ci
  PROVE  WalksTo(Walk(ci), ci, Depth)
<1> DEFINE S == {n \in Nat : \E w : WalksTo(w, ci, n)}
<1>1. 0 \in S
  <2>1. WalksTo([d \in 0..0 |-> [v \in Samples |-> v]], ci, 0)
    <3>1. \A d \in 0..0 : d = 0
      OBVIOUS
    <3> QED
      BY <3>1 DEF WalksTo
  <2> QED
    BY <2>1
<1>2. ASSUME NEW n \in S PROVE n + 1 \in S
  <2>1. n \in Nat
    OBVIOUS
  <2>2. PICK w : WalksTo(w, ci, n)
    OBVIOUS
  <2> DEFINE body(d, f) == [v \in Samples |-> IF d = 0 THEN v ELSE RedactNested(ci, v, f[d - 1])]
             last == [v \in Samples |-> RedactNested(ci, v, w[n])]
             g == [d \in 0..n + 1 |-> IF d = n + 1 THEN last ELSE w[d]]
  <2>3. \A d \in 0..n : w[d] = body(d, w)
    <3>1. w = [d \in 0..n |-> body(d, w)]
      BY <2>2 DEF WalksTo
    <3> HIDE DEF body
    <3> QED
      BY <3>1
  <2>4. g[n + 1] = last /\ \A d \in 0..n : g[d] = w[d]
    BY <2>1
  <2>5. g = [d \in 0..n + 1 |-> g[d]]
    OBVIOUS
  <2> HIDE DEF g
  <2>6. ASSUME NEW d \in 0..n + 1 PROVE g[d] = body(d, g)
    <3>1. CASE d = 0
      <4>1. g[d] = body(d, w)
        BY <2>1, <2>3, <2>4, <3>1
      <4> QED
        BY <3>1, <4>1
    <3>2. CASE d \in 1..n
      <4>1. d \in 0..n /\ d - 1 \in 0..n
        BY <2>1, <3>2
      <4>2. g[d] = body(d, w) /\ g[d - 1] = w[d - 1]
        BY <2>3, <2>4, <4>1
      <4> QED
        BY <4>2
    <3>3. CASE d = n + 1
      <4>1. d - 1 = n /\ n \in 0..n /\ d # 0
        BY <2>1, <3>3
      <4>2. g[d] = last /\ g[d - 1] = w[n]
        BY <2>4, <3>3, <4>1
      <4> QED
        BY <4>1, <4>2
    <3> QED
      BY <2>1, <3>1, <3>2, <3>3
  <2>7. g = [d \in 0..n + 1 |-> body(d, g)]
    <3> HIDE DEF body
    <3> QED
      BY <2>5, <2>6
  <2>8. WalksTo(g, ci, n + 1)
    BY <2>7 DEF WalksTo
  <2> QED
    BY <2>1, <2>8
<1>3. S = Nat
  <2>1. S \in SUBSET Nat
    OBVIOUS
  <2> HIDE DEF S
  <2> QED
    BY <1>1, <1>2, <2>1, SetInduction
<1>4. PICK w : WalksTo(w, ci, Depth)
  BY <1>3, NestingIs
<1>5. Walk(ci) = CHOOSE f : WalksTo(f, ci, Depth)
  BY DEF Walk, WalksTo
<1> QED
  BY <1>4, <1>5

\* A value becomes r, its items what below says.
Becomes(ci, v, below, r) ==
  /\ ~Holds(v) => r = v
  /\ Holds(v) =>
       /\ r = Kept(r) /\ r.kind = v.kind /\ DOMAIN r.items = DOMAIN v.items
       /\ v.kind = "map" => \A k \in DOMAIN v.items :
            r.items[k] = IF ShouldRedact(ci, k) THEN Mask ELSE below[v.items[k]]
       /\ v.kind = "list" => \A k \in DOMAIN v.items : r.items[k] = below[v.items[k]]

LEMMA RedactNestedIs ==
  ASSUME NEW ci, NEW v \in Samples, NEW below, NEW r, r = RedactNested(ci, v, below)
  PROVE  Becomes(ci, v, below, r)
<1> DEFINE masked == [k \in DOMAIN v.items |-> IF ShouldRedact(ci, k) THEN Mask ELSE below[v.items[k]]]
           moved == [k \in DOMAIN v.items |-> below[v.items[k]]]
<1>1. CASE ~Holds(v)
  BY <1>1 DEF RedactNested, Holds, Becomes
<1>2. CASE v.kind = "map"
  <2>1. v = Kept(v) /\ Holds(v) /\ v.kind # "list"
    BY <1>2, ItemsAre DEF Holds
  <2>2. r = [v EXCEPT !.items = masked]
    BY <1>2 DEF RedactNested
  <2>3. r = [kind |-> v.kind, items |-> masked]
    BY <2>1, <2>2 DEF Kept
  <2> QED
    BY <2>1, <2>3 DEF Kept, Becomes
<1>3. CASE v.kind = "list"
  <2>1. v = Kept(v) /\ Holds(v) /\ v.kind # "map"
    BY <1>3, ItemsAre DEF Holds
  <2>2. r = [v EXCEPT !.items = moved]
    BY <1>3 DEF RedactNested
  <2>3. r = [kind |-> v.kind, items |-> moved]
    BY <2>1, <2>2 DEF Kept
  <2> QED
    BY <2>1, <2>3 DEF Kept, Becomes
<1> QED
  BY <1>1, <1>2, <1>3 DEF Holds, Becomes

LEMMA SameItems ==
  ASSUME NEW v, NEW r, v = Kept(v), r = Kept(r), r.kind = v.kind, DOMAIN r.items = DOMAIN v.items,
         \A k \in DOMAIN v.items : r.items[k] = v.items[k]
  PROVE  r = v
<1> DEFINE old == [k \in DOMAIN v.items |-> v.items[k]]
           new == [k \in DOMAIN r.items |-> r.items[k]]
<1>1. new = old
  OBVIOUS
<1>2. v = [kind |-> v.kind, items |-> old] /\ r = [kind |-> r.kind, items |-> new]
  BY DEF Kept
<1> QED
  BY <1>1, <1>2

\* A value without items stays what it is.
LEMMA WalkOfEnd ==
  ASSUME NEW ci, NEW w, WalksTo(w, ci, Depth), NEW d \in 0..Depth, NEW v \in Samples, ~HasItems(v)
  PROVE  w[d][v] = v
<1>0. Depth \in Nat
  BY NestingIs
<1>2. CASE d = 0
  BY <1>0, <1>2, WalksToIs
<1>3. CASE d \in 1..Depth
  <2>1. w[d] = [x \in Samples |-> RedactNested(ci, x, w[d - 1])]
    BY <1>0, <1>3, WalksToIs
  <2> DEFINE r == w[d][v]
  <2>2. r = RedactNested(ci, v, w[d - 1])
    BY <2>1
  <2> HIDE DEF r
  <2>5. Becomes(ci, v, w[d - 1], r)
    BY <2>2, RedactNestedIs
  <2>3. CASE ~Holds(v)
    BY <2>3, <2>5 DEF r, Becomes
  <2>4. CASE Holds(v)
    <3>1. v = Kept(v) /\ DOMAIN v.items = {}
      BY <2>4, ItemsAre DEF HasItems, Holds
    <3>2. r = Kept(r) /\ r.kind = v.kind /\ DOMAIN r.items = DOMAIN v.items
      BY <2>4, <2>5 DEF Becomes
    <3>3. \A k \in DOMAIN v.items : r.items[k] = v.items[k]
      BY <3>1
    <3>4. r = v
      BY <3>1, <3>2, <3>3, SameItems
    <3> QED
      BY <3>4 DEF r
  <2> QED
    BY <2>3, <2>4
<1> QED
  BY <1>0, <1>2, <1>3

\* What has been redacted is not changed again.
LEMMA WalkTwice ==
  ASSUME NEW ci, NEW w, WalksTo(w, ci, Depth)
  PROVE  \A d \in 0..Depth : \A v \in Samples :
           w[d][v] \in Samples => w[d][w[d][v]] = w[d][v]
<1> DEFINE P(d) == \A v \in Samples : w[d][v] \in Samples => w[d][w[d][v]] = w[d][v]
           S == {d \in Nat : d <= Depth => P(d)}
<1>0. Depth \in Nat
  BY NestingIs
<1>2. /\ \A v \in Samples : w[0][v] = v
      /\ \A d \in 1..Depth : w[d] = [v \in Samples |-> RedactNested(ci, v, w[d - 1])]
  BY <1>0, WalksToIs
<1>3. 0 \in S
  BY <1>2
<1>4. ASSUME NEW d \in S PROVE d + 1 \in S
  <2>1. SUFFICES ASSUME d + 1 <= Depth, NEW v \in Samples, w[d + 1][v] \in Samples
                 PROVE  w[d + 1][w[d + 1][v]] = w[d + 1][v]
    OBVIOUS
  <2>2. d + 1 \in 1..Depth /\ d + 1 - 1 = d /\ d <= Depth /\ P(d)
    BY <1>0, <2>1
  <2> DEFINE r == w[d + 1][v]
             s == w[d + 1][r]
  <2>3. w[d + 1] = [x \in Samples |-> RedactNested(ci, x, w[d])]
    BY <1>2, <2>2
  <2>4. r = RedactNested(ci, v, w[d]) /\ s = RedactNested(ci, r, w[d]) /\ r \in Samples
    BY <2>1, <2>3
  <2> HIDE DEF r, s
  <2>7. Becomes(ci, v, w[d], r) /\ Becomes(ci, r, w[d], s)
    BY <2>4, RedactNestedIs
  <2>5. CASE ~Holds(v)
    <3>1. r = v /\ s = r
      BY <2>5, <2>7 DEF Becomes
    <3> QED
      BY <3>1 DEF r, s
  <2>6. CASE Holds(v)
    <3>1. /\ r.kind = v.kind /\ DOMAIN r.items = DOMAIN v.items
          /\ v.kind = "map" => \A k \in DOMAIN v.items :
               r.items[k] = IF ShouldRedact(ci, k) THEN Mask ELSE w[d][v.items[k]]
          /\ v.kind = "list" => \A k \in DOMAIN v.items : r.items[k] = w[d][v.items[k]]
      BY <2>6, <2>7 DEF Becomes
    <3>2. Holds(r)
      BY <2>6, <3>1 DEF Holds
    <3>3. /\ s = Kept(s) /\ s.kind = r.kind /\ DOMAIN s.items = DOMAIN r.items
          /\ r.kind = "map" => \A k \in DOMAIN r.items :
               s.items[k] = IF ShouldRedact(ci, k) THEN Mask ELSE w[d][r.items[k]]
          /\ r.kind = "list" => \A k \in DOMAIN r.items : s.items[k] = w[d][r.items[k]]
      BY <2>7, <3>2 DEF Becomes
    <3>4. r = Kept(r) /\ \A k \in DOMAIN r.items : r.items[k] \in Samples
      BY <2>4, <3>2, ItemsAre
    <3>5. \A k \in DOMAIN v.items : v.items[k] \in Samples
      BY <2>6, ItemsAre
    <3>6. ASSUME NEW k \in DOMAIN r.items PROVE s.items[k] = r.items[k]
      <4>1. k \in DOMAIN v.items /\ v.items[k] \in Samples /\ r.items[k] \in Samples
        BY <3>1, <3>4, <3>5
      <4>2. w[d][v.items[k]] \in Samples => w[d][w[d][v.items[k]]] = w[d][v.items[k]]
        BY <2>2, <4>1
      <4>3. v.kind = "map" \/ v.kind = "list"
        BY <2>6 DEF Holds
      <4>4. CASE v.kind = "map" /\ ShouldRedact(ci, k)
        BY <3>1, <3>3, <4>1, <4>4
      <4>5. CASE r.items[k] = w[d][v.items[k]] /\ s.items[k] = w[d][r.items[k]]
        BY <4>1, <4>2, <4>5
      <4> QED
        BY <3>1, <3>3, <4>1, <4>3, <4>4, <4>5
    <3>7. s = r
      BY <3>3, <3>4, <3>6, SameItems
    <3> QED
      BY <3>7 DEF r, s
  <2> QED
    BY <2>5, <2>6
<1>5. S = Nat
  <2>1. S \in SUBSET Nat
    OBVIOUS
  <2> HIDE DEF S
  <2> QED
    BY <1>3, <1>4, <2>1, SetInduction
<1>6. ASSUME NEW d \in 0..Depth PROVE P(d)
  <2>1. d \in Nat /\ d <= Depth
    BY <1>0
  <2> QED
    BY <1>5, <2>1
<1> QED
  BY <1>6

LEMMA RedactTwice ==
  ASSUME NEW ci, NEW key, NEW v \in Samples, RedactValue(ci, key, v) \in Samples
  PROVE  RedactValue(ci, key, RedactValue(ci, key, v)) = RedactValue(ci, key, v)
<1>1. CASE ShouldRedact(ci, key)
  BY <1>1 DEF RedactValue
<1>2. CASE ~ShouldRedact(ci, key)
  <2>1. Depth \in 0..Depth
    BY NestingIs
  <2>2. /\ RedactValue(ci, key, v) = Walk(ci)[Depth][v]
        /\ \A x : RedactValue(ci, key, x) = Walk(ci)[Depth][x]
    BY <1>2 DEF RedactValue
  <2> QED
    BY <2>1, <2>2, WalkIs, WalkTwice
<1> QED
  BY <1>1, <1>2

-----------------------------------------------------------------------------
(* The paths into a value. *)

\* b tells what is behind the first n steps.
PathsTo(b, key, v, n) ==
  b = [m \in 0..n |-> IF m = 0 THEN {[path |-> <<Step("map", key)>>, at |-> v]}
                              ELSE UNION {Into(x) : x \in b[m - 1]}]

LEMMA PathsToIs ==
  ASSUME NEW b, NEW key, NEW v, NEW n \in Nat, PathsTo(b, key, v, n)
  PROVE  /\ b[0] = {[path |-> <<Step("map", key)>>, at |-> v]}
         /\ \A m \in 1..n : b[m] = UNION {Into(x) : x \in b[m - 1]}
<1> DEFINE e(m) == IF m = 0 THEN {[path |-> <<Step("map", key)>>, at |-> v]}
                              ELSE UNION {Into(x) : x \in b[m - 1]}
<1>1. b = [m \in 0..n |-> e(m)]
  BY DEF PathsTo
<1>2. \A m \in 0..n : b[m] = e(m)
  <2> HIDE DEF e
  <2> QED
    BY <1>1
<1>3. b[0] = e(0)
  <2> HIDE DEF e
  <2> QED
    BY <1>2
<1>4. ASSUME NEW m \in 1..n PROVE b[m] = UNION {Into(x) : x \in b[m - 1]}
  <2>1. m \in 0..n /\ m # 0
    OBVIOUS
  <2> QED
    BY <1>2, <2>1
<1> QED
  BY <1>3, <1>4

LEMMA BehindIs ==
  ASSUME NEW key, NEW v
  PROVE  PathsTo(Behind(key, v), key, v, Depth)
<1> DEFINE root == {[path |-> <<Step("map", key)>>, at |-> v]}
           S == {n \in Nat : \E b : PathsTo(b, key, v, n)}
<1>1. 0 \in S
  <2>1. PathsTo([m \in 0..0 |-> root], key, v, 0)
    <3>1. \A m \in 0..0 : m = 0
      OBVIOUS
    <3> QED
      BY <3>1 DEF PathsTo
  <2> QED
    BY <2>1
<1>2. ASSUME NEW n \in S PROVE n + 1 \in S
  <2>1. n \in Nat
    OBVIOUS
  <2>2. PICK b : PathsTo(b, key, v, n)
    OBVIOUS
  <2> DEFINE body(m, f) == IF m = 0 THEN root ELSE UNION {Into(x) : x \in f[m - 1]}
             last == UNION {Into(x) : x \in b[n]}
             g == [m \in 0..n + 1 |-> IF m = n + 1 THEN last ELSE b[m]]
  <2>3. \A m \in 0..n : b[m] = body(m, b)
    <3>1. b = [m \in 0..n |-> body(m, b)]
      BY <2>2 DEF PathsTo
    <3> HIDE DEF body
    <3> QED
      BY <3>1
  <2>4. g[n + 1] = last /\ \A m \in 0..n : g[m] = b[m]
    BY <2>1
  <2>5. g = [m \in 0..n + 1 |-> g[m]]
    OBVIOUS
  <2> HIDE DEF g
  <2>6. ASSUME NEW m \in 0..n + 1 PROVE g[m] = body(m, g)
    <3>1. CASE m = 0
      <4>1. m \in 0..n
        BY <2>1, <3>1
      <4>2. g[m] = body(m, b)
        <5> HIDE DEF body
        <5> QED
          BY <2>3, <2>4, <4>1
      <4> QED
        BY <3>1, <4>2
    <3>2. CASE m \in 1..n
      <4>1. m \in 0..n /\ m - 1 \in 0..n
        BY <2>1, <3>2
      <4>2. g[m] = body(m, b) /\ g[m - 1] = b[m - 1]
        BY <2>3, <2>4, <4>1
      <4> QED
        BY <4>2
    <3>3. CASE m = n + 1
      <4>1. m - 1 = n /\ n \in 0..n /\ m # 0
        BY <2>1, <3>3
      <4>2. g[m] = last /\ g[m - 1] = b[n]
        BY <2>4, <3>3, <4>1
      <4> QED
        BY <4>1, <4>2
    <3> QED
      BY <2>1, <3>1, <3>2, <3>3
  <2>7. g = [m \in 0..n + 1 |-> body(m, g)]
    <3> HIDE DEF body
    <3> QED
      BY <2>5, <2>6
  <2>8. PathsTo(g, key, v, n + 1)
    BY <2>7 DEF PathsTo
  <2> QED
    BY <2>1, <2>8
<1>3. S = Nat
  <2>1. S \in SUBSET Nat
    OBVIOUS
  <2> HIDE DEF S
  <2> QED
    BY <1>1, <1>2, <2>1, SetInduction
<1>4. PICK b : PathsTo(b, key, v, Depth)
  BY <1>3, NestingIs
<1>5. Behind(key, v) = CHOOSE f : PathsTo(f, key, v, Depth)
  BY DEF Behind, PathsTo
<1> QED
  BY <1>4, <1>5

Covers(ci, path) == \E i \in DOMAIN path : Sensitive(ci, path[i])

FirstAt(ci, path, i) == Sensitive(ci, path[i]) /\ \A j \in 1..i - 1 : ~Sensitive(ci, path[j])

First(ci, path) == CHOOSE i \in DOMAIN path : FirstAt(ci, path, i)

LEMMA CoveredIs ==
  ASSUME NEW ci, NEW x
  PROVE  Covered(ci, x) = IF Covers(ci, x.path)
                            THEN [path |-> SubSeq(x.path, 1, First(ci, x.path)), at |-> Mask] ELSE x
BY DEF Covered, Covers, First, FirstAt

LEMMA FirstIs ==
  ASSUME NEW ci, NEW path, IsSeq(path), Covers(ci, path)
  PROVE  First(ci, path) \in 1..Len(path) /\ FirstAt(ci, path, First(ci, path))
<1> DEFINE S == {i \in DOMAIN path : Sensitive(ci, path[i])}
<1>1. Len(path) \in Nat /\ DOMAIN path = 1..Len(path)
  BY SeqIs
<1>2. S \in SUBSET Nat /\ S # {}
  BY <1>1 DEF Covers
<1>3. PICK i \in S : \A j \in S : i <= j
  <2> HIDE DEF S
  <2> QED
    BY <1>2, Least
<1>4. i \in DOMAIN path /\ FirstAt(ci, path, i)
  <2>1. ASSUME NEW j \in 1..i - 1 PROVE ~Sensitive(ci, path[j])
    BY <1>1, <1>3
  <2> QED
    BY <1>3, <2>1 DEF FirstAt
<1>5. First(ci, path) \in DOMAIN path /\ FirstAt(ci, path, First(ci, path))
  BY <1>4 DEF First
<1> QED
  BY <1>1, <1>5

\* Two paths that agree up to the first sensitive key of one have it in common.
LEMMA CoveredSame ==
  ASSUME NEW ci, NEW x, NEW y, IsSeq(x.path), IsSeq(y.path), Covers(ci, x.path),
         First(ci, x.path) <= Len(y.path),
         \A i \in 1..First(ci, x.path) : y.path[i] = x.path[i]
  PROVE  Covers(ci, y.path) /\ Covered(ci, y) = Covered(ci, x)
<1> DEFINE f == First(ci, x.path)
           g == First(ci, y.path)
<1>1. f \in 1..Len(x.path) /\ FirstAt(ci, x.path, f)
  BY FirstIs
<1>2. /\ Len(x.path) \in Nat /\ DOMAIN x.path = 1..Len(x.path)
      /\ Len(y.path) \in Nat /\ DOMAIN y.path = 1..Len(y.path)
  BY SeqIs
<1>3. f \in 1..f /\ f \in DOMAIN y.path /\ y.path[f] = x.path[f]
  BY <1>1, <1>2
<1>4. Covers(ci, y.path)
  BY <1>1, <1>3 DEF Covers, FirstAt
<1>5. g \in 1..Len(y.path) /\ FirstAt(ci, y.path, g)
  BY <1>4, FirstIs
<1> HIDE DEF f, g
<1>6. ~(f < g)
  <2>1. f < g => f \in 1..g - 1
    BY <1>1, <1>2, <1>5
  <2> QED
    BY <1>1, <1>3, <1>5, <2>1 DEF FirstAt
<1>7. ~(g < f)
  <2>1. g < f => g \in 1..f - 1 /\ g \in 1..f
    BY <1>1, <1>2, <1>5
  <2> QED
    BY <1>1, <1>5, <2>1 DEF FirstAt, f
<1>8. f = g
  BY <1>1, <1>2, <1>5, <1>6, <1>7
<1>9. SubSeq(x.path, 1, f) = SubSeq(y.path, 1, f)
  <2>1. f \in 0..Len(x.path) /\ f \in 0..Len(y.path)
    BY <1>1, <1>2, <1>5, <1>8
  <2> DEFINE s == SubSeq(x.path, 1, f)
             t == SubSeq(y.path, 1, f)
  <2>2. /\ IsSeq(s) /\ Len(s) = f /\ \A i \in 1..f : s[i] = x.path[i]
        /\ IsSeq(t) /\ Len(t) = f /\ \A i \in 1..f : t[i] = y.path[i]
    BY <2>1, SubSeqIs
  <2> HIDE DEF s, t
  <2>3. DOMAIN s = 1..f /\ DOMAIN t = 1..f
    BY <2>2, SeqIs
  <2>4. \A i \in 1..f : y.path[i] = x.path[i]
    BY DEF f
  <2>5. \A i \in DOMAIN s : s[i] = t[i]
    BY <2>2, <2>3, <2>4
  <2>6. s = t
    BY <2>2, <2>3, <2>5, SameSeq
  <2> QED
    BY <2>6 DEF s, t
<1> QED
  BY <1>4, <1>8, <1>9, CoveredIs DEF f, g

LEMMA CoveredTwice ==
  ASSUME NEW ci, NEW x, IsSeq(x.path)
  PROVE  Covered(ci, Covered(ci, x)) = Covered(ci, x)
<1>1. CASE ~Covers(ci, x.path)
  BY <1>1, CoveredIs
<1>2. CASE Covers(ci, x.path)
  <2> DEFINE f == First(ci, x.path)
             y == Covered(ci, x)
  <2>1. f \in 1..Len(x.path) /\ Len(x.path) \in Nat
    BY <1>2, FirstIs, SeqIs
  <2>2. y.path = SubSeq(x.path, 1, f) /\ f \in 0..Len(x.path)
    BY <1>2, <2>1, CoveredIs
  <2>3. /\ IsSeq(y.path) /\ Len(y.path) = f
        /\ \A i \in 1..f : y.path[i] = x.path[i]
    BY <2>2, SubSeqIs
  <2>4. f <= Len(y.path)
    BY <2>1, <2>3
  <2> HIDE DEF y
  <2>5. Covered(ci, y) = Covered(ci, x)
    BY <1>2, <2>3, <2>4, CoveredSame
  <2> QED
    BY <2>5 DEF y
<1> QED
  BY <1>1, <1>2

\* What a way into a sample has reached, d levels or less above its end.
Reached(x, d) ==
  /\ x = [path |-> x.path, at |-> x.at] /\ IsSeq(x.path) /\ x.at \in Samples
  /\ HasItems(x.at) => \E e \in 1..d : e \in 1..Depth /\ x.at \in Nesting[e]

OneOn(x, k) == [path |-> Append(x.path, Step(x.at.kind, k)), at |-> x.at.items[k]]

LEMMA IntoIs ==
  ASSUME NEW x
  PROVE  Into(x) = IF HasItems(x.at) THEN {OneOn(x, k) : k \in DOMAIN x.at.items} ELSE {x}
BY DEF Into, OneOn

LEMMA IntoReached ==
  ASSUME NEW d \in Nat, NEW x, Reached(x, d + 1), NEW y \in Into(x)
  PROVE  Reached(y, d)
<1>1. CASE ~HasItems(x.at)
  BY <1>1, IntoIs DEF Reached
<1>2. CASE HasItems(x.at)
  <2>1. PICK k \in DOMAIN x.at.items : y = OneOn(x, k)
    BY <1>2, IntoIs
  <2>2. PICK e \in 1..d + 1 : e \in 1..Depth /\ x.at \in Nesting[e]
    BY <1>2 DEF Reached
  <2>3. Holds(x.at)
    BY <1>2 DEF Holds, HasItems
  <2>4. PICK c \in 1..e - 1 : x.at.items[k] \in Nesting[c]
    BY <2>2, <2>3, ContainerIs
  <2>5. c \in 1..d /\ c \in 1..Depth
    BY <2>2, NestingIs
  <2>6. y = [path |-> y.path, at |-> y.at] /\ y.at \in Nesting[c]
    BY <2>1, <2>4 DEF OneOn
  <2>7. y.at \in Samples
    BY <2>5, <2>6, NestingIs
  <2>8. IsSeq(y.path)
    <3>1. IsSeq(x.path) /\ y.path = Append(x.path, Step(x.at.kind, k))
      BY <2>1 DEF Reached, OneOn
    <3> QED
      BY <3>1, AppendIsSeq
  <2> QED
    BY <2>5, <2>6, <2>7, <2>8 DEF Reached
<1> QED
  BY <1>1, <1>2

\* What becomes of it: the mask if there is a sensitive key on the way.
Turned(ci, w, d, x) ==
  IF Covers(ci, x.path) THEN Covered(ci, x) ELSE [path |-> x.path, at |-> w[d][x.at]]

LEMMA CoversNext ==
  ASSUME NEW ci, NEW path, IsSeq(path), NEW step
  PROVE  /\ Covers(ci, Append(path, step)) <=> Covers(ci, path) \/ Sensitive(ci, step)
         /\ ~Covers(ci, path) /\ Sensitive(ci, step) =>
              \A x : x.path = Append(path, step) => Covered(ci, x) = [path |-> x.path, at |-> Mask]
<1> DEFINE p == Append(path, step)
           n == Len(path) + 1
<1>1. Len(path) \in Nat /\ DOMAIN path = 1..Len(path)
  BY SeqIs
<1>2. /\ IsSeq(p) /\ Len(p) = n /\ DOMAIN p = 1..n
      /\ p[n] = step /\ \A i \in 1..Len(path) : p[i] = path[i]
  BY AppendIsSeq, SeqIs
<1> HIDE DEF p
<1>3. Covers(ci, p) <=> Covers(ci, path) \/ Sensitive(ci, step)
  BY <1>1, <1>2 DEF Covers
<1>4. ASSUME ~Covers(ci, path), Sensitive(ci, step), NEW x, x.path = p
      PROVE  Covered(ci, x) = [path |-> x.path, at |-> Mask]
  <2> DEFINE f == First(ci, p)
  <2>1. Covers(ci, p)
    BY <1>3, <1>4
  <2>2. f \in 1..n /\ FirstAt(ci, p, f)
    BY <1>2, <2>1, FirstIs
  <2>3. f = n
    BY <1>1, <1>2, <1>4, <2>2 DEF Covers, FirstAt
  <2>4. SubSeq(p, 1, n) = p
    <3> DEFINE s == SubSeq(p, 1, n)
    <3>1. n \in 0..Len(p)
      BY <1>1, <1>2
    <3>2. IsSeq(s) /\ Len(s) = n /\ \A i \in 1..n : s[i] = p[i]
      BY <1>2, <3>1, SubSeqIs
    <3> HIDE DEF s
    <3>3. DOMAIN s = DOMAIN p /\ \A i \in DOMAIN s : s[i] = p[i]
      BY <1>2, <3>2, SeqIs
    <3>4. s = p
      BY <1>2, <3>2, <3>3, SameSeq
    <3> QED
      BY <3>4 DEF s
  <2> QED
    BY <1>4, <2>1, <2>3, <2>4, CoveredIs
<1> QED
  BY <1>3, <1>4 DEF p

LEMMA IntoTurned ==
  ASSUME NEW ci, NEW w, WalksTo(w, ci, Depth), NEW d \in Nat, d + 1 <= Depth,
         NEW x, Reached(x, d + 1)
  PROVE  Into(Turned(ci, w, d + 1, x)) = {Turned(ci, w, d, y) : y \in Into(x)}
<1> DEFINE t == Turned(ci, w, d + 1, x)
<1>0. IsSeq(x.path) /\ x.at \in Samples /\ d + 1 \in 1..Depth /\ d \in 0..Depth /\ d + 1 - 1 = d
      /\ Depth \in Nat
  BY NestingIs DEF Reached
<1>1. CASE Covers(ci, x.path)
  <2>1. t = Covered(ci, x) /\ t.at = Mask
    BY <1>1, CoveredIs DEF Turned
  <2>2. Into(t) = {t}
    <3>1. ~HasItems(Mask)
      BY DEF HasItems, Mask
    <3> HIDE DEF t
    <3> QED
      BY <2>1, <3>1, IntoIs
  <2>3. ASSUME NEW y \in Into(x) PROVE Turned(ci, w, d, y) = t
    <3>1. CASE y = x
      BY <1>1, <2>1, <3>1 DEF Turned
    <3>2. CASE HasItems(x.at)
      <4>1. PICK k \in DOMAIN x.at.items : y = OneOn(x, k)
        BY <2>3, <3>2, IntoIs
      <4>2. y.path = Append(x.path, Step(x.at.kind, k))
        BY <4>1 DEF OneOn
      <4>3. First(ci, x.path) \in 1..Len(x.path)
        BY <1>0, <1>1, FirstIs
      <4>4. /\ IsSeq(y.path) /\ Len(x.path) \in Nat /\ Len(y.path) = Len(x.path) + 1
            /\ \A i \in 1..Len(x.path) : y.path[i] = x.path[i]
        BY <1>0, <4>2, AppendIsSeq, SeqIs
      <4>5. Covers(ci, y.path) /\ Covered(ci, y) = Covered(ci, x)
        BY <1>0, <1>1, <4>3, <4>4, CoveredSame
      <4> QED
        BY <2>1, <4>5 DEF Turned
    <3> QED
      BY <2>3, <3>1, <3>2, IntoIs
  <2>4. Into(x) # {}
    BY IntoIs DEF HasItems
  <2> HIDE DEF t
  <2>5. {Turned(ci, w, d, y) : y \in Into(x)} = {t}
    BY <2>3, <2>4
  <2> QED
    BY <2>2, <2>5 DEF t
<1>2. CASE ~Covers(ci, x.path) /\ ~HasItems(x.at)
  <2>1. w[d + 1][x.at] = x.at /\ w[d][x.at] = x.at
    BY <1>0, <1>2, WalkOfEnd
  <2>2. t = x /\ Turned(ci, w, d, x) = x
    BY <1>2, <2>1 DEF Turned, Reached
  <2> HIDE DEF t
  <2>3. Into(t) = {x} /\ Into(x) = {x}
    BY <1>2, <2>2, IntoIs
  <2> QED
    BY <2>2, <2>3 DEF t
<1>3. CASE ~Covers(ci, x.path) /\ HasItems(x.at)
  <2> DEFINE v == x.at
             r == w[d + 1][v]
  <2>1. t = [path |-> x.path, at |-> r]
    BY <1>3 DEF Turned
  <2>2. r = RedactNested(ci, v, w[d])
    <3>1. w[d + 1] = [u \in Samples |-> RedactNested(ci, u, w[d])]
      BY <1>0, WalksToIs
    <3> QED
      BY <1>0, <3>1
  <2> HIDE DEF r
  <2>3. Becomes(ci, v, w[d], r)
    BY <1>0, <2>2, RedactNestedIs
  <2>4. Holds(v)
    BY <1>3 DEF Holds, HasItems
  <2>5. r.kind = v.kind /\ DOMAIN r.items = DOMAIN v.items /\ HasItems(r)
    BY <1>3, <2>3, <2>4 DEF Becomes, HasItems
  <2>6. t.path = x.path /\ t.at = r
    BY <2>1
  <2> HIDE DEF t
  <2>7. Into(t) = {OneOn(t, k) : k \in DOMAIN v.items}
    BY <2>5, <2>6, IntoIs
  <2>8. Into(x) = {OneOn(x, k) : k \in DOMAIN v.items}
    BY <1>3, IntoIs
  <2>9. ASSUME NEW k \in DOMAIN v.items PROVE OneOn(t, k) = Turned(ci, w, d, OneOn(x, k))
    <3> DEFINE step == Step(v.kind, k)
               y == OneOn(x, k)
    <3>1. y.path = Append(x.path, step) /\ y.at = v.items[k]
      BY DEF OneOn
    <3>2. OneOn(t, k) = [path |-> y.path, at |-> r.items[k]]
      BY <2>5, <2>6, <3>1 DEF OneOn
    <3>3. Covers(ci, y.path) <=> Sensitive(ci, step)
      BY <1>0, <1>3, <3>1, CoversNext
    <3>4. Sensitive(ci, step) => Covered(ci, y) = [path |-> y.path, at |-> Mask]
      BY <1>0, <1>3, <3>1, CoversNext
    <3> HIDE DEF y
    <3>5. CASE v.kind = "map"
      <4>1. Sensitive(ci, step) <=> ShouldRedact(ci, k)
        BY <3>5 DEF Sensitive, Step
      <4>2. r.items[k] = IF ShouldRedact(ci, k) THEN Mask ELSE w[d][v.items[k]]
        BY <2>3, <2>4, <3>5 DEF Becomes
      <4> HIDE DEF step
      <4>3. CASE ShouldRedact(ci, k)
        BY <3>2, <3>3, <3>4, <4>1, <4>2, <4>3 DEF Turned, y
      <4>4. CASE ~ShouldRedact(ci, k)
        BY <3>1, <3>2, <3>3, <4>1, <4>2, <4>4 DEF Turned, y
      <4> QED
        BY <4>3, <4>4
    <3>6. CASE v.kind = "list"
      <4>1. PICK e \in 1..Depth : v \in Nesting[e]
        BY <1>0, NestingIs
      <4>2. k \in Nat /\ k # 0
        BY <2>4, <3>6, <4>1, ContainerIs
      <4>3. ~Sensitive(ci, step)
        BY <3>6, <4>2 DEF Sensitive, Step
      <4>4. r.items[k] = w[d][v.items[k]]
        BY <2>3, <2>4, <3>6 DEF Becomes
      <4> QED
        BY <3>1, <3>2, <3>3, <4>3, <4>4 DEF Turned, y
    <3> QED
      BY <2>4, <3>5, <3>6 DEF Holds
  <2>10. {Turned(ci, w, d, y) : y \in Into(x)} = {Turned(ci, w, d, OneOn(x, k)) : k \in DOMAIN v.items}
    BY <2>8
  <2> HIDE DEF v
  <2> QED
    BY <2>7, <2>9, <2>10 DEF t
<1> QED
  BY <1>1, <1>2, <1>3

\* The root is turned, and what is behind every step.
LEMMA LeavesRedacted ==
  ASSUME NEW ci, NEW key, NEW v \in Samples
  PROVE  /\ Leaves(key, RedactValue(ci, key, v)) = {Covered(ci, x) : x \in Leaves(key, v)}
         /\ \A x \in Leaves(key, v) : IsSeq(x.path)
<1>0. Depth \in Nat
  BY NestingIs
<1>1. PICK w : w = Walk(ci) /\ WalksTo(w, ci, Depth)
  BY WalkIs
<1>2. PICK a : a = Behind(key, v) /\ PathsTo(a, key, v, Depth)
  BY BehindIs
<1>3. PICK b : b = Behind(key, RedactValue(ci, key, v)) /\ PathsTo(b, key, RedactValue(ci, key, v), Depth)
  BY BehindIs
<1> DEFINE root == [path |-> <<Step("map", key)>>, at |-> v]
           P(m) == /\ \A x \in a[m] : Reached(x, Depth - m)
                   /\ b[m] = {Turned(ci, w, Depth - m, x) : x \in a[m]}
           S == {m \in Nat : m <= Depth => P(m)}
<1>4. 0 \in S
  <2>1. Depth - 0 = Depth
    BY <1>0
  <2>2. a[0] = {root} /\ b[0] = {[path |-> <<Step("map", key)>>, at |-> RedactValue(ci, key, v)]}
    BY <1>0, <1>2, <1>3, PathsToIs
  <2>3. root.path = <<Step("map", key)>> /\ root.at = v /\ root = [path |-> root.path, at |-> root.at]
    OBVIOUS
  <2> HIDE DEF root
  <2>4. IsSeq(root.path) /\ Len(root.path) = 1 /\ root.path[1] = Step("map", key) /\ DOMAIN root.path = 1..1
    BY <2>3, OneIsSeq, SeqIs
  <2>5. Reached(root, Depth)
    <3>1. \E e \in 1..Depth : v \in Nesting[e]
      BY NestingIs
    <3> QED
      BY <2>3, <2>4, <3>1 DEF Reached
  <2>6. Sensitive(ci, Step("map", key)) <=> ShouldRedact(ci, key)
    BY DEF Sensitive, Step
  <2>7. Covers(ci, root.path) <=> ShouldRedact(ci, key)
    <3>1. \A i : i \in 1..1 <=> i = 1
      OBVIOUS
    <3> QED
      BY <2>4, <2>6, <3>1 DEF Covers
  <2>8. Turned(ci, w, Depth, root) = [path |-> <<Step("map", key)>>, at |-> RedactValue(ci, key, v)]
    <3>1. CASE ShouldRedact(ci, key)
      <4>1. First(ci, root.path) = 1
        <5>1. First(ci, root.path) \in 1..Len(root.path)
          BY <2>4, <2>7, <3>1, FirstIs
        <5> QED
          BY <2>4, <5>1
      <4>2. SubSeq(root.path, 1, 1) = root.path
        <5> DEFINE s == SubSeq(root.path, 1, 1)
        <5>1. 1 \in 0..Len(root.path)
          BY <2>4
        <5>2. IsSeq(s) /\ Len(s) = 1 /\ \A i \in 1..1 : s[i] = root.path[i]
          BY <2>4, <5>1, SubSeqIs
        <5> HIDE DEF s
        <5>3. DOMAIN s = DOMAIN root.path /\ \A i \in DOMAIN s : s[i] = root.path[i]
          BY <2>4, <5>2, SeqIs
        <5>4. s = root.path
          BY <2>4, <5>2, <5>3, SameSeq
        <5> QED
          BY <5>4 DEF s
      <4> QED
        BY <2>3, <2>7, <3>1, <4>1, <4>2, CoveredIs DEF Turned, RedactValue
    <3>2. CASE ~ShouldRedact(ci, key)
      BY <1>1, <2>3, <2>7, <3>2 DEF Turned, RedactValue
    <3> QED
      BY <3>1, <3>2
  <2>9. P(0)
    BY <2>1, <2>2, <2>5, <2>8
  <2> QED
    BY <2>9
<1>5. ASSUME NEW m \in S PROVE m + 1 \in S
  <2>1. SUFFICES ASSUME m + 1 <= Depth PROVE P(m + 1)
    OBVIOUS
  <2> DEFINE d == Depth - (m + 1)
  <2>2. m \in Nat /\ d \in Nat /\ Depth - m = d + 1 /\ d + 1 <= Depth /\ m + 1 \in 1..Depth /\ m + 1 - 1 = m
    BY <1>0, <2>1
  <2>3. P(m)
    BY <1>0, <2>1, <2>2
  <2> HIDE DEF d
  <2>4. /\ \A x \in a[m] : Reached(x, d + 1)
        /\ b[m] = {Turned(ci, w, d + 1, x) : x \in a[m]}
    BY <2>2, <2>3
  <2>5. a[m + 1] = UNION {Into(x) : x \in a[m]} /\ b[m + 1] = UNION {Into(x) : x \in b[m]}
    <3>1. /\ \A i \in 1..Depth : a[i] = UNION {Into(x) : x \in a[i - 1]}
          /\ \A i \in 1..Depth : b[i] = UNION {Into(x) : x \in b[i - 1]}
      BY <1>0, <1>2, <1>3, PathsToIs
    <3> QED
      BY <2>2, <3>1
  <2>6. ASSUME NEW x \in a[m + 1] PROVE Reached(x, d)
    BY <2>2, <2>4, <2>5, IntoReached
  <2>7. \A x \in a[m] : Into(Turned(ci, w, d + 1, x)) = {Turned(ci, w, d, y) : y \in Into(x)}
    BY <1>1, <2>2, <2>4, IntoTurned
  <2>8. b[m + 1] = {Turned(ci, w, d, y) : y \in a[m + 1]}
    <3>1. ASSUME NEW z \in b[m + 1] PROVE \E y \in a[m + 1] : z = Turned(ci, w, d, y)
      <4>1. PICK x \in a[m] : z \in Into(Turned(ci, w, d + 1, x))
        BY <2>4, <2>5
      <4> QED
        BY <2>5, <2>7, <4>1
    <3>2. ASSUME NEW y \in a[m + 1] PROVE Turned(ci, w, d, y) \in b[m + 1]
      <4>1. PICK x \in a[m] : y \in Into(x)
        BY <2>5
      <4>2. Turned(ci, w, d, y) \in Into(Turned(ci, w, d + 1, x))
        BY <2>7, <4>1
      <4> QED
        BY <2>4, <2>5, <4>1, <4>2
    <3> QED
      BY <3>1, <3>2
  <2> QED
    BY <2>6, <2>8 DEF d
<1>6. S = Nat
  <2>1. S \in SUBSET Nat
    OBVIOUS
  <2> HIDE DEF S
  <2> QED
    BY <1>4, <1>5, <2>1, SetInduction
<1>7. P(Depth)
  BY <1>0, <1>6
<1>8. Depth - Depth = 0 /\ 0 \in 0..Depth
  BY <1>0
<1>9. \A x \in a[Depth] : Reached(x, 0)
  BY <1>7, <1>8
<1>10. ASSUME NEW x \in a[Depth] PROVE Turned(ci, w, 0, x) = Covered(ci, x)
  <2>1. x = [path |-> x.path, at |-> x.at] /\ x.at \in Samples
    BY <1>9 DEF Reached
  <2>2. w[0][x.at] = x.at
    BY <1>0, <1>1, <2>1, WalksToIs
  <2> QED
    BY <2>1, <2>2, CoveredIs DEF Turned
<1>11. b[Depth] = {Turned(ci, w, 0, x) : x \in a[Depth]}
  BY <1>7, <1>8
<1>12. b[Depth] = {Covered(ci, x) : x \in a[Depth]}
  BY <1>10, <1>11
<1> QED
  BY <1>2, <1>3, <1>9, <1>12 DEF Leaves, Reached

\* Whatever its options and whatever is nested in what, the redaction leaves of a
\* value what its paths say: below a sensitive key the mask and nothing else, and
\* every other leaf as it was.
THEOREM RedactsByPathCorrect == RedactsByPath
BY LeavesRedacted DEF RedactsByPath

LEMMA MaskedRedacted ==
  ASSUME NEW ci, NEW key, NEW v \in Samples, NEW x \in Leaves(key, RedactValue(ci, key, v))
  PROVE  Covered(ci, x) = x
<1>1. PICK y \in Leaves(key, v) : x = Covered(ci, y) /\ IsSeq(y.path)
  BY LeavesRedacted
<1> QED
  BY <1>1, CoveredTwice

LEMMA LeavesOfEnd ==
  ASSUME NEW key, NEW v, ~HasItems(v)
  PROVE  Leaves(key, v) = {[path |-> <<Step("map", key)>>, at |-> v]}
<1> DEFINE root == [path |-> <<Step("map", key)>>, at |-> v]
<1>0. Depth \in Nat
  BY NestingIs
<1>1. PICK b : b = Behind(key, v) /\ PathsTo(b, key, v, Depth)
  BY BehindIs
<1>2. b[0] = {root} /\ \A m \in 1..Depth : b[m] = UNION {Into(x) : x \in b[m - 1]}
  BY <1>0, <1>1, PathsToIs
<1>3. Into(root) = {root}
  <2>1. root.at = v
    OBVIOUS
  <2> HIDE DEF root
  <2> QED
    BY <2>1, IntoIs
<1> HIDE DEF root
<1> DEFINE S == {m \in Nat : m <= Depth => b[m] = {root}}
<1>4. ASSUME NEW m \in S PROVE m + 1 \in S
  <2>1. SUFFICES ASSUME m + 1 <= Depth PROVE b[m + 1] = {root}
    OBVIOUS
  <2>2. m + 1 \in 1..Depth /\ m + 1 - 1 = m /\ b[m] = {root}
    BY <1>0, <2>1
  <2>3. b[m + 1] = UNION {Into(x) : x \in {root}}
    BY <1>2, <2>2
  <2> QED
    BY <1>3, <2>3
<1>5. S = Nat
  <2>1. S \in SUBSET Nat /\ 0 \in S
    BY <1>2
  <2> HIDE DEF S
  <2> QED
    BY <1>4, <2>1, SetInduction
<1>6. b[Depth] = {root}
  BY <1>0, <1>5
<1> QED
  BY <1>1, <1>6 DEF Leaves, root

\* A value without items is masked, or its key is none to mask.
LEMMA EndUncovered ==
  ASSUME NEW ci, NEW key, ~ShouldRedact(ci, key), NEW v, ~HasItems(v), NEW x \in Leaves(key, v)
  PROVE  Covered(ci, x) = x
<1>1. x.path = <<Step("map", key)>>
  BY LeavesOfEnd
<1>2. ~Sensitive(ci, Step("map", key))
  BY DEF Sensitive, Step
<1>3. ~Covers(ci, x.path)
  <2>1. DOMAIN x.path = 1..1 /\ x.path[1] = Step("map", key)
    BY <1>1, OneIsSeq, SeqIs
  <2>2. \A i \in 1..1 : i = 1
    OBVIOUS
  <2> QED
    BY <1>2, <2>1, <2>2 DEF Covers
<1> QED
  BY <1>3, CoveredIs

-----------------------------------------------------------------------------
(* Values, and what the processors make of fields. *)

IsFields(c) == IsSeq(c) /\ \A i \in DOMAIN c : IsField(c[i])

IsValue(v) == IF IsRef(v) THEN v.box \in DOMAIN Boxes ELSE v \in Values

BoxesInv == DOMAIN boxes = DOMAIN Boxes /\ \A b \in DOMAIN Boxes : boxes[b] \in {Boxes[b], Changed(Boxes[b])}

LEMMA FieldIs ==
  ASSUME NEW f
  PROVE  IsField(f) <=> f = [key |-> f.key, value |-> f.value] /\ f.key \in DOMAIN Rank /\ IsValue(f.value)
BY DEF IsField, IsValue

LEMMA SnapshotIs ==
  ASSUME BoxesInv, NEW v, IsValue(v)
  PROVE  /\ Snapshot(v) \in Values /\ ~IsRef(Snapshot(v)) /\ IsValue(Snapshot(v))
         /\ Snapshot(Snapshot(v)) = Snapshot(v)
<1>1. Snapshot(v) \in Values
  BY ValuesAssumption DEF BoxesInv, IsValue, Snapshot
<1>2. ~IsRef(Snapshot(v))
  BY <1>1, ValuesAssumption
<1> QED
  BY <1>1, <1>2 DEF IsValue, Snapshot

\* What has been redacted may stand where it did, and is not changed by a second
\* redaction.
LEMMA RedactedIs ==
  ASSUME NEW v \in Values, NEW k \in DOMAIN Rank \cup {"error"}
  PROVE  Redacted(k, v) \in Values /\ ~IsRef(Redacted(k, v)) /\ Redacted(k, Redacted(k, v)) = Redacted(k, v)
<1>1. Redacted(k, v) \in Values /\ ~IsRef(Redacted(k, v)) /\ v \in Samples /\ Redacted(k, v) \in Samples
  BY ValuesAssumption
<1> QED
  BY <1>1, RedactTwice DEF Redacted

\* A redacted field is one, is not changed by a second redaction, and leads to no
\* container but those that the redaction does not know.
LEMMA RedactFieldIs ==
  ASSUME BoxesInv, NEW f, IsField(f)
  PROVE  /\ IsField(RedactField(f)) /\ RedactField(f).key = f.key
         /\ RedactField(RedactField(f)) = RedactField(f)
         /\ IsRef(RedactField(f).value) => Opaque(RedactField(f).value)
<1> DEFINE v == f.value
           k == f.key
           r == Redacted(k, Snapshot(v))
           w == IF Opaque(v) /\ r = Snapshot(v) THEN v ELSE r
<1>1. f = [key |-> k, value |-> v] /\ k \in DOMAIN Rank /\ IsValue(v)
  BY FieldIs
<1>2. RedactField(f) = [key |-> k, value |-> w]
  <2>1. RedactField(f) = [f EXCEPT !.value = w]
    BY DEF RedactField
  <2> HIDE DEF v, k, w
  <2> QED
    BY <1>1, <2>1
<1>3. Snapshot(v) \in Values
  BY <1>1, SnapshotIs
<1>4. r \in Values /\ Redacted(k, r) = r /\ ~IsRef(r)
  BY <1>1, <1>3, RedactedIs
<1>5. Snapshot(r) = r /\ IsValue(r) /\ ~Opaque(r)
  BY <1>4 DEF Snapshot, IsValue, Opaque
<1> HIDE DEF v, k, r
<1>6. IsValue(w) /\ (IsRef(w) => Opaque(w))
  BY <1>1, <1>4, <1>5
<1>7. (IF Opaque(w) /\ Redacted(k, Snapshot(w)) = Snapshot(w) THEN w ELSE Redacted(k, Snapshot(w))) = w
  BY <1>4, <1>5 DEF r
<1> HIDE DEF w
<1> DEFINE g == [key |-> k, value |-> w]
<1>8. g.key = k /\ g.value = w /\ [g EXCEPT !.value = w] = g
  OBVIOUS
<1>9. RedactField(g) = g
  BY <1>7, <1>8 DEF RedactField
<1>10. IsField(g)
  BY <1>1, <1>6, <1>8, FieldIs
<1> QED
  BY <1>2, <1>6, <1>8, <1>9, <1>10 DEF k

LEMMA ShownIs ==
  ASSUME BoxesInv, NEW c, IsFields(c)
  PROVE  /\ IsFields(Shown(c)) /\ DOMAIN Shown(c) = DOMAIN c
         /\ \A i \in DOMAIN c : Shown(c)[i] = [key |-> c[i].key, value |-> Snapshot(c[i].value)]
         /\ Shown(Shown(c)) = Shown(c)
         /\ KeysOf(Shown(c)) = KeysOf(c)
<1> DEFINE d == Shown(c)
<1>1. IsSeq(c) /\ DOMAIN c = 1..Len(c) /\ Len(c) \in Nat
  BY SeqIs DEF IsFields
<1>2. d = [i \in DOMAIN c |-> [c[i] EXCEPT !.value = Snapshot(c[i].value)]]
  BY DEF Shown
<1>3. ASSUME NEW i \in DOMAIN c
      PROVE  d[i] = [key |-> c[i].key, value |-> Snapshot(c[i].value)] /\ IsField(d[i])
             /\ Snapshot(d[i].value) = d[i].value
  <2>1. c[i] = [key |-> c[i].key, value |-> c[i].value] /\ c[i].key \in DOMAIN Rank /\ IsValue(c[i].value)
    BY FieldIs DEF IsFields
  <2>2. IsValue(Snapshot(c[i].value)) /\ Snapshot(Snapshot(c[i].value)) = Snapshot(c[i].value)
    BY <2>1, SnapshotIs
  <2>3. d[i] = [key |-> c[i].key, value |-> Snapshot(c[i].value)]
    BY <1>2, <2>1
  <2>4. d[i].key = c[i].key /\ d[i].value = Snapshot(c[i].value) /\ d[i] = [key |-> d[i].key, value |-> d[i].value]
    BY <2>3
  <2> HIDE DEF d
  <2> QED
    BY <2>1, <2>2, <2>3, <2>4, FieldIs
<1>4. IsSeq(d) /\ DOMAIN d = DOMAIN c
  <2>1. d = [i \in 1..Len(c) |-> d[i]]
    BY <1>1, <1>2
  <2> HIDE DEF d
  <2> QED
    BY <1>1, <2>1, FunIsSeq
<1>5. Shown(d) = d
  <2> HIDE DEF d
  <2>1. Shown(d) = [i \in DOMAIN d |-> [d[i] EXCEPT !.value = Snapshot(d[i].value)]]
    BY DEF Shown
  <2>2. \A i \in DOMAIN d : d[i] = [key |-> d[i].key, value |-> d[i].value] /\ Snapshot(d[i].value) = d[i].value
    BY <1>3, <1>4, FieldIs
  <2>3. \A i \in DOMAIN d : [d[i] EXCEPT !.value = Snapshot(d[i].value)] = d[i]
    BY <2>2
  <2>4. d = [i \in DOMAIN d |-> d[i]]
    BY <1>4, SeqIs
  <2> QED
    BY <2>1, <2>3, <2>4
<1>6. KeysOf(d) = KeysOf(c)
  <2> HIDE DEF d
  <2>1. ASSUME NEW i \in DOMAIN c PROVE d[i].key = c[i].key
    <3>1. d[i] = [key |-> c[i].key, value |-> Snapshot(c[i].value)]
      BY <1>3
    <3> QED
      BY <3>1
  <2> QED
    BY <1>4, <2>1 DEF KeysOf
<1> QED
  BY <1>3, <1>4, <1>5, <1>6 DEF IsFields

\* Showing fields twice shows nothing else.
LEMMA ShownOnce ==
  ASSUME BoxesInv, NEW c, IsFields(c), NEW name, NEW err
  PROVE  Line(Shown(c)) = Line(c) /\ EventPayload(Shown(c), name, err) = EventPayload(c, name, err)
<1>1. Shown(Shown(c)) = Shown(c) /\ KeysOf(Shown(c)) = KeysOf(c)
  BY ShownIs
<1>2. Line(Shown(c)) = Line(c)
  BY <1>1 DEF Line
<1>3. EventPayload(Shown(c), name, err) = EventPayload(c, name, err)
  BY <1>1 DEF EventPayload
<1> QED
  BY <1>2, <1>3

\* Of the fields with a key there is a last one.
LEMMA LastWithIs ==
  ASSUME NEW keys, IsSeq(keys), NEW i \in DOMAIN keys
  PROVE  LastWith(keys, keys[i]) \in DOMAIN keys /\ keys[LastWith(keys, keys[i])] = keys[i]
<1> DEFINE k == keys[i]
           n == Len(keys)
           S == {m \in Nat : m < n /\ keys[n - m] = k}
<1>1. n \in Nat /\ DOMAIN keys = 1..n
  BY SeqIs
<1> HIDE DEF n, k
<1>2. n - i \in S
  BY <1>1 DEF k
<1>3. PICK m \in S : \A p \in S : m <= p
  <2>1. S \in SUBSET Nat /\ S # {}
    BY <1>2
  <2> HIDE DEF S
  <2> QED
    BY <2>1, Least
<1>4. n - m \in DOMAIN keys /\ keys[n - m] = k
  BY <1>1, <1>3
<1>5. ASSUME NEW j \in DOMAIN keys, keys[j] = k PROVE j <= n - m
  <2>1. n - j \in S
    BY <1>1, <1>5
  <2>2. m <= n - j
    BY <1>3, <2>1
  <2> QED
    BY <1>1, <1>3, <2>2
<1>6. \E l \in DOMAIN keys : keys[l] = k /\ \A j \in DOMAIN keys : keys[j] = k => j <= l
  BY <1>4, <1>5
<1>7. LastWith(keys, k) \in DOMAIN keys /\ keys[LastWith(keys, k)] = k
  BY <1>6 DEF LastWith
<1> QED
  BY <1>7 DEF k

-----------------------------------------------------------------------------
(* The processors one after the other. *)

LEMMA Lists ==
  /\ Len(Pipeline) \in Nat /\ DOMAIN Pipeline = 1..Len(Pipeline)
  /\ Len(Children) \in Nat /\ DOMAIN Children = 1..Len(Children)
  /\ \A i \in DOMAIN Pipeline : Pipeline[i] # "redact" => IsField(IdField(Pipeline[i]))
  /\ \A a \in DOMAIN Args : IsFields(Args[a])
<1>1. IsSeq(Pipeline) /\ IsSeq(Children)
  BY ProcessorsAssumption DEF IsSeq, IsList
<1>2. \A a \in DOMAIN Args : IsFields(Args[a])
  BY FieldsAssumption DEF IsSeq, IsList, IsFields
<1> QED
  BY <1>1, <1>2, SeqIs, ProcessorsAssumption

Redacts(k) == \E j \in 1..k : Pipeline[j] = "redact"

LEMMA RedactsIs ==
  /\ ~Redacts(0)
  /\ \A k \in 0..Len(Pipeline) - 1 : Redacts(k + 1) <=> Redacts(k) \/ Pipeline[k + 1] = "redact"
  /\ Redacts(Len(Pipeline)) <=> "redact" \in {Pipeline[i] : i \in DOMAIN Pipeline}
<1>1. ASSUME NEW k \in 0..Len(Pipeline) - 1
      PROVE  Redacts(k + 1) <=> Redacts(k) \/ Pipeline[k + 1] = "redact"
  <2>1. 1..k + 1 = (1..k) \cup {k + 1}
    BY Lists
  <2> QED
    BY <2>1 DEF Redacts
<1> QED
  BY <1>1, Lists DEF Redacts

LEMMA AppendConcat ==
  ASSUME NEW s, IsSeq(s), NEW x
  PROVE  s \o <<x>> = Append(s, x) /\ s \o <<>> = s
<1>1. PICK S : s \in Seq(S)
  BY DEF IsSeq
<1>2. s \in Seq(S \cup {x})
  BY <1>1
<1> QED
  BY <1>2

\* Leads to no container but those a redaction does not know.
Safe(c) == \A i \in DOMAIN c : IsRef(c[i].value) => Opaque(c[i].value)

LEMMA ProcessedIs ==
  ASSUME BoxesInv, NEW c, IsFields(c), NEW ids, NEW p, p = "redact" \/ IsField(IdField(p))
  PROVE  LET d == Processed(p, c, ids) IN
         /\ IsFields(d) /\ DOMAIN c \subseteq DOMAIN d
         /\ p = "redact" => /\ DOMAIN d = DOMAIN c /\ Safe(d)
                            /\ \A i \in DOMAIN c : d[i] = RedactField(c[i])
         /\ p # "redact" => /\ \A i \in DOMAIN c : d[i] = c[i]
                            /\ \A i \in DOMAIN d \ DOMAIN c : d[i] = IdField(p)
                            /\ Safe(c) => Safe(d)
<1> DEFINE d == Processed(p, c, ids)
<1>0. IsSeq(c) /\ DOMAIN c = 1..Len(c) /\ Len(c) \in Nat /\ \A i \in DOMAIN c : IsField(c[i])
  BY SeqIs DEF IsFields
<1>1. CASE p = "redact"
  <2>1. d = [i \in DOMAIN c |-> RedactField(c[i])]
    BY <1>1 DEF Processed
  <2>2. IsSeq(d) /\ DOMAIN d = DOMAIN c /\ \A i \in DOMAIN c : d[i] = RedactField(c[i])
    <3>1. d = [i \in 1..Len(c) |-> d[i]] /\ \A i \in DOMAIN c : d[i] = RedactField(c[i])
      BY <1>0, <2>1
    <3> HIDE DEF d
    <3> QED
      BY <1>0, <3>1, FunIsSeq
  <2> HIDE DEF d
  <2>3. ASSUME NEW i \in DOMAIN c
        PROVE  IsField(d[i]) /\ (IsRef(d[i].value) => Opaque(d[i].value))
    BY <1>0, <2>2, RedactFieldIs
  <2> QED
    BY <1>1, <2>2, <2>3 DEF IsFields, Safe, d
<1>2. CASE p # "redact" /\ p \in ids /\ ~HasKey(c, p)
  <2>1. d = Append(c, IdField(p))
    BY <1>2 DEF Processed
  <2> HIDE DEF d
  <2>2. /\ IsSeq(d) /\ DOMAIN d = 1..Len(c) + 1 /\ d[Len(c) + 1] = IdField(p)
        /\ \A i \in DOMAIN c : d[i] = c[i]
    BY <1>0, <2>1, AppendIsSeq
  <2>3. \A i \in DOMAIN d : i \in DOMAIN c \/ i = Len(c) + 1
    BY <1>0, <2>2
  <2>4. ~IsRef(IdField(p).value)
    <3>1. IdField(p).value = [kind |-> "leaf", is |-> p]
      BY DEF IdField
    <3>2. "box" \notin DOMAIN [kind |-> "leaf", is |-> p]
      OBVIOUS
    <3> QED
      BY <3>1, <3>2 DEF IsRef
  <2>5. IsFields(d)
    BY <1>0, <1>2, <2>2, <2>3 DEF IsFields
  <2>6. Safe(c) => Safe(d)
    BY <2>2, <2>3, <2>4 DEF Safe
  <2>7. DOMAIN c \subseteq DOMAIN d /\ \A i \in DOMAIN d \ DOMAIN c : d[i] = IdField(p)
    BY <1>0, <2>2, <2>3
  <2>8. \A i \in DOMAIN c : d[i] = c[i]
    BY <2>2
  <2> QED
    BY <1>2, <2>5, <2>6, <2>7, <2>8 DEF d
<1>3. CASE p # "redact" /\ ~(p \in ids /\ ~HasKey(c, p))
  <2>1. d = c
    BY <1>3 DEF Processed
  <2> QED
    BY <1>3, <2>1
<1> QED
  BY <1>1, <1>2, <1>3

\* f tells what the first n processors make of fields.
StepsTo(f, orig, ids, n) ==
  f = [i \in 0..n |-> IF i = 0 THEN orig ELSE Processed(Pipeline[i], f[i - 1], ids)]

Steps(f, orig, ids) == StepsTo(f, orig, ids, Len(Pipeline))

LEMMA StepsToIs ==
  ASSUME NEW f, NEW orig, NEW ids, NEW n \in Nat, StepsTo(f, orig, ids, n)
  PROVE  f[0] = orig /\ \A i \in 1..n : f[i] = Processed(Pipeline[i], f[i - 1], ids)
<1> DEFINE e(i) == IF i = 0 THEN orig ELSE Processed(Pipeline[i], f[i - 1], ids)
<1>1. f = [i \in 0..n |-> e(i)]
  BY DEF StepsTo
<1>2. \A i \in 0..n : f[i] = e(i)
  <2> HIDE DEF e
  <2> QED
    BY <1>1
<1>3. f[0] = orig
  BY <1>2
<1>4. ASSUME NEW i \in 1..n PROVE f[i] = Processed(Pipeline[i], f[i - 1], ids)
  BY <1>2
<1> QED
  BY <1>3, <1>4

LEMMA StepsExist ==
  ASSUME NEW orig, NEW ids
  PROVE  Steps(After(orig, ids), orig, ids)
<1> DEFINE S == {n \in Nat : \E f : StepsTo(f, orig, ids, n)}
<1>1. 0 \in S
  <2>1. StepsTo([i \in 0..0 |-> orig], orig, ids, 0)
    BY DEF StepsTo
  <2> QED
    BY <2>1
<1>2. ASSUME NEW n \in S PROVE n + 1 \in S
  <2>1. n \in Nat
    OBVIOUS
  <2>2. PICK f : StepsTo(f, orig, ids, n)
    OBVIOUS
  <2> DEFINE e == Processed(Pipeline[n + 1], f[n], ids)
             g == [i \in 0..n + 1 |-> IF i = n + 1 THEN e ELSE f[i]]
  <2>3. f[0] = orig /\ \A i \in 1..n : f[i] = Processed(Pipeline[i], f[i - 1], ids)
    BY <2>1, <2>2, StepsToIs
  <2>4. g[0] = orig /\ g[n + 1] = e /\ \A i \in 0..n : g[i] = f[i]
    BY <2>1, <2>3
  <2>5. g = [i \in 0..n + 1 |-> g[i]]
    OBVIOUS
  <2> HIDE DEF g
  <2>6. ASSUME NEW i \in 0..n + 1
        PROVE  g[i] = IF i = 0 THEN orig ELSE Processed(Pipeline[i], g[i - 1], ids)
    <3>1. CASE i = 0
      BY <2>4, <3>1
    <3>2. CASE i \in 1..n
      <4>1. i \in 0..n /\ i - 1 \in 0..n /\ i # 0
        BY <2>1, <3>2
      <4> QED
        BY <2>3, <2>4, <3>2, <4>1
    <3>3. CASE i = n + 1
      <4>1. i - 1 = n /\ n \in 0..n /\ i # 0
        BY <2>1, <3>3
      <4> QED
        BY <2>4, <3>3, <4>1
    <3> QED
      BY <2>1, <3>1, <3>2, <3>3
  <2>7. StepsTo(g, orig, ids, n + 1)
    BY <2>5, <2>6 DEF StepsTo
  <2> QED
    BY <2>1, <2>7
<1>3. S = Nat
  <2>1. S \in SUBSET Nat
    OBVIOUS
  <2> HIDE DEF S
  <2> QED
    BY <1>1, <1>2, <2>1, SetInduction
<1>4. PICK f : StepsTo(f, orig, ids, Len(Pipeline))
  BY <1>3, Lists
<1>5. After(orig, ids) = CHOOSE h : StepsTo(h, orig, ids, Len(Pipeline))
  BY DEF After, StepsTo
<1> QED
  BY <1>4, <1>5 DEF Steps

\* All along they are fields, the ones there were come first, and behind a
\* redaction they are safe.
LEMMA StepsAre ==
  ASSUME BoxesInv, NEW orig, IsFields(orig), NEW ids, NEW f, Steps(f, orig, ids)
  PROVE  /\ f[0] = orig
         /\ \A k \in 0..Len(Pipeline) :
              IsFields(f[k]) /\ DOMAIN orig \subseteq DOMAIN f[k] /\ (Redacts(k) => Safe(f[k]))
         /\ \A k \in 0..Len(Pipeline) - 1 : f[k + 1] = Processed(Pipeline[k + 1], f[k], ids)
<1> DEFINE P(k) == IsFields(f[k]) /\ DOMAIN orig \subseteq DOMAIN f[k] /\ (Redacts(k) => Safe(f[k]))
           S == {k \in Nat : k <= Len(Pipeline) => P(k)}
<1>0. Len(Pipeline) \in Nat
  BY Lists
<1>1. f[0] = orig /\ \A i \in 1..Len(Pipeline) : f[i] = Processed(Pipeline[i], f[i - 1], ids)
  BY <1>0, StepsToIs DEF Steps
<1>2. ASSUME NEW k \in 0..Len(Pipeline) - 1 PROVE f[k + 1] = Processed(Pipeline[k + 1], f[k], ids)
  <2>1. k + 1 \in 1..Len(Pipeline) /\ k + 1 - 1 = k
    BY <1>0
  <2> QED
    BY <1>1, <2>1
<1>3. 0 \in S
  BY <1>1, RedactsIs
<1>4. ASSUME NEW k \in S PROVE k + 1 \in S
  <2>1. SUFFICES ASSUME k + 1 <= Len(Pipeline) PROVE P(k + 1)
    OBVIOUS
  <2>2. k \in 0..Len(Pipeline) - 1 /\ P(k) /\ k + 1 \in DOMAIN Pipeline
    BY <1>0, <2>1, Lists
  <2>3. Pipeline[k + 1] = "redact" \/ IsField(IdField(Pipeline[k + 1]))
    BY <2>2, Lists
  <2>4. f[k + 1] = Processed(Pipeline[k + 1], f[k], ids)
    BY <1>2, <2>2
  <2>5. Redacts(k + 1) <=> Redacts(k) \/ Pipeline[k + 1] = "redact"
    BY <2>2, RedactsIs
  <2>6. IsFields(f[k])
    BY <2>2
  <2>7. /\ IsFields(f[k + 1]) /\ DOMAIN f[k] \subseteq DOMAIN f[k + 1]
        /\ Pipeline[k + 1] = "redact" => Safe(f[k + 1])
        /\ Pipeline[k + 1] # "redact" => (Safe(f[k]) => Safe(f[k + 1]))
    BY <2>3, <2>4, <2>6, ProcessedIs
  <2> QED
    BY <2>2, <2>5, <2>7
<1>5. S = Nat
  <2>1. S \in SUBSET Nat
    OBVIOUS
  <2> HIDE DEF S
  <2> QED
    BY <1>3, <1>4, <2>1, SetInduction
<1>6. ASSUME NEW k \in 0..Len(Pipeline) PROVE P(k)
  <2>1. k \in Nat /\ k <= Len(Pipeline)
    BY <1>0
  <2> QED
    BY <1>5, <2>1
<1> QED
  BY <1>1, <1>2, <1>6

-----------------------------------------------------------------------------
(* What a call's fields and its error have to do with what its event is to   *)
(* look like.                                                                *)

\* An event that is to look like fields.
Promised(e, fields, name) ==
  /\ e.name = name
  /\ e.line = Line(Shown(fields)) /\ e.payload = EventPayload(Shown(fields), name, e.err)

\* The fields of the event before the processors: an earlier run of theirs may have
\* redacted some where they are.
BaseIs(b, orig) ==
  /\ DOMAIN b = DOMAIN orig
  /\ \A i \in DOMAIN orig : b[i] = orig[i] \/ (Redacts(Len(Pipeline)) /\ b[i] = RedactField(orig[i]))

\* The same after k processors that should have made a of them.
FieldsAre(c, a, orig, k) ==
  /\ DOMAIN c = DOMAIN a
  /\ \A i \in DOMAIN a \ DOMAIN orig : c[i] = a[i]
  /\ \A i \in DOMAIN orig :
       c[i] = a[i] \/ (Redacts(Len(Pipeline)) /\ ~Redacts(k) /\ c[i] = RedactField(a[i]))

ErrorIs(err, end, k) ==
  /\ err \in Values \cup {NoError}
  /\ ErrorAfter({Pipeline[i] : i \in DOMAIN Pipeline}, err) = end
  /\ Redacts(k) \/ ~Redacts(Len(Pipeline)) => err = end

LEMMA SameLength ==
  ASSUME NEW n \in Nat, NEW m \in Nat, 1..n = 1..m
  PROVE  n = m
<1>1. ASSUME NEW i \in Nat, NEW j \in Nat, 1..i = 1..j PROVE i <= j
  <2>1. CASE i = 0
    BY <2>1
  <2>2. CASE i # 0
    <3>1. i \in 1..i
      BY <2>2
    <3>2. i \in 1..j
      BY <1>1, <3>1
    <3> QED
      BY <3>2
  <2> QED
    BY <2>1, <2>2
<1>2. n <= m /\ m <= n
  BY <1>1
<1> QED
  BY <1>2

LEMMA FieldsAreFields ==
  ASSUME BoxesInv, NEW c, IsSeq(c), NEW a, IsFields(a), NEW orig, DOMAIN orig \subseteq DOMAIN a,
         NEW k, FieldsAre(c, a, orig, k)
  PROVE  IsFields(c) /\ \A i \in DOMAIN c : c[i].key = a[i].key
<1>1. ASSUME NEW i \in DOMAIN c PROVE IsField(c[i]) /\ c[i].key = a[i].key
  <2>1. IsField(a[i]) /\ (c[i] = a[i] \/ c[i] = RedactField(a[i]))
    BY DEF FieldsAre, IsFields
  <2> QED
    BY <2>1, RedactFieldIs
<1> QED
  BY <1>1 DEF IsFields

LEMMA FieldsAreAtStart ==
  ASSUME NEW b, NEW orig, BaseIs(b, orig)
  PROVE  FieldsAre(b, orig, orig, 0)
BY RedactsIs DEF BaseIs, FieldsAre

LEMMA FieldsAreAtEnd ==
  ASSUME NEW c, IsSeq(c), NEW a, IsFields(a), NEW orig, FieldsAre(c, a, orig, Len(Pipeline))
  PROVE  c = a
<1>1. DOMAIN c = DOMAIN a /\ \A i \in DOMAIN c : c[i] = a[i]
  BY DEF FieldsAre
<1>2. IsSeq(a)
  BY DEF IsFields
<1> QED
  BY <1>1, <1>2, SameSeq

\* A processor takes both one step further.
LEMMA FieldsAreNext ==
  ASSUME BoxesInv, NEW c, IsSeq(c), NEW a, IsFields(a), NEW orig, DOMAIN orig \subseteq DOMAIN a,
         NEW ids, NEW k \in 0..Len(Pipeline) - 1, FieldsAre(c, a, orig, k)
  PROVE  FieldsAre(Processed(Pipeline[k + 1], c, ids), Processed(Pipeline[k + 1], a, ids), orig, k + 1)
<1> DEFINE p == Pipeline[k + 1]
           d == Processed(p, c, ids)
           b == Processed(p, a, ids)
<1>1. IsFields(c) /\ DOMAIN c = DOMAIN a /\ \A i \in DOMAIN c : c[i].key = a[i].key
  BY FieldsAreFields DEF FieldsAre
<1>2. p = "redact" \/ IsField(IdField(p))
  <2>1. k + 1 \in DOMAIN Pipeline
    BY Lists
  <2> QED
    BY <2>1, Lists
<1>3. Redacts(k + 1) <=> Redacts(k) \/ p = "redact"
  BY RedactsIs
<1> HIDE DEF p
<1>4. CASE p = "redact"
  <2>1. /\ DOMAIN d = DOMAIN c /\ \A i \in DOMAIN c : d[i] = RedactField(c[i])
        /\ DOMAIN b = DOMAIN a /\ \A i \in DOMAIN a : b[i] = RedactField(a[i])
    BY <1>1, <1>2, <1>4, ProcessedIs
  <2> HIDE DEF d, b
  <2>2. ASSUME NEW i \in DOMAIN a PROVE d[i] = b[i]
    <3>1. IsField(a[i]) /\ (c[i] = a[i] \/ c[i] = RedactField(a[i]))
      BY DEF FieldsAre, IsFields
    <3>2. RedactField(c[i]) = RedactField(a[i])
      BY <3>1, RedactFieldIs
    <3> QED
      BY <1>1, <2>1, <3>2
  <2>3. FieldsAre(d, b, orig, k + 1)
    BY <1>1, <2>1, <2>2 DEF FieldsAre
  <2> QED
    BY <2>3 DEF d, b, p
<1>5. CASE p # "redact"
  <2>1. /\ IsFields(d) /\ DOMAIN c \subseteq DOMAIN d /\ \A i \in DOMAIN c : d[i] = c[i]
        /\ \A i \in DOMAIN d \ DOMAIN c : d[i] = IdField(p)
        /\ IsFields(b) /\ DOMAIN a \subseteq DOMAIN b /\ \A i \in DOMAIN a : b[i] = a[i]
        /\ \A i \in DOMAIN b \ DOMAIN a : b[i] = IdField(p)
    BY <1>1, <1>2, <1>5, ProcessedIs
  <2>2. HasKey(c, p) <=> HasKey(a, p)
    BY <1>1 DEF HasKey
  <2>3. DOMAIN d = DOMAIN b
    <3>1. IsSeq(c) /\ IsSeq(a) /\ Len(c) \in Nat /\ Len(a) \in Nat /\ DOMAIN c = 1..Len(c) /\ DOMAIN a = 1..Len(a)
      BY <1>1, SeqIs DEF IsFields
    <3>2. CASE p \in ids /\ ~HasKey(c, p)
      <4>1. d = Append(c, IdField(p)) /\ b = Append(a, IdField(p))
        BY <1>5, <2>2, <3>2 DEF Processed
      <4> HIDE DEF d, b
      <4>2. DOMAIN d = 1..Len(c) + 1 /\ DOMAIN b = 1..Len(a) + 1
        BY <3>1, <4>1, AppendIsSeq
      <4>3. Len(c) = Len(a)
        <5>1. 1..Len(c) = 1..Len(a)
          BY <1>1, <3>1
        <5> QED
          BY <3>1, <5>1, SameLength
      <4> QED
        BY <4>2, <4>3
    <3>3. CASE ~(p \in ids /\ ~HasKey(c, p))
      <4>1. d = c /\ b = a
        BY <1>5, <2>2, <3>3 DEF Processed
      <4> QED
        BY <1>1, <4>1
    <3> QED
      BY <3>2, <3>3
  <2> HIDE DEF d, b
  <2>4. \A i \in DOMAIN b \ DOMAIN orig : d[i] = b[i]
    BY <1>1, <2>1, <2>3 DEF FieldsAre
  <2>5. \A i \in DOMAIN orig : i \in DOMAIN a /\ d[i] = c[i] /\ b[i] = a[i]
    BY <1>1, <2>1
  <2>6. ~Redacts(k) => ~Redacts(k + 1)
    BY <1>3, <1>5
  <2>7. ASSUME NEW i \in DOMAIN orig
        PROVE  d[i] = b[i] \/ (Redacts(Len(Pipeline)) /\ ~Redacts(k + 1) /\ d[i] = RedactField(b[i]))
    <3>1. c[i] = a[i] \/ (Redacts(Len(Pipeline)) /\ ~Redacts(k) /\ c[i] = RedactField(a[i]))
      BY DEF FieldsAre
    <3> QED
      BY <2>5, <2>6, <3>1
  <2>8. FieldsAre(d, b, orig, k + 1)
    BY <2>3, <2>4, <2>7 DEF FieldsAre
  <2> QED
    BY <2>8 DEF d, b, p
<1> QED
  BY <1>4, <1>5

\* A redaction of some cells leaves the base what it was.
LEMMA BaseIsNext ==
  ASSUME BoxesInv, NEW b, NEW orig, IsFields(orig), BaseIs(b, orig), Redacts(Len(Pipeline)),
         NEW d, DOMAIN d = DOMAIN b, \A i \in DOMAIN b : d[i] \in {b[i], RedactField(b[i])}
  PROVE  BaseIs(d, orig)
<1>1. ASSUME NEW i \in DOMAIN orig PROVE d[i] = orig[i] \/ d[i] = RedactField(orig[i])
  <2>1. IsField(orig[i]) /\ (b[i] = orig[i] \/ b[i] = RedactField(orig[i])) /\ d[i] \in {b[i], RedactField(b[i])}
    BY DEF BaseIs, IsFields
  <2> QED
    BY <2>1, RedactFieldIs
<1> QED
  BY <1>1 DEF BaseIs

-----------------------------------------------------------------------------
Processors == {Pipeline[i] : i \in DOMAIN Pipeline}

LEMMA ErrorAfterIs ==
  ASSUME NEW err \in Values \cup {NoError}, NEW S
  PROVE  /\ ErrorAfter(S, err) \in Values \cup {NoError}
         /\ "redact" \in S => ErrorAfter(S, ErrorAfter({"redact"}, err)) = ErrorAfter(S, err)
                              /\ ErrorAfter({"redact"}, err) = ErrorAfter(S, err)
         /\ "redact" \notin S => ErrorAfter(S, err) = err
<1>1. CASE RedactError /\ err # NoError
  <2> DEFINE r == Redacted("error", err)
  <2>1. r \in Values /\ Redacted("error", r) = r
    BY <1>1, RedactedIs
  <2>2. ErrorAfter({"redact"}, err) = r
    BY <1>1 DEF ErrorAfter
  <2>3. "redact" \in S => ErrorAfter(S, err) = r
    BY <1>1 DEF ErrorAfter
  <2>4. "redact" \notin S => ErrorAfter(S, err) = err
    BY DEF ErrorAfter
  <2>5. ErrorAfter(S, r) = r
    BY <2>1 DEF ErrorAfter
  <2> HIDE DEF r
  <2> QED
    BY <2>1, <2>2, <2>3, <2>4, <2>5
<1>2. CASE ~(RedactError /\ err # NoError)
  <2>1. ErrorAfter(S, err) = err /\ ErrorAfter({"redact"}, err) = err
    BY <1>2 DEF ErrorAfter
  <2> QED
    BY <2>1
<1> QED
  BY <1>1, <1>2

LEMMA ErrorIsAtStart ==
  ASSUME NEW err \in Values \cup {NoError}
  PROVE  ErrorIs(err, ErrorAfter(Processors, err), 0)
BY RedactsIs, ErrorAfterIs DEF ErrorIs, Processors

LEMMA ErrorIsNext ==
  ASSUME NEW err, NEW end, NEW k \in 0..Len(Pipeline) - 1, ErrorIs(err, end, k)
  PROVE  /\ Pipeline[k + 1] = "redact" => ErrorIs(ErrorAfter({"redact"}, err), end, k + 1)
         /\ Pipeline[k + 1] # "redact" => ErrorIs(err, end, k + 1)
<1>1. /\ Redacts(k + 1) <=> Redacts(k) \/ Pipeline[k + 1] = "redact"
      /\ Redacts(Len(Pipeline)) <=> "redact" \in Processors
  BY RedactsIs DEF Processors
<1>2. err \in Values \cup {NoError} /\ ErrorAfter(Processors, err) = end
  BY DEF ErrorIs, Processors
<1>3. CASE Pipeline[k + 1] = "redact"
  <2>1. "redact" \in Processors
    BY <1>3, Lists DEF Processors
  <2>2. /\ ErrorAfter({"redact"}, err) = end /\ end \in Values \cup {NoError}
        /\ ErrorAfter(Processors, end) = end
    BY <1>2, <2>1, ErrorAfterIs
  <2>3. ErrorIs(end, end, k + 1)
    BY <2>2 DEF ErrorIs, Processors
  <2> QED
    BY <1>3, <2>2, <2>3
<1>4. CASE Pipeline[k + 1] # "redact"
  BY <1>1, <1>4 DEF ErrorIs
<1> QED
  BY <1>3, <1>4

LEMMA ErrorIsAgain ==
  ASSUME NEW err, NEW end, ErrorIs(err, end, Len(Pipeline))
  PROVE  ErrorIs(err, end, 0) /\ err = end
BY RedactsIs DEF ErrorIs

-----------------------------------------------------------------------------
(* The inductive invariant of what is written: every call works on arrays of *)
(* its own, and what is in them is what its event promises, as far as the    *)
(* processors have come.                                                     *)

ArraysOf(r) == {r.base.arr, r.fields.arr} \ {0}

\* How many processors a call has been through.
Done(r) == IF r.stage <= Len(Pipeline) THEN r.stage - 1 ELSE Len(Pipeline)

StoryOf(r, h, orig, f) ==
  /\ IsFields(orig) /\ Steps(f, orig, r.ids)
  /\ Promised(events[r.event], f[Len(Pipeline)], r.name)
  /\ BaseIs(Content(h, r.base), orig)
  /\ FieldsAre(Content(h, r.fields), f[Done(r)], orig, Done(r))
  /\ ErrorIs(r.err, events[r.event].err, Done(r))

Right(r, h) ==
  /\ Within(r.base, h) /\ Within(r.fields, h) /\ r.base.len <= r.fields.len
  /\ r.stage \in 0..Len(Pipeline) + Len(Children) + 1 /\ r.event \in 0..Len(events)
  /\ r.stage = 0 => r = Idle
  /\ r.stage # 0 => r.event # 0 /\ \E orig, f : StoryOf(r, h, orig, f)

\* The record that a queued event will become, but for containers.
PayloadIs(c, name, err, payload) ==
  LET keys == KeysOf(c)
      used == {keys[i] : i \in DOMAIN keys} IN
  /\ DOMAIN payload = used \cup DOMAIN Attributes(name, err)
  /\ \A k \in used : ~IsRef(c[LastWith(keys, k)].value) => payload[k] = c[LastWith(keys, k)].value
  /\ \A k \in DOMAIN Attributes(name, err) \ used : payload[k] = Attributes(name, err)[k]

Queued(q, h) ==
  /\ Within(q.fields, h) /\ q.event \in 1..Len(events) /\ IsFields(Content(h, q.fields))
  /\ events[q.event].name = q.name /\ events[q.event].err = q.err
  /\ PayloadIs(Content(h, q.fields), q.name, q.err, events[q.event].payload)
  /\ Redacts(Len(Pipeline)) => Safe(Content(h, q.fields))

ArraysInv == \A a \in DOMAIN heap : IsSeq(heap[a])

WasInv == \A l \in DOMAIN loggers :
  /\ Within(loggers[l].fields, heap)
  /\ Content(heap, loggers[l].fields) = loggers[l].was /\ IsFields(loggers[l].was)

RightInv == \A g \in Goroutines : Right(call[g], heap)

ApartInv == \A g, h \in Goroutines : g # h =>
  /\ ArraysOf(call[g]) \cap ArraysOf(call[h]) = {}
  /\ call[g].stage # 0 => call[g].event # call[h].event

QueueInv ==
  /\ IsSeq(queue)
  /\ \A i \in DOMAIN queue : /\ Queued(queue[i], heap)
                              /\ \A g \in Goroutines : queue[i].fields.arr \notin ArraysOf(call[g])

RecordsInv == \A r \in records : r.event \in 1..Len(events) /\ Faithful(r, events[r.event])

CountInv ==
  /\ IsSeq(events) /\ Len(loggers) >= 1 /\ Len(events) <= MaxEvents
  /\ Len(loggers) + Len(events) <= MaxMade

StoryInv ==
  /\ BoxesInv /\ ArraysInv /\ WasInv /\ RightInv /\ ApartInv /\ QueueInv /\ RecordsInv /\ CountInv

-----------------------------------------------------------------------------
(* What a step leaves as it is. *)

EventsGrow ==
  IsSeq(events') /\ Len(events') >= Len(events) /\ \A i \in DOMAIN events : events'[i] = events[i]

LEMMA OperatorsKept ==
  ASSUME UNCHANGED boxes
  PROVE  /\ BoxesInv' <=> BoxesInv
         /\ \A f : RedactField(f)' = RedactField(f)
         /\ \A p, c, ids : Processed(p, c, ids)' = Processed(p, c, ids)
         /\ \A c : Shown(c)' = Shown(c) /\ Line(c)' = Line(c) /\ (Safe(c)' <=> Safe(c))
         /\ \A c, n, e : EventPayload(c, n, e)' = EventPayload(c, n, e)
<1>1. \A v : Snapshot(v)' = Snapshot(v) /\ (Opaque(v)' <=> Opaque(v))
  BY DEF Snapshot, Opaque
<1>2. ASSUME NEW f PROVE RedactField(f)' = RedactField(f)
  <2> DEFINE w(s, o) == IF o /\ Redacted(f.key, s) = s THEN f.value ELSE Redacted(f.key, s)
  <2>1. Snapshot(f.value)' = Snapshot(f.value) /\ (Opaque(f.value)' <=> Opaque(f.value))
    BY <1>1
  <2> QED
    BY <2>1 DEF RedactField, Snapshot, Opaque
<1>3. ASSUME NEW p, NEW c, NEW ids PROVE Processed(p, c, ids)' = Processed(p, c, ids)
  <2>1. [i \in DOMAIN c |-> RedactField(c[i])'] = [i \in DOMAIN c |-> RedactField(c[i])]
    BY <1>2
  <2> QED
    BY <2>1 DEF Processed
<1>4. ASSUME NEW c PROVE Shown(c)' = Shown(c)
  <2>1. [i \in DOMAIN c |-> [c[i] EXCEPT !.value = Snapshot(c[i].value)']]
          = [i \in DOMAIN c |-> [c[i] EXCEPT !.value = Snapshot(c[i].value)]]
    BY <1>1
  <2> QED
    BY <2>1 DEF Shown
<1>5. ASSUME NEW c PROVE Line(c)' = Line(c)
  BY <1>4 DEF Line
<1>6. ASSUME NEW c PROVE Safe(c)' <=> Safe(c)
  BY <1>1 DEF Safe
<1>7. ASSUME NEW c, NEW n, NEW e PROVE EventPayload(c, n, e)' = EventPayload(c, n, e)
  BY <1>4 DEF EventPayload
<1>8. BoxesInv' <=> BoxesInv
  BY DEF BoxesInv
<1> QED
  BY <1>2, <1>3, <1>4, <1>5, <1>6, <1>7, <1>8

LEMMA StepsKept ==
  ASSUME UNCHANGED boxes, NEW f, NEW orig, NEW ids
  PROVE  Steps(f, orig, ids)' <=> Steps(f, orig, ids)
<1>1. [i \in 0..Len(Pipeline) |-> IF i = 0 THEN orig ELSE Processed(Pipeline[i], f[i - 1], ids)']
        = [i \in 0..Len(Pipeline) |-> IF i = 0 THEN orig ELSE Processed(Pipeline[i], f[i - 1], ids)]
  BY OperatorsKept
<1> QED
  BY <1>1 DEF Steps, StepsTo

\* A story is told of the operators alone, and they are what they were.
LEMMA StoryKept ==
  ASSUME UNCHANGED boxes, NEW r, NEW k, NEW orig, NEW f, NEW e, e = events'[r.event],
         IsFields(orig), Steps(f, orig, r.ids), Promised(e, f[Len(Pipeline)], r.name),
         BaseIs(Content(k, r.base), orig),
         FieldsAre(Content(k, r.fields), f[Done(r)], orig, Done(r)), ErrorIs(r.err, e.err, Done(r))
  PROVE  StoryOf(r, k, orig, f)'
<1>1. Steps(f, orig, r.ids)'
  BY StepsKept
<1>2. BaseIs(Content(k, r.base), orig)'
  BY OperatorsKept DEF BaseIs, Redacts
<1>3. FieldsAre(Content(k, r.fields), f[Done(r)], orig, Done(r))'
  BY OperatorsKept DEF FieldsAre, Redacts, Done
<1>4. Promised(events[r.event], f[Len(Pipeline)], r.name)'
  <2> DEFINE last == f[Len(Pipeline)]
  <2>1. Shown(last)' = Shown(last)
    BY OperatorsKept
  <2>2. Line(Shown(last))' = Line(Shown(last))
    BY <2>1, OperatorsKept DEF Line
  <2>3. \A n, x : EventPayload(Shown(last), n, x)' = EventPayload(Shown(last), n, x)
    <3>1. Shown(Shown(last))' = Shown(Shown(last))
      BY DEF Shown, Snapshot
    <3> QED
      BY <2>1, <3>1 DEF EventPayload
  <2> QED
    BY <2>2, <2>3 DEF Promised
<1>5. ErrorIs(r.err, events[r.event].err, Done(r))'
  BY DEF ErrorIs
<1> QED
  BY <1>1, <1>2, <1>3, <1>4, <1>5 DEF StoryOf

\* The story of a call does not change with what others do.
LEMMA RightKept ==
  ASSUME NEW r, NEW h, NEW k, Right(r, h), UNCHANGED boxes, IsSeq(h), IsSeq(events), EventsGrow,
         \A a \in ArraysOf(r) : a \in DOMAIN k /\ k[a] = h[a]
  PROVE  Right(r, k)'
<1>1. /\ Content(k, r.base) = Content(h, r.base) /\ Within(r.base, k)
      /\ Content(k, r.fields) = Content(h, r.fields) /\ Within(r.fields, k)
  <2>1. ASSUME NEW s \in {r.base, r.fields}
        PROVE  Content(k, s) = Content(h, s) /\ Within(s, k)
    <3>1. Within(s, h)
      BY DEF Right
    <3>2. CASE s = Nil
      BY <3>2 DEF Content, Within, IsSlice, Nil
    <3>3. CASE s # Nil
      <4>1. s.arr \in DOMAIN h /\ s.arr # 0
        BY <3>1, <3>3, SeqIs DEF Within
      <4>2. k[s.arr] = h[s.arr] /\ s.arr \in DOMAIN k
        BY <4>1 DEF ArraysOf
      <4> QED
        BY <3>1, <4>2, ContentKept
    <3> QED
      BY <3>2, <3>3
  <2> QED
    BY <2>1
<1>2. Len(events) \in Nat /\ Len(events') \in Nat /\ DOMAIN events = 1..Len(events)
  BY SeqIs DEF EventsGrow
<1>3. ASSUME r.stage # 0
      PROVE  r.event # 0 /\ (\E orig, f : StoryOf(r, k, orig, f))'
  <2>1. r.event # 0 /\ r.event \in DOMAIN events
    BY <1>2, <1>3 DEF Right
  <2>2. events'[r.event] = events[r.event]
    BY <2>1 DEF EventsGrow
  <2>3. PICK orig, f : StoryOf(r, h, orig, f)
    BY <1>3 DEF Right
  <2>4. /\ IsFields(orig) /\ Steps(f, orig, r.ids) /\ Promised(events[r.event], f[Len(Pipeline)], r.name)
        /\ BaseIs(Content(h, r.base), orig) /\ FieldsAre(Content(h, r.fields), f[Done(r)], orig, Done(r))
        /\ ErrorIs(r.err, events[r.event].err, Done(r))
    BY <2>3 DEF StoryOf
  <2>5. PICK e : e = events[r.event]
    OBVIOUS
  <2>9. StoryOf(r, k, orig, f)'
    BY <1>1, <2>2, <2>4, <2>5, StoryKept
  <2> QED
    BY <2>1, <2>9
<1>4. r.event \in 0..Len(events')
  BY <1>2 DEF Right, EventsGrow
<1> QED
  BY <1>1, <1>3, <1>4 DEF Right

KindsKept == \A b \in DOMAIN Boxes : boxes'[b].kind = boxes[b].kind

LEMMA QueuedKept ==
  ASSUME NEW q, Queued(q, heap), KindsKept, IsSeq(heap), IsSeq(events), EventsGrow,
         q.fields # Nil => q.fields.arr \in DOMAIN heap' /\ heap'[q.fields.arr] = heap[q.fields.arr]
  PROVE  Queued(q, heap)'
<1>1. Content(heap', q.fields) = Content(heap, q.fields) /\ Within(q.fields, heap')
  <2>1. Within(q.fields, heap)
    BY DEF Queued
  <2> QED
    BY <2>1, ContentKept
<1>2. q.event \in 1..Len(events') /\ events'[q.event] = events[q.event]
  <2>1. q.event \in 1..Len(events) /\ Len(events) \in Nat /\ Len(events') \in Nat /\ DOMAIN events = 1..Len(events)
    BY SeqIs DEF Queued, EventsGrow
  <2> QED
    BY <2>1 DEF EventsGrow
<1>3. Redacts(Len(Pipeline)) => Safe(Content(heap, q.fields))'
  <2>1. SUFFICES ASSUME Redacts(Len(Pipeline)), NEW i \in DOMAIN Content(heap, q.fields),
                        IsRef(Content(heap, q.fields)[i].value)
                 PROVE  Opaque(Content(heap, q.fields)[i].value)'
    BY <1>1 DEF Safe
  <2> DEFINE v == Content(heap, q.fields)[i].value
  <2>2. IsValue(v) /\ Opaque(v)
    BY <2>1, FieldIs DEF Queued, Safe, IsFields
  <2>3. v.box \in DOMAIN Boxes
    BY <2>1, <2>2 DEF IsValue
  <2>4. PICK w : w = v
    OBVIOUS
  <2>5. Content(heap, q.fields)[i].value' = w
    BY <1>1, <2>4
  <2> HIDE DEF v
  <2>6. Opaque(w) /\ w.box \in DOMAIN Boxes
    BY <2>2, <2>3, <2>4
  <2>7. boxes'[w.box].kind = "typed" /\ IsRef(w)
    BY <2>6 DEF Opaque, KindsKept
  <2> QED
    BY <2>5, <2>7 DEF Opaque
<1>4. PayloadIs(Content(heap, q.fields), q.name, q.err, events[q.event].payload)'
  <2>1. PayloadIs(Content(heap, q.fields), q.name, q.err, events[q.event].payload)
    BY DEF Queued
  <2> QED
    BY <1>1, <1>2, <2>1 DEF PayloadIs
<1>5. /\ IsFields(Content(heap', q.fields))
      /\ events'[q.event].name = q.name /\ events'[q.event].err = q.err
  BY <1>1, <1>2 DEF Queued
<1> QED
  BY <1>1, <1>2, <1>3, <1>4, <1>5 DEF Queued

LEMMA RecordsKept ==
  ASSUME RecordsInv, IsSeq(events), EventsGrow, UNCHANGED records
  PROVE  RecordsInv'
<1>1. Len(events) \in Nat /\ Len(events') \in Nat /\ DOMAIN events = 1..Len(events)
  BY SeqIs DEF EventsGrow
<1> QED
  BY <1>1 DEF RecordsInv, EventsGrow

LEMMA EventsSame ==
  ASSUME StoryInv, UNCHANGED events
  PROVE  IsSeq(events) /\ EventsGrow
BY SeqIs DEF StoryInv, CountInv, EventsGrow

LEMMA HeapIs ==
  ASSUME FieldsInv, StoryInv
  PROVE  IsHeap(heap) /\ IsSeq(heap) /\ Len(heap) \in Nat /\ DOMAIN heap = 1..Len(heap)
BY SeqIs DEF FieldsInv, HeapInv, StoryInv, ArraysInv, IsHeap

\* No array is written into but one.
OnlyWrites(a) == \A b \in DOMAIN heap : b \in DOMAIN heap' /\ (b # a => heap'[b] = heap[b])

\* No other call is about the event.
EventOfItsOwn(g, r) ==
  \A h \in Goroutines : h # g /\ (call[h].stage # 0 \/ r.stage # 0) => call[h].event # r.event

\* A logger's fields are where they were when nobody writes into their array.
LEMMA WasKept ==
  ASSUME FieldsInv, StoryInv, UNCHANGED loggers, NEW a, Own(a), OnlyWrites(a)
  PROVE  WasInv'
<1>1. ASSUME NEW l \in DOMAIN loggers
      PROVE  Within(loggers[l].fields, heap') /\ Content(heap', loggers[l].fields) = Content(heap, loggers[l].fields)
  <2>1. Within(loggers[l].fields, heap)
    BY DEF StoryInv, WasInv
  <2>2. CASE loggers[l].fields = Nil
    BY <2>2 DEF Content, Within, IsSlice, Nil
  <2>3. CASE loggers[l].fields # Nil
    <3>1. loggers[l].fields.arr \in DOMAIN heap /\ loggers[l].fields.arr # 0
      BY <2>1, <2>3, HeapIs DEF Within
    <3>2. loggers[l].fields.arr # a
      BY <3>1 DEF Own
    <3> QED
      BY <2>1, <3>1, <3>2, ContentKept DEF OnlyWrites
  <2> QED
    BY <2>2, <2>3
<1> QED
  BY <1>1 DEF StoryInv, WasInv

\* A step of one call, which may write into one array of its own.
LEMMA StepOfCall ==
  ASSUME FieldsInv, StoryInv, NEW g \in Goroutines, NEW r, call' = [call EXCEPT ![g] = r],
         UNCHANGED <<boxes, loggers>>, EventsGrow, IsHeap(heap'),
         NEW a, a \in ArraysOf(call[g]) \cup {0},
         OnlyWrites(a), ArraysOf(r) \cap DOMAIN heap \subseteq ArraysOf(call[g]),
         Right(r, heap)', EventOfItsOwn(g, r)
  PROVE  /\ BoxesInv' /\ ArraysInv' /\ WasInv' /\ RightInv' /\ ApartInv'
         /\ \A q : (\E i \in DOMAIN queue : q = queue[i]) =>
              Queued(q, heap)' /\ \A h \in Goroutines : q.fields.arr \notin ArraysOf(call'[h])
<1>0. /\ IsHeap(heap) /\ IsSeq(heap) /\ IsSeq(events) /\ Len(heap) \in Nat /\ DOMAIN heap = 1..Len(heap)
      /\ BoxesInv /\ WasInv /\ RightInv /\ ApartInv /\ QueueInv
  BY HeapIs DEF StoryInv, CountInv
<1>1. PICK S : call \in [Goroutines -> S]
  BY DEF FieldsInv, CallsInv
<1>2. call'[g] = r /\ \A h \in Goroutines : h # g => call'[h] = call[h]
  BY <1>1
<1>3. ASSUME NEW h \in Goroutines PROVE ArraysOf(call[h]) \subseteq DOMAIN heap
  <2>1. Within(call[h].base, heap) /\ Within(call[h].fields, heap)
    BY <1>0 DEF RightInv, Right
  <2> QED
    BY <2>1 DEF Within, Nil, ArraysOf
<1>4. ASSUME NEW h \in Goroutines, h # g PROVE ArraysOf(call[h]) \cap ArraysOf(r) = {} /\ a \notin ArraysOf(call[h])
  <2>1. ArraysOf(call[h]) \cap ArraysOf(call[g]) = {}
    BY <1>0, <1>4 DEF ApartInv
  <2> QED
    BY <1>3, <2>1 DEF ArraysOf
<1>5. Own(a)
  BY CallOfG DEF ArraysOf, Own
<1>6. ASSUME NEW h \in Goroutines PROVE Right(call[h], heap)'
  <2>1. CASE h = g
    BY <1>2, <2>1
  <2>2. CASE h # g
    <3>1. PICK s, x, y : s = call[h] /\ x = heap /\ y = heap'
      OBVIOUS
    <3>2. Right(s, x) /\ \A b \in ArraysOf(s) : b \in DOMAIN y /\ y[b] = x[b]
      BY <1>0, <1>3, <1>4, <2>2, <3>1 DEF RightInv, OnlyWrites
    <3>3. Right(s, y)'
      BY <1>0, <3>1, <3>2, RightKept
    <3>4. call'[h] = s /\ heap' = y
      BY <1>2, <2>2, <3>1
    <3> QED
      BY <3>3, <3>4
  <2> QED
    BY <2>1, <2>2
<1>7. RightInv'
  BY <1>6 DEF RightInv
<1>8. ApartInv'
  <2>1. ASSUME NEW h \in Goroutines, NEW k \in Goroutines, h # k
        PROVE  /\ ArraysOf(call'[h]) \cap ArraysOf(call'[k]) = {}
               /\ call'[h].stage # 0 => call'[h].event # call'[k].event
    <3>1. CASE h = g
      BY <1>2, <1>4, <2>1, <3>1 DEF EventOfItsOwn
    <3>2. CASE k = g
      BY <1>2, <1>4, <2>1, <3>2 DEF EventOfItsOwn
    <3>3. CASE h # g /\ k # g
      <4>1. call'[h] = call[h] /\ call'[k] = call[k]
        BY <1>2, <3>3
      <4>2. /\ ArraysOf(call[h]) \cap ArraysOf(call[k]) = {}
            /\ call[h].stage # 0 => call[h].event # call[k].event
        BY <1>0, <2>1 DEF ApartInv
      <4> QED
        BY <4>1, <4>2
    <3> QED
      BY <3>1, <3>2, <3>3
  <2> QED
    BY <2>1 DEF ApartInv, ArraysOf
<1>9. ASSUME NEW q, \E i \in DOMAIN queue : q = queue[i]
      PROVE  Queued(q, heap)' /\ \A h \in Goroutines : q.fields.arr \notin ArraysOf(call'[h])
  <2>2. Queued(q, heap) /\ \A h \in Goroutines : q.fields.arr \notin ArraysOf(call[h])
    BY <1>0, <1>9 DEF QueueInv
  <2>3. q.fields.arr = 0 \/ q.fields.arr \in DOMAIN heap
    BY <2>2 DEF Queued, Within, Nil
  <2>4. q.fields # Nil => q.fields.arr \in DOMAIN heap /\ q.fields.arr # 0
    BY <1>0, <2>2 DEF Queued, Within
  <2>5. q.fields # Nil => q.fields.arr \in DOMAIN heap' /\ heap'[q.fields.arr] = heap[q.fields.arr]
    BY <2>2, <2>4 DEF OnlyWrites
  <2>6. KindsKept
    BY DEF KindsKept
  <2>7. Queued(q, heap)'
    BY <1>0, <2>2, <2>5, <2>6, QueuedKept
  <2>8. ASSUME NEW h \in Goroutines PROVE q.fields.arr \notin ArraysOf(call'[h])
    <3>1. CASE h = g
      <4>1. q.fields.arr # 0 => q.fields.arr \notin ArraysOf(r)
        BY <2>2, <2>3
      <4>2. q.fields.arr \notin ArraysOf(r)
        BY <4>1 DEF ArraysOf
      <4> QED
        BY <1>2, <3>1, <4>2
    <3>2. CASE h # g
      BY <1>2, <2>2, <3>2
    <3> QED
      BY <3>1, <3>2
  <2> QED
    BY <2>7, <2>8
<1>10. WasInv'
  BY <1>5, WasKept
<1>11. BoxesInv' /\ ArraysInv'
  BY <1>0, OperatorsKept DEF IsHeap, ArraysInv
<1> QED
  BY <1>7, <1>8, <1>9, <1>10, <1>11

-----------------------------------------------------------------------------
(* The actions once more: what they make of a call and its event. *)

\* A step that goes on with the same event, and writes nothing down.
LEMMA CallGoesOn ==
  ASSUME FieldsInv, StoryInv, NEW g \in Goroutines, NEW r, call' = [call EXCEPT ![g] = r],
         UNCHANGED <<boxes, loggers, events>>,
         IsHeap(heap'), \E k : k = heap' /\ Right(r, k), NEW a, a \in ArraysOf(call[g]) \cup {0},
         OnlyWrites(a),
         ArraysOf(r) \cap DOMAIN heap \subseteq ArraysOf(call[g]), r.event = call[g].event, call[g].stage # 0
  PROVE  /\ BoxesInv' /\ ArraysInv' /\ WasInv' /\ RightInv' /\ ApartInv' /\ CountInv'
         /\ \A q : (\E i \in DOMAIN queue : q = queue[i]) =>
              Queued(q, heap)' /\ \A h \in Goroutines : q.fields.arr \notin ArraysOf(call'[h])
<1>1. IsSeq(events) /\ EventsGrow
  BY EventsSame
<1>2. Right(r, heap)'
  <2>1. PICK k : k = heap' /\ Right(r, k)
    OBVIOUS
  <2>2. Right(r, k)'
    <3>1. \A b \in ArraysOf(r) : b \in DOMAIN k
      BY <2>1 DEF Right, Within, Nil, ArraysOf
    <3>2. IsSeq(k)
      BY <2>1 DEF IsHeap
    <3> QED
      BY <1>1, <2>1, <3>1, <3>2, RightKept
  <2> QED
    BY <2>1, <2>2
<1>3. EventOfItsOwn(g, r)
  BY DEF StoryInv, ApartInv, EventOfItsOwn
<1>4. CountInv'
  BY DEF StoryInv, CountInv
<1> QED
  BY <1>1, <1>2, <1>3, <1>4, StepOfCall

LEMMA QueueSame ==
  ASSUME UNCHANGED queue, IsSeq(queue),
         \A q : (\E i \in DOMAIN queue : q = queue[i]) =>
           Queued(q, heap)' /\ \A h \in Goroutines : q.fields.arr \notin ArraysOf(call'[h])
  PROVE  QueueInv'
<1>1. ASSUME NEW i \in DOMAIN queue'
      PROVE  Queued(queue[i], heap)' /\ \A h \in Goroutines : queue'[i].fields.arr \notin ArraysOf(call'[h])
  <2>1. PICK q : q = queue[i]
    OBVIOUS
  <2>2. Queued(q, heap)' /\ \A h \in Goroutines : q.fields.arr \notin ArraysOf(call'[h])
    BY <2>1
  <2>3. queue'[i] = q
    BY <2>1
  <2> QED
    BY <2>2, <2>3
<1> QED
  BY <1>1 DEF QueueInv, ArraysOf

LEMMA ContentAt ==
  ASSUME NEW h, NEW s, IsHeap(h) /\ Within(s, h)
  PROVE  DOMAIN Content(h, s) = 1..s.len /\ \A i \in 1..s.len : Content(h, s)[i] = h[s.arr][i]
BY ContentIs

RedactedIn(h, s) ==
  IF s.len = 0 THEN h
  ELSE [h EXCEPT ![s.arr] = [i \in DOMAIN @ |-> IF i <= s.len THEN RedactField(@[i]) ELSE @[i]]]

\* What redacting fields in place does to the slices on the arrays.
LEMMA RedactHeap ==
  ASSUME BoxesInv, NEW h, IsHeap(h), NEW s, Within(s, h), NEW k,
         k = RedactedIn(h, s)
  PROVE  /\ IsHeap(k) /\ DOMAIN k = DOMAIN h
         /\ \A b \in DOMAIN h : b # s.arr => k[b] = h[b]
         /\ \A t : Within(t, h) =>
              /\ Within(t, k) /\ DOMAIN Content(k, t) = DOMAIN Content(h, t)
              /\ \A i \in DOMAIN Content(h, t) :
                   Content(k, t)[i] \in {Content(h, t)[i], RedactField(Content(h, t)[i])}
         /\ \A i \in DOMAIN Content(h, s) : Content(k, s)[i] = RedactField(Content(h, s)[i])
<1>1. CASE s.len = 0
  <2>1. k = h
    BY <1>1 DEF RedactedIn
  <2>2. DOMAIN Content(h, s) = {}
    BY <1>1, ContentIs
  <2> QED
    BY <2>1, <2>2
<1>2. CASE s.len # 0
  <2> DEFINE x == s.arr
             n == s.len
             old == h[x]
             new == [i \in DOMAIN old |-> IF i <= n THEN RedactField(old[i]) ELSE old[i]]
  <2>1. x \in DOMAIN h /\ n \in 0..Len(old)
    BY <1>2 DEF Within, Nil
  <2>2. k = [h EXCEPT ![x] = new]
    BY <1>2 DEF RedactedIn
  <2>3. IsSeq(old) /\ Len(old) \in Nat /\ DOMAIN old = 1..Len(old) /\ IsSeq(h)
    BY <2>1, SeqIs DEF IsHeap
  <2>4. IsSeq(new) /\ Len(new) = Len(old) /\ DOMAIN new = DOMAIN old
    <3>1. new = [i \in 1..Len(old) |-> new[i]]
      BY <2>3
    <3> HIDE DEF new
    <3> QED
      BY <2>3, <3>1, FunIsSeq
  <2>5. \A i \in DOMAIN old : new[i] = IF i <= n THEN RedactField(old[i]) ELSE old[i]
    OBVIOUS
  <2> HIDE DEF new, old, x, n
  <2>6. IsSeq(k) /\ DOMAIN k = DOMAIN h /\ k[x] = new /\ \A b \in DOMAIN h : b # x => k[b] = h[b]
    <3>1. IsSeq([h EXCEPT ![x] = new])
      BY <2>1, <2>3, ExceptIsSeq
    <3>2. DOMAIN k = DOMAIN h /\ k[x] = new /\ \A b \in DOMAIN h : b # x => k[b] = h[b]
      BY <2>1, <2>2
    <3> QED
      BY <2>2, <3>1, <3>2
  <2>7. IsHeap(k)
    BY <2>4, <2>6 DEF IsHeap
  <2>8. \A b \in DOMAIN h : Len(k[b]) = Len(h[b])
    BY <2>4, <2>6 DEF old
  <2>9. ASSUME NEW t, Within(t, h)
        PROVE  /\ Within(t, k) /\ DOMAIN Content(k, t) = DOMAIN Content(h, t)
               /\ \A i \in DOMAIN Content(h, t) :
                    Content(k, t)[i] \in {Content(h, t)[i], RedactField(Content(h, t)[i])}
    <3>1. Within(t, k)
      BY <2>6, <2>8, <2>9 DEF Within
    <3>2. /\ DOMAIN Content(k, t) = 1..t.len /\ DOMAIN Content(h, t) = 1..t.len /\ t.len \in Nat
          /\ \A i \in 1..t.len : Content(h, t)[i] = h[t.arr][i] /\ Content(k, t)[i] = k[t.arr][i]
      <4>1. DOMAIN Content(k, t) = 1..t.len /\ \A i \in 1..t.len : Content(k, t)[i] = k[t.arr][i]
        BY <2>7, <3>1, ContentAt
      <4>2. /\ DOMAIN Content(h, t) = 1..t.len /\ t.len \in Nat
            /\ \A i \in 1..t.len : Content(h, t)[i] = h[t.arr][i]
        BY <2>9, ContentIs
      <4> QED
        BY <4>1, <4>2
    <3>3. ASSUME NEW i \in 1..t.len PROVE k[t.arr][i] \in {h[t.arr][i], RedactField(h[t.arr][i])}
      <4>1. t.arr \in DOMAIN h /\ t.len \in 0..Len(h[t.arr])
        BY <2>9 DEF Within, Nil
      <4>2. CASE t.arr # x
        BY <2>6, <4>1, <4>2
      <4>3. CASE t.arr = x
        <5>1. i \in DOMAIN old
          BY <2>3, <3>2, <4>1, <4>3 DEF old
        <5>2. k[t.arr] = new /\ h[t.arr] = old
          BY <2>6, <4>3 DEF old
        <5> QED
          BY <2>5, <5>1, <5>2
      <4> QED
        BY <4>2, <4>3
    <3> QED
      BY <3>1, <3>2, <3>3
  <2>10. ASSUME NEW i \in DOMAIN Content(h, s) PROVE Content(k, s)[i] = RedactField(Content(h, s)[i])
    <3>1. Within(s, k)
      BY <2>9
    <3>2. i \in 1..n /\ Content(h, s)[i] = h[s.arr][i] /\ Content(k, s)[i] = k[s.arr][i]
      <4>1. \A j \in 1..s.len : Content(k, s)[j] = k[s.arr][j]
        BY <2>7, <3>1, ContentAt
      <4>2. DOMAIN Content(h, s) = 1..s.len /\ \A j \in 1..s.len : Content(h, s)[j] = h[s.arr][j]
        BY ContentIs
      <4> QED
        BY <4>1, <4>2 DEF n
    <3>3. i \in DOMAIN old /\ i <= n
      BY <2>1, <2>3, <3>2
    <3>4. k[s.arr] = new /\ h[s.arr] = old
      BY <2>6 DEF x, old
    <3> QED
      BY <2>5, <3>2, <3>3, <3>4
  <2>11. \A b \in DOMAIN h : b # s.arr => k[b] = h[b]
    BY <2>6 DEF x
  <2> QED
    BY <2>6, <2>7, <2>9, <2>10, <2>11
<1> QED
  BY <1>1, <1>2

\* The story of a call when its stage, its fields and its error have moved on.
LEMMA StoryNext ==
  ASSUME BoxesInv, NEW r, NEW h, IsHeap(h), NEW k, IsHeap(k), Right(r, h), r.stage \in 1..Len(Pipeline),
         NEW q, NEW p, p = Pipeline[r.stage],
         q.event = r.event, q.name = r.name, q.ids = r.ids, q.stage = r.stage + 1, q.base = r.base,
         q.err = IF p = "redact" THEN ErrorAfter({"redact"}, r.err) ELSE r.err,
         Within(q.fields, k), Within(q.base, k), q.base.len <= q.fields.len,
         Content(k, q.fields) = Processed(p, Content(h, r.fields), r.ids),
         \/ Content(k, q.base) = Content(h, r.base)
         \/ /\ p = "redact" /\ DOMAIN Content(k, q.base) = DOMAIN Content(h, r.base)
            /\ \A i \in DOMAIN Content(h, r.base) :
                 Content(k, q.base)[i] \in {Content(h, r.base)[i], RedactField(Content(h, r.base)[i])}
  PROVE  Right(q, k)
<1> DEFINE n == r.stage - 1
<1>1. /\ n \in 0..Len(Pipeline) - 1 /\ n + 1 = r.stage /\ r.stage # 0 /\ Done(r) = n
      /\ q.stage # 0 /\ q.stage \in 0..Len(Pipeline) + Len(Children) + 1 /\ Done(q) = n + 1
  BY Lists DEF Done
<1>2. PICK orig, f : StoryOf(r, h, orig, f)
  BY <1>1 DEF Right
<1> HIDE DEF n
<1>3. /\ IsFields(orig) /\ Steps(f, orig, r.ids) /\ Promised(events[r.event], f[Len(Pipeline)], r.name)
      /\ BaseIs(Content(h, r.base), orig) /\ FieldsAre(Content(h, r.fields), f[n], orig, n)
      /\ ErrorIs(r.err, events[r.event].err, n)
  BY <1>1, <1>2 DEF StoryOf
<1>4. IsFields(f[n]) /\ DOMAIN orig \subseteq DOMAIN f[n] /\ f[n + 1] = Processed(p, f[n], r.ids)
  BY <1>1, <1>3, StepsAre
<1>5. IsSeq(Content(h, r.fields))
  <2>1. Within(r.fields, h)
    BY DEF Right
  <2> QED
    BY <2>1, ContentIs
<1>6. FieldsAre(Content(k, q.fields), f[n + 1], orig, n + 1)
  <2>1. p = Pipeline[n + 1]
    BY <1>1
  <2>2. FieldsAre(Processed(p, Content(h, r.fields), r.ids), Processed(p, f[n], r.ids), orig, n + 1)
    BY <1>1, <1>3, <1>4, <1>5, <2>1, FieldsAreNext
  <2> QED
    BY <1>4, <2>2
<1>7. ErrorIs(q.err, events[r.event].err, n + 1)
  BY <1>1, <1>3, ErrorIsNext
<1>8. BaseIs(Content(k, q.base), orig)
  <2>1. p = "redact" => Redacts(Len(Pipeline))
    BY <1>1 DEF Redacts
  <2> QED
    BY <1>3, <2>1, BaseIsNext
<1>9. StoryOf(q, k, orig, f)
  BY <1>1, <1>3, <1>6, <1>7, <1>8 DEF StoryOf
<1>10. q.event \in 0..Len(events) /\ q.event # 0
  BY <1>1 DEF Right
<1> QED
  BY <1>1, <1>9, <1>10 DEF Right

LEMMA CallQuiet ==
  ASSUME FieldsInv, StoryInv, UNCHANGED <<events, queue, records>>,
         /\ BoxesInv' /\ ArraysInv' /\ WasInv' /\ RightInv' /\ ApartInv' /\ CountInv'
         /\ \A q : (\E i \in DOMAIN queue : q = queue[i]) =>
              Queued(q, heap)' /\ \A h \in Goroutines : q.fields.arr \notin ArraysOf(call'[h])
  PROVE  StoryInv'
<1>1. QueueInv'
  BY QueueSame DEF StoryInv, QueueInv
<1>2. RecordsInv'
  BY EventsSame, RecordsKept DEF StoryInv
<1> QED
  BY <1>1, <1>2 DEF StoryInv

LEMMA StoryAt ==
  ASSUME FieldsInv, StoryInv, NEW g \in Goroutines
  PROVE  /\ BoxesInv /\ IsHeap(heap) /\ Right(call[g], heap)
         /\ Within(call[g].base, heap) /\ Within(call[g].fields, heap)
         /\ ArraysOf(call[g]) \subseteq DOMAIN heap
<1>1. BoxesInv /\ Right(call[g], heap)
  BY DEF StoryInv, RightInv
<1>2. Within(call[g].base, heap) /\ Within(call[g].fields, heap)
  BY <1>1 DEF Right
<1>3. ArraysOf(call[g]) \subseteq DOMAIN heap
  BY <1>2 DEF Within, Nil, ArraysOf
<1> QED
  BY <1>1, <1>2, <1>3, HeapIs

LEMMA RedactStory ==
  ASSUME FieldsInv, StoryInv, NEW g \in Goroutines, Redact(g)
  PROVE  StoryInv'
<1> DEFINE new == [call[g] EXCEPT !.stage = call[g].stage + 1, !.fields = call[g].fields,
                                  !.err = ErrorAfter({"redact"}, call[g].err), !.again = call[g].again]
<1>1. PICK r, c, h, k : r = new /\ c = call[g] /\ h = heap /\ k = heap'
  OBVIOUS
<1>2. call' = [call EXCEPT ![g] = r] /\ UNCHANGED <<boxes, loggers, events, queue, records>>
  <2>1. PICK S : call \in [Goroutines -> S]
    BY DEF FieldsInv, CallsInv
  <2>2. PICK U : call[g] \in CallOf(U)
    BY CallOfG DEF IsCall
  <2>3. [call[g] EXCEPT !.stage = @ + 1, !.err = ErrorAfter({"redact"}, @)] = new
    BY <2>2 DEF CallOf
  <2>4. call' = [call EXCEPT ![g] = [call[g] EXCEPT !.stage = @ + 1, !.err = ErrorAfter({"redact"}, @)]]
    BY <2>1 DEF Redact
  <2> HIDE DEF new
  <2> QED
    BY <1>1, <2>3, <2>4 DEF Redact
<1>3. /\ r.stage = c.stage + 1 /\ r.fields = c.fields /\ r.err = ErrorAfter({"redact"}, c.err)
      /\ r.event = c.event /\ r.base = c.base /\ r.ids = c.ids /\ r.name = c.name
  <2>1. PICK U : call[g] \in CallOf(U)
    BY CallOfG DEF IsCall
  <2> QED
    BY <1>1, <2>1 DEF CallOf
<1> HIDE DEF new
<1>4. /\ c.stage \in 1..Len(Pipeline) /\ Pipeline[c.stage] = "redact"
      /\ k = RedactedIn(h, c.fields)
  BY <1>1 DEF Redact, Processing, Processor, RedactedIn
<1>5. /\ BoxesInv /\ IsHeap(h) /\ Right(c, h) /\ Within(c.base, h) /\ Within(c.fields, h)
      /\ c.base.len <= c.fields.len
  BY <1>1, StoryAt DEF Right
<1>6. /\ IsHeap(k) /\ DOMAIN k = DOMAIN h
      /\ \A b \in DOMAIN h : b # c.fields.arr => k[b] = h[b]
      /\ Within(c.base, k) /\ DOMAIN Content(k, c.base) = DOMAIN Content(h, c.base)
      /\ \A i \in DOMAIN Content(h, c.base) :
           Content(k, c.base)[i] \in {Content(h, c.base)[i], RedactField(Content(h, c.base)[i])}
      /\ Within(c.fields, k) /\ DOMAIN Content(k, c.fields) = DOMAIN Content(h, c.fields)
      /\ \A i \in DOMAIN Content(h, c.fields) : Content(k, c.fields)[i] = RedactField(Content(h, c.fields)[i])
  BY <1>4, <1>5, RedactHeap
<1>7. Content(k, r.fields) = Processed("redact", Content(h, c.fields), c.ids)
  <2>1. Processed("redact", Content(h, c.fields), c.ids)
          = [i \in DOMAIN Content(h, c.fields) |-> RedactField(Content(h, c.fields)[i])]
    BY DEF Processed
  <2>2. IsSeq(Content(k, c.fields))
    BY <1>6, ContentIs
  <2>3. Content(k, c.fields) = [i \in DOMAIN Content(k, c.fields) |-> Content(k, c.fields)[i]]
    BY <2>2, SeqIs
  <2> QED
    BY <1>3, <1>6, <2>1, <2>3
<1>8. Right(r, k)
  BY <1>3, <1>4, <1>5, <1>6, <1>7, StoryNext
<1>9. OnlyWrites(c.fields.arr) /\ c.fields.arr \in ArraysOf(call[g]) \cup {0}
  BY <1>1, <1>6 DEF OnlyWrites, ArraysOf
<1>10. ArraysOf(r) \cap DOMAIN heap \subseteq ArraysOf(call[g])
  BY <1>1, <1>3 DEF ArraysOf
<1>11. IsHeap(heap') /\ (\E x : x = heap' /\ Right(r, x)) /\ r.event = call[g].event /\ call[g].stage # 0
  BY <1>1, <1>3, <1>4, <1>6, <1>8
<1> QED
  BY <1>2, <1>9, <1>10, <1>11, CallGoesOn, CallQuiet

\* A slice no longer than the cells that have stayed.
LEMMA PrefixKept ==
  ASSUME NEW h, IsHeap(h), NEW k, IsHeap(k), NEW t, Within(t, h), NEW n \in Nat, t.len <= n,
         \A a \in DOMAIN h : a \in DOMAIN k /\ Len(k[a]) = Len(h[a]) /\ \A i \in 1..n : k[a][i] = h[a][i]
  PROVE  Within(t, k) /\ Content(k, t) = Content(h, t)
<1>1. Within(t, k)
  BY DEF Within
<1>2. /\ IsSeq(Content(h, t)) /\ DOMAIN Content(h, t) = 1..t.len /\ t.len \in Nat
      /\ \A i \in 1..t.len : Content(h, t)[i] = h[t.arr][i]
  BY ContentIs
<1>3. /\ IsSeq(Content(k, t)) /\ DOMAIN Content(k, t) = 1..t.len
      /\ \A i \in 1..t.len : Content(k, t)[i] = k[t.arr][i]
  BY <1>1, ContentIs
<1>4. ASSUME NEW i \in 1..t.len PROVE k[t.arr][i] = h[t.arr][i]
  <2>1. t.arr \in DOMAIN h /\ i \in 1..n
    BY <1>2 DEF Within, Nil
  <2> QED
    BY <2>1
<1>5. Content(k, t) = Content(h, t)
  BY <1>2, <1>3, <1>4, SameSeq
<1> QED
  BY <1>1, <1>5

LEMMA EnrichStory ==
  ASSUME FieldsInv, StoryInv, NEW g \in Goroutines, Enrich(g)
  PROVE  StoryInv'
<1>0. /\ BoxesInv /\ IsHeap(heap) /\ Right(call[g], heap) /\ Within(call[g].base, heap)
      /\ Within(call[g].fields, heap) /\ IsSeq(heap) /\ Len(heap) \in Nat /\ DOMAIN heap = 1..Len(heap)
  BY StoryAt, HeapIs
<1>1. PICK c, h, k : c = call[g] /\ h = heap /\ k = heap'
  OBVIOUS
<1>a. PICK s, p, cells : /\ s = c.fields /\ p = Pipeline[c.stage]
                         /\ cells = IF Adds(g, Processor(g)) THEN <<IdField(p)>> ELSE <<>>
  OBVIOUS
<1>2. PICK spare \in Spare :
        /\ k = GoAppend(h, s, cells, spare).heap
        /\ call' = [call EXCEPT ![g].stage = @ + 1, ![g].fields = GoAppend(h, s, cells, spare).slice]
        /\ UNCHANGED <<boxes, loggers, events, queue, records>>
  BY <1>1, <1>a DEF Enrich, Processor
<1>3. PICK f : f = GoAppend(h, s, cells, spare)
  OBVIOUS
<1>4. PICK r : r = [call[g] EXCEPT !.stage = call[g].stage + 1, !.fields = f.slice]
  OBVIOUS
<1>5. call' = [call EXCEPT ![g] = r]
  <2>1. PICK S : call \in [Goroutines -> S]
    BY DEF FieldsInv, CallsInv
  <2> QED
    BY <1>2, <1>3, <1>4, <2>1
<1>6. /\ r.stage = c.stage + 1 /\ r.fields = f.slice /\ r.err = c.err
      /\ r.event = c.event /\ r.base = c.base /\ r.ids = c.ids /\ r.name = c.name
  <2>1. PICK U : call[g] \in CallOf(U)
    BY CallOfG DEF IsCall
  <2> QED
    BY <1>1, <1>4, <2>1 DEF CallOf
<1>7. /\ c.stage \in 1..Len(Pipeline) /\ p # "redact"
      /\ cells = IF p \in c.ids /\ ~HasKey(Content(h, s), p) THEN <<IdField(p)>> ELSE <<>>
  BY <1>1, <1>a DEF Enrich, Processing, Processor, Adds
<1>8. IsSeq(cells) /\ Len(cells) \in Nat
  BY <1>a, EmptyIsSeq, OneIsSeq
<1>9. IsSeq(Content(h, s)) /\ s.len \in Nat /\ IsSlice(s) /\ Sliced(s, h) /\ c.base.len \in Nat /\ c.base.len <= s.len
  <2>1. Within(s, h) /\ Within(c.base, h) /\ c.base.len <= s.len /\ IsHeap(h)
    BY <1>0, <1>1, <1>a DEF Right
  <2> QED
    BY <2>1, ContentIs, WithinIsSliced DEF IsSlice
<1>10. Content(h, s) \o cells = Processed(p, Content(h, s), c.ids)
  <2>1. Content(h, s) \o <<IdField(p)>> = Append(Content(h, s), IdField(p)) /\ Content(h, s) \o <<>> = Content(h, s)
    BY <1>9, AppendConcat
  <2>2. Processed(p, Content(h, s), c.ids) =
          IF p \in c.ids /\ ~HasKey(Content(h, s), p) THEN Append(Content(h, s), IdField(p)) ELSE Content(h, s)
    BY <1>7 DEF Processed
  <2>3. CASE p \in c.ids /\ ~HasKey(Content(h, s), p)
    BY <1>7, <2>1, <2>2, <2>3
  <2>4. CASE ~(p \in c.ids /\ ~HasKey(Content(h, s), p))
    <3>1. cells = <<>>
      BY <1>7, <2>4
    <3>2. Processed(p, Content(h, s), c.ids) = Content(h, s)
      BY <2>2, <2>4
    <3> QED
      BY <2>1, <3>1, <3>2
  <2> QED
    BY <2>3, <2>4
<1>b. AppendDoes(h, s, cells, f)
  <2>1. IsHeap(h) /\ Within(s, h) /\ spare \in Nat
    BY <1>0, <1>1, <1>a, BoundsAssumption
  <2>2. AppendDoes(h, s, cells, GoAppend(h, s, cells, spare))
    BY <1>8, <2>1, AppendContent
  <2> QED
    BY <1>3, <2>2
<1>11. k = f.heap
  BY <1>2, <1>3
<1>12. /\ IsHeap(k) /\ Within(f.slice, k) /\ Content(k, f.slice) = Content(h, s) \o cells
       /\ f.slice.len = s.len + Len(cells)
       /\ \A a \in DOMAIN h : Len(k[a]) = Len(h[a]) /\ \A i \in 1..s.len : k[a][i] = h[a][i]
       /\ Len(k) >= Len(h) /\ \A a \in DOMAIN h : a # s.arr => k[a] = h[a]
       /\ f.slice.arr \in {s.arr, Len(h) + 1}
  BY <1>b, <1>11 DEF AppendDoes
<1>13. DOMAIN h = 1..Len(h) /\ DOMAIN k = 1..Len(k) /\ Len(h) \in Nat
  BY <1>0, <1>1, <1>12, SeqIs DEF IsHeap
<1>14. Within(c.base, k) /\ Content(k, c.base) = Content(h, c.base)
  <2>1. \A a \in DOMAIN h : a \in DOMAIN k /\ Len(k[a]) = Len(h[a]) /\ \A i \in 1..s.len : k[a][i] = h[a][i]
    BY <1>12, <1>13
  <2>2. IsHeap(h) /\ Within(c.base, h)
    BY <1>0, <1>1
  <2> QED
    BY <1>9, <1>12, <2>1, <2>2, PrefixKept
<1>15. Right(r, k)
  <2>1. BoxesInv /\ IsHeap(h) /\ Right(c, h)
    BY <1>0, <1>1
  <2>2. Content(k, r.fields) = Processed(p, Content(h, c.fields), c.ids)
    BY <1>a, <1>6, <1>10, <1>12
  <2>3. Within(r.fields, k) /\ Within(r.base, k) /\ r.base.len <= r.fields.len
    BY <1>6, <1>8, <1>9, <1>12, <1>14
  <2>4. p = Pipeline[c.stage]
    BY <1>a
  <2>5. r.err = IF p = "redact" THEN ErrorAfter({"redact"}, c.err) ELSE c.err
    BY <1>6, <1>7
  <2>6. Content(k, r.base) = Content(h, c.base)
    BY <1>6, <1>14
  <2> QED
    BY <1>6, <1>7, <1>12, <2>1, <2>2, <2>3, <2>4, <2>5, <2>6, StoryNext
<1>16. OnlyWrites(s.arr) /\ s.arr \in ArraysOf(call[g]) \cup {0}
  BY <1>a, <1>1, <1>12, <1>13 DEF OnlyWrites, ArraysOf
<1>17. ArraysOf(r) \cap DOMAIN heap \subseteq ArraysOf(call[g])
  BY <1>a, <1>1, <1>6, <1>12, <1>13 DEF ArraysOf
<1>18. IsHeap(heap') /\ (\E x : x = heap' /\ Right(r, x)) /\ r.event = call[g].event /\ call[g].stage # 0
  BY <1>1, <1>6, <1>7, <1>12, <1>15
<1> QED
  BY <1>2, <1>5, <1>16, <1>17, <1>18, CallGoesOn, CallQuiet

LEMMA HeapUnwritten ==
  ASSUME UNCHANGED heap
  PROVE  OnlyWrites(0)
BY DEF OnlyWrites

LEMMA CallAgainStory ==
  ASSUME FieldsInv, StoryInv, NEW g \in Goroutines, CallAgain(g)
  PROVE  StoryInv'
<1>0. /\ BoxesInv /\ IsHeap(heap) /\ Right(call[g], heap) /\ Within(call[g].base, heap)
  BY StoryAt
<1>1. PICK c, h : c = call[g] /\ h = heap
  OBVIOUS
<1>2. PICK r : r = [call[g] EXCEPT !.stage = 1, !.again = TRUE, !.fields = call[g].base]
  OBVIOUS
<1>3. call' = [call EXCEPT ![g] = r] /\ UNCHANGED <<heap, boxes, loggers, events, queue, records>>
  <2>1. PICK S : call \in [Goroutines -> S]
    BY DEF FieldsInv, CallsInv
  <2> QED
    BY <1>2, <2>1 DEF CallAgain
<1>4. /\ r.stage = 1 /\ r.fields = c.base /\ r.err = c.err
      /\ r.event = c.event /\ r.base = c.base /\ r.ids = c.ids /\ r.name = c.name
  <2>1. PICK U : call[g] \in CallOf(U)
    BY CallOfG DEF IsCall
  <2> QED
    BY <1>1, <1>2, <2>1 DEF CallOf
<1>5. c.stage = Len(Pipeline) + Len(Children) + 1 /\ c.stage # 0 /\ Done(c) = Len(Pipeline) /\ Done(r) = 0
      /\ 1 \in 0..Len(Pipeline) + Len(Children) + 1
  BY <1>1, <1>4, Lists DEF CallAgain, AtEnd, Done
<1>6. PICK orig, f : StoryOf(c, h, orig, f)
  BY <1>0, <1>1, <1>5 DEF Right
<1>7. StoryOf(r, h, orig, f)
  <2>1. FieldsAre(Content(h, r.fields), f[0], orig, 0)
    <3>1. BaseIs(Content(h, c.base), orig) /\ IsFields(orig) /\ Steps(f, orig, c.ids)
      BY <1>6 DEF StoryOf
    <3>2. f[0] = orig
      BY <1>0, <3>1, StepsAre
    <3> QED
      BY <1>4, <3>1, <3>2, FieldsAreAtStart
  <2>2. ErrorIs(r.err, events[r.event].err, 0)
    BY <1>4, <1>5, <1>6, ErrorIsAgain DEF StoryOf
  <2> QED
    BY <1>4, <1>5, <1>6, <2>1, <2>2 DEF StoryOf
<1>8. Right(r, h)
  <2>1. Right(c, h) /\ Within(c.base, h) /\ c.base.len \in Nat
    BY <1>0, <1>1, ContentIs
  <2> QED
    BY <1>4, <1>5, <1>7, <2>1 DEF Right
<1>9. OnlyWrites(0) /\ 0 \in ArraysOf(call[g]) \cup {0}
  BY <1>3, HeapUnwritten
<1>10. ArraysOf(r) \cap DOMAIN heap \subseteq ArraysOf(call[g])
  BY <1>1, <1>4 DEF ArraysOf
<1>11. IsHeap(heap') /\ (\E x : x = heap' /\ Right(r, x)) /\ r.event = call[g].event /\ call[g].stage # 0
  BY <1>0, <1>1, <1>3, <1>4, <1>5, <1>8
<1> QED
  BY <1>3, <1>9, <1>10, <1>11, CallGoesOn, CallQuiet

LEMMA ReturnStory ==
  ASSUME FieldsInv, StoryInv, NEW g \in Goroutines, Return(g)
  PROVE  StoryInv'
<1>1. call' = [call EXCEPT ![g] = Idle] /\ UNCHANGED <<heap, boxes, loggers, events, queue, records>>
  BY DEF Return
<1>2. IsSeq(events) /\ EventsGrow /\ IsHeap(heap) /\ Len(events) \in Nat
  BY <1>1, EventsSame, HeapIs, SeqIs
<1>3. /\ Idle.stage = 0 /\ Idle.event = 0 /\ Idle.base = Nil /\ Idle.fields = Nil
  BY DEF Idle
<1>4. Right(Idle, heap)'
  <2>1. Within(Nil, heap') /\ Nil.len <= Nil.len
    BY DEF Within, IsSlice, Nil
  <2>2. Len(events') \in Nat
    BY <1>1, <1>2
  <2>3. Idle.stage \in 0..Len(Pipeline) + Len(Children) + 1 /\ Idle.event \in 0..Len(events')
    BY <1>3, <2>2, Lists
  <2> QED
    BY <1>3, <2>1, <2>3 DEF Right
<1>5. EventOfItsOwn(g, Idle)
  BY <1>3 DEF EventOfItsOwn, StoryInv, RightInv, Right
<1>6. ArraysOf(Idle) = {}
  BY <1>3 DEF ArraysOf, Nil
<1>7. OnlyWrites(0) /\ 0 \in ArraysOf(call[g]) \cup {0}
  BY <1>1, HeapUnwritten
<1>8. /\ BoxesInv' /\ ArraysInv' /\ WasInv' /\ RightInv' /\ ApartInv'
      /\ \A q : (\E i \in DOMAIN queue : q = queue[i]) =>
           Queued(q, heap)' /\ \A h \in Goroutines : q.fields.arr \notin ArraysOf(call'[h])
  BY <1>1, <1>2, <1>4, <1>5, <1>6, <1>7, StepOfCall
<1>9. CountInv'
  BY <1>1 DEF StoryInv, CountInv
<1> QED
  BY <1>1, <1>8, <1>9, CallQuiet

-----------------------------------------------------------------------------
(* Writing. *)

\* Behind the processors the call has the fields and the error its event promises.
LEMMA WritingIs ==
  ASSUME FieldsInv, StoryInv, NEW g \in Goroutines, Writing(g),
         NEW r, r = call[g], NEW c, c = Content(heap, r.fields), NEW e, e = events[r.event]
  PROVE  /\ IsFields(c) /\ e.line = Line(c) /\ e.payload = EventPayload(c, r.name, r.err)
         /\ e.name = r.name /\ e.err = r.err /\ r.event \in 1..Len(events)
         /\ Redacts(Len(Pipeline)) => Safe(c)
<1>1. BoxesInv /\ IsHeap(heap) /\ Right(r, heap) /\ Within(r.fields, heap)
  BY StoryAt
<1>2. Done(r) = Len(Pipeline) /\ r.stage # 0 /\ Len(Pipeline) \in 0..Len(Pipeline)
  BY Lists DEF Writing, Done
<1>3. PICK orig, f : StoryOf(r, heap, orig, f)
  BY <1>1, <1>2 DEF Right
<1>4. /\ IsFields(orig) /\ Steps(f, orig, r.ids) /\ Promised(e, f[Len(Pipeline)], r.name)
      /\ FieldsAre(c, f[Len(Pipeline)], orig, Len(Pipeline)) /\ ErrorIs(r.err, e.err, Len(Pipeline))
  BY <1>2, <1>3 DEF StoryOf
<1>5. IsFields(f[Len(Pipeline)]) /\ (Redacts(Len(Pipeline)) => Safe(f[Len(Pipeline)]))
  BY <1>1, <1>2, <1>4, StepsAre
<1>6. c = f[Len(Pipeline)]
  <2>1. IsSeq(c)
    BY <1>1, ContentIs
  <2> QED
    BY <1>4, <1>5, <2>1, FieldsAreAtEnd
<1>7. r.err = e.err
  BY <1>4, ErrorIsAgain
<1>8. Line(Shown(c)) = Line(c) /\ EventPayload(Shown(c), r.name, r.err) = EventPayload(c, r.name, r.err)
  BY <1>1, <1>5, <1>6, ShownOnce
<1>9. r.event \in 1..Len(events)
  <2>1. Len(events) \in Nat
    BY SeqIs DEF StoryInv, CountInv
  <2>2. r.event \in 0..Len(events) /\ r.event # 0
    BY <1>1, <1>2 DEF Right
  <2> QED
    BY <2>1, <2>2
<1>10. e.line = Line(Shown(c)) /\ e.payload = EventPayload(Shown(c), r.name, e.err) /\ e.name = r.name
  BY <1>4, <1>6 DEF Promised
<1> QED
  BY <1>5, <1>6, <1>7, <1>8, <1>9, <1>10

\* Whatever a child does that leaves the arrays there are alone.
LEMMA MovesStory ==
  ASSUME FieldsInv, StoryInv, NEW g \in Goroutines, Writing(g), Moves(g),
         UNCHANGED <<boxes, loggers, events>>, IsHeap(heap'), OnlyWrites(0)
  PROVE  /\ BoxesInv' /\ ArraysInv' /\ WasInv' /\ RightInv' /\ ApartInv' /\ CountInv'
         /\ \A q : (\E i \in DOMAIN queue : q = queue[i]) =>
              Queued(q, heap)' /\ \A h \in Goroutines : q.fields.arr \notin ArraysOf(call'[h])
<1>0. /\ IsHeap(heap) /\ Right(call[g], heap) /\ ArraysOf(call[g]) \subseteq DOMAIN heap
  BY StoryAt
<1>1. PICK c, r : c = call[g] /\ r = [call[g] EXCEPT !.stage = call[g].stage + 1]
  OBVIOUS
<1>2. call' = [call EXCEPT ![g] = r]
  <2>1. PICK S : call \in [Goroutines -> S]
    BY DEF FieldsInv, CallsInv
  <2> QED
    BY <1>1, <2>1 DEF Moves
<1>3. /\ r.stage = c.stage + 1 /\ r.fields = c.fields /\ r.err = c.err
      /\ r.event = c.event /\ r.base = c.base /\ r.ids = c.ids /\ r.name = c.name
  <2>1. PICK U : call[g] \in CallOf(U)
    BY CallOfG DEF IsCall
  <2> QED
    BY <1>1, <2>1 DEF CallOf
<1>4. /\ c.stage \in Len(Pipeline) + 1 .. Len(Pipeline) + Len(Children)
      /\ c.stage # 0 /\ r.stage # 0 /\ r.stage \in 0..Len(Pipeline) + Len(Children) + 1
      /\ Done(c) = Len(Pipeline) /\ Done(r) = Len(Pipeline)
  BY <1>1, <1>3, Lists DEF Writing, Done
<1>5. Right(r, heap)
  <2>1. Right(c, heap)
    BY <1>0, <1>1
  <2>2. PICK orig, f : StoryOf(c, heap, orig, f)
    BY <1>4, <2>1 DEF Right
  <2>3. StoryOf(r, heap, orig, f)
    BY <1>3, <1>4, <2>2 DEF StoryOf
  <2> QED
    BY <1>3, <1>4, <2>1, <2>3 DEF Right
<1>6. IsSeq(events) /\ EventsGrow
  BY EventsSame
<1>7. Right(r, heap)'
  <2>1. PICK x, y : x = heap /\ y = heap'
    OBVIOUS
  <2>2. \A b \in ArraysOf(r) : b \in DOMAIN y /\ y[b] = x[b]
    BY <1>0, <1>1, <1>3, <2>1 DEF OnlyWrites, ArraysOf
  <2>3. Right(r, x) /\ IsSeq(x)
    BY <1>0, <1>5, <2>1 DEF IsHeap
  <2>4. Right(r, y)'
    BY <1>6, <2>2, <2>3, RightKept
  <2> QED
    BY <2>1, <2>4
<1>8. EventOfItsOwn(g, r)
  BY <1>1, <1>3, <1>4 DEF StoryInv, ApartInv, EventOfItsOwn
<1>9. CountInv'
  BY DEF StoryInv, CountInv
<1>10. ArraysOf(r) \cap DOMAIN heap \subseteq ArraysOf(call[g]) /\ 0 \in ArraysOf(call[g]) \cup {0}
  BY <1>1, <1>3 DEF ArraysOf
<1> QED
  BY <1>2, <1>6, <1>7, <1>8, <1>9, <1>10, StepOfCall

\* The payload of an event is what its fields and its attributes are.
LEMMA PayloadIsOwn ==
  ASSUME BoxesInv, NEW c, IsFields(c), NEW name, NEW err
  PROVE  PayloadIs(c, name, err, EventPayload(c, name, err))
<1> DEFINE keys == KeysOf(c)
           used == {keys[i] : i \in DOMAIN keys}
           own  == Attributes(name, err)
           p    == EventPayload(c, name, err)
<1>1. IsSeq(keys) /\ DOMAIN keys = DOMAIN c
  <2>1. Len(c) \in Nat /\ DOMAIN c = 1..Len(c)
    BY SeqIs DEF IsFields
  <2>2. keys = [i \in 1..Len(c) |-> keys[i]] /\ DOMAIN keys = 1..Len(c)
    BY <2>1 DEF KeysOf
  <2> HIDE DEF keys
  <2> QED
    BY <2>1, <2>2, FunIsSeq
<1>2. p = [k \in used \cup DOMAIN own |->
             IF k \in used THEN Shown(c)[LastWith(keys, k)].value ELSE own[k]]
  BY DEF EventPayload
<1> HIDE DEF keys, own, p
<1>3. DOMAIN p = used \cup DOMAIN own
  BY <1>2
<1>4. ASSUME NEW k \in used, ~IsRef(c[LastWith(keys, k)].value)
      PROVE  p[k] = c[LastWith(keys, k)].value
  <2>1. LastWith(keys, k) \in DOMAIN c
    BY <1>1, <1>4, LastWithIs
  <2>2. PICK n : n = LastWith(keys, k)
    OBVIOUS
  <2>3. Shown(c)[n].value = Snapshot(c[n].value)
    <3>1. \A i \in DOMAIN c : Shown(c)[i] = [key |-> c[i].key, value |-> Snapshot(c[i].value)]
      BY ShownIs
    <3>2. Shown(c)[n] = [key |-> c[n].key, value |-> Snapshot(c[n].value)]
      BY <2>1, <2>2, <3>1
    <3> QED
      BY <3>2
  <2>4. Snapshot(c[n].value) = c[n].value
    BY <1>4, <2>2 DEF Snapshot
  <2>5. p[k] = Shown(c)[LastWith(keys, k)].value
    BY <1>2, <1>4
  <2> QED
    BY <2>2, <2>3, <2>4, <2>5
<1>5. \A k \in DOMAIN own \ used : p[k] = own[k]
  BY <1>2
<1> QED
  BY <1>3, <1>4, <1>5 DEF PayloadIs, keys, own, p

\* No field's key becomes that of an attribute that events differ in.
LEMMA AttributesAreOwn ==
  ASSUME NEW c, NEW name, NEW err, NEW payload, PayloadIs(c, name, err, payload),
         NEW e, e.name = name, e.err = err
  PROVE  AttributesOwn(payload, e)
<1> DEFINE keys == KeysOf(c)
           used == {keys[i] : i \in DOMAIN keys}
           own  == Attributes(name, err)
<1>1. ASSUME NEW k \in {"logger_name", "error"} PROVE k \notin used
  <2>1. ASSUME NEW x PROVE PayloadKey(x) # k
    BY PrefixAssumption DEF PayloadKey
  <2> QED
    BY <2>1 DEF KeysOf
<1>2. DOMAIN payload = used \cup DOMAIN own /\ \A k \in DOMAIN own \ used : payload[k] = own[k]
  BY DEF PayloadIs
<1> HIDE DEF keys, own
<1>3. ASSUME NEW k \in {"logger_name", "error"}
      PROVE  (k \in DOMAIN payload <=> k \in DOMAIN own) /\ (k \in DOMAIN own => payload[k] = own[k])
  BY <1>1, <1>2
<1> QED
  BY <1>3 DEF AttributesOwn, own

\* One more record.
LEMMA RecordStory ==
  ASSUME RecordsInv, UNCHANGED events, NEW r, r.event \in 1..Len(events), Faithful(r, events[r.event]),
         records' = records \cup {r}
  PROVE  RecordsInv'
BY DEF RecordsInv

LEMMA WriteTextStory ==
  ASSUME FieldsInv, StoryInv, NEW g \in Goroutines, WriteText(g)
  PROVE  StoryInv'
<1>1. Writing(g) /\ Moves(g) /\ UNCHANGED <<boxes, loggers, queue, events>>
  BY DEF WriteText
<1>2. heap' = heap
  <2>1. Grows(0) /\ Len(heap') = Len(heap)
    BY TextGrows DEF WriteText
  <2>2. /\ IsSeq(heap) /\ DOMAIN heap = 1..Len(heap)
        /\ IsSeq(heap') /\ DOMAIN heap' = 1..Len(heap')
    BY <2>1, HeapIs, SeqIs DEF Grows
  <2>3. \A b \in DOMAIN heap : heap'[b] = heap[b]
    BY <2>1, <2>2 DEF Grows
  <2> QED
    BY <2>1, <2>2, <2>3, SameSeq
<1>3. PICK c, f, e : c = call[g] /\ f = Content(heap, c.fields) /\ e = events[c.event]
  OBVIOUS
<1>4. PICK r : r = [event |-> c.event, by |-> "text", line |-> Line(f), err |-> c.err]
  OBVIOUS
<1>5. RecordsInv'
  <2>1. records' = records \cup {r}
    BY <1>3, <1>4 DEF WriteText
  <2>2. e.line = Line(f) /\ e.err = c.err /\ c.event \in 1..Len(events)
    BY <1>1, <1>3, WritingIs
  <2>3. r.event = c.event /\ r.by = "text" /\ r.line = Line(f) /\ r.err = c.err
    BY <1>4
  <2>4. Faithful(r, e)
    BY <2>2, <2>3 DEF Faithful
  <2> QED
    BY <1>1, <1>3, <2>1, <2>2, <2>3, <2>4, RecordStory DEF StoryInv
<1>6. IsHeap(heap') /\ OnlyWrites(0)
  BY <1>2, HeapIs, HeapUnwritten
<1>7. /\ BoxesInv' /\ ArraysInv' /\ WasInv' /\ RightInv' /\ ApartInv' /\ CountInv'
      /\ \A q : (\E i \in DOMAIN queue : q = queue[i]) =>
           Queued(q, heap)' /\ \A h \in Goroutines : q.fields.arr \notin ArraysOf(call'[h])
  BY <1>1, <1>6, MovesStory
<1>8. QueueInv'
  BY <1>1, <1>7, QueueSame DEF StoryInv, QueueInv
<1> QED
  BY <1>5, <1>7, <1>8 DEF StoryInv

LEMMA WriteJSONStory ==
  ASSUME FieldsInv, StoryInv, NEW g \in Goroutines, WriteJSON(g)
  PROVE  StoryInv'
<1>1. Writing(g) /\ Moves(g) /\ UNCHANGED <<heap, boxes, loggers, queue, events>>
  BY DEF WriteJSON
<1>3. PICK c, f, e : c = call[g] /\ f = Content(heap, c.fields) /\ e = events[c.event]
  OBVIOUS
<1>4. PICK p : p = EventPayload(f, c.name, c.err)
  OBVIOUS
<1>5. RecordsInv'
  <2>1. records' = records \cup {[event |-> c.event, by |-> "json", payload |-> p]}
    BY <1>3, <1>4 DEF WriteJSON
  <2>2. PICK r : r = [event |-> c.event, by |-> "json", payload |-> p]
    OBVIOUS
  <2>3. /\ e.payload = p /\ e.err = c.err /\ e.name = c.name
        /\ c.event \in 1..Len(events) /\ IsFields(f)
    BY <1>1, <1>3, <1>4, WritingIs
  <2>4. AttributesOwn(p, e)
    <3>1. PayloadIs(f, c.name, c.err, p)
      BY <1>4, <2>3, PayloadIsOwn DEF StoryInv
    <3> QED
      BY <2>3, <3>1, AttributesAreOwn
  <2>5. r.event = c.event /\ r.by = "json" /\ r.payload = p
    BY <2>2
  <2>6. Faithful(r, e)
    BY <2>3, <2>4, <2>5 DEF Faithful
  <2> QED
    BY <1>1, <1>3, <2>1, <2>2, <2>3, <2>5, <2>6, RecordStory DEF StoryInv
<1>6. IsHeap(heap') /\ OnlyWrites(0)
  BY <1>1, HeapIs, HeapUnwritten
<1>7. /\ BoxesInv' /\ ArraysInv' /\ WasInv' /\ RightInv' /\ ApartInv' /\ CountInv'
      /\ \A q : (\E i \in DOMAIN queue : q = queue[i]) =>
           Queued(q, heap)' /\ \A h \in Goroutines : q.fields.arr \notin ArraysOf(call'[h])
  BY <1>1, <1>6, MovesStory
<1>8. QueueInv'
  BY <1>1, <1>7, QueueSame DEF StoryInv, QueueInv
<1> QED
  BY <1>5, <1>7, <1>8 DEF StoryInv

-----------------------------------------------------------------------------
(* The queue. *)

\* Nothing of a call or a queued event changes when new arrays come, or when
\* containers change while no call is under way.
LEMMA OthersKept ==
  ASSUME FieldsInv, StoryInv, UNCHANGED <<call, events>>, OnlyWrites(0), IsHeap(heap'), KindsKept,
         UNCHANGED boxes \/ \A g \in Goroutines : call[g].stage = 0
  PROVE  /\ ArraysInv' /\ RightInv' /\ ApartInv'
         /\ \A q : (\E i \in DOMAIN queue : q = queue[i]) =>
              Queued(q, heap)' /\ \A h \in Goroutines : q.fields.arr \notin ArraysOf(call'[h])
<1>0. /\ IsHeap(heap) /\ IsSeq(heap) /\ RightInv /\ ApartInv /\ QueueInv
      /\ IsSeq(events) /\ EventsGrow
  BY HeapIs, EventsSame DEF StoryInv
<1>1. ASSUME NEW h \in Goroutines PROVE Right(call[h], heap)'
  <2>1. PICK s, x, y : s = call[h] /\ x = heap /\ y = heap'
    OBVIOUS
  <2>2. Right(s, x) /\ \A b \in ArraysOf(s) : b \in DOMAIN y /\ y[b] = x[b]
    <3>1. ArraysOf(call[h]) \subseteq DOMAIN heap
      BY StoryAt
    <3> QED
      BY <1>0, <2>1, <3>1 DEF RightInv, OnlyWrites, ArraysOf
  <2>3. Right(s, y)'
    <3>1. CASE UNCHANGED boxes
      BY <1>0, <2>1, <2>2, <3>1, RightKept
    <3>2. CASE s.stage = 0
      <4>1. s = Idle
        BY <2>2, <3>2 DEF Right
      <4>2. Idle.base = Nil /\ Idle.fields = Nil
        BY DEF Idle
      <4>3. Within(s.base, y) /\ Within(s.fields, y)
        BY <4>1, <4>2 DEF Within, IsSlice, Nil
      <4> QED
        BY <2>2, <3>2, <4>1, <4>3 DEF Right
    <3> QED
      BY <2>1, <3>1, <3>2
  <2>4. call'[h] = s /\ heap' = y
    BY <2>1
  <2> QED
    BY <2>3, <2>4
<1>2. ASSUME NEW q, \E i \in DOMAIN queue : q = queue[i]
      PROVE  Queued(q, heap)' /\ \A h \in Goroutines : q.fields.arr \notin ArraysOf(call'[h])
  <2>2. Queued(q, heap) /\ \A h \in Goroutines : q.fields.arr \notin ArraysOf(call[h])
    BY <1>0, <1>2 DEF QueueInv
  <2>4. q.fields # Nil => q.fields.arr \in DOMAIN heap /\ q.fields.arr # 0
    BY <2>2, HeapIs DEF Queued, Within
  <2>5. q.fields # Nil => q.fields.arr \in DOMAIN heap' /\ heap'[q.fields.arr] = heap[q.fields.arr]
    BY <2>4 DEF OnlyWrites
  <2> QED
    BY <1>0, <2>2, <2>5, QueuedKept
<1>3. RightInv'
  BY <1>1 DEF RightInv
<1>4. ApartInv'
  BY <1>0 DEF ApartInv, ArraysOf
<1>5. ArraysInv'
  BY DEF IsHeap, ArraysInv
<1> QED
  BY <1>2, <1>3, <1>4, <1>5

LEMMA TailIsSeq ==
  ASSUME NEW s, IsSeq(s), s # <<>>
  PROVE  /\ IsSeq(Tail(s)) /\ \A i \in DOMAIN Tail(s) : i + 1 \in DOMAIN s /\ Tail(s)[i] = s[i + 1]
         /\ 1 \in DOMAIN s /\ Head(s) = s[1] /\ Len(Tail(s)) = Len(s) - 1 /\ Len(s) \in Nat
<1>1. PICK S : s \in Seq(S)
  BY DEF IsSeq
<1>2. Tail(s) \in Seq(S) /\ Len(Tail(s)) = Len(s) - 1 /\ Len(s) \in Nat /\ Len(s) >= 1
  BY <1>1
<1>3. \A i \in 1..Len(s) - 1 : Tail(s)[i] = s[i + 1]
  BY <1>1
<1>4. DOMAIN Tail(s) = 1..Len(s) - 1 /\ DOMAIN s = 1..Len(s)
  BY <1>1, <1>2
<1> QED
  BY <1>1, <1>2, <1>3, <1>4 DEF IsSeq

LEMMA DeliverStory ==
  ASSUME FieldsInv, StoryInv, Deliver
  PROVE  StoryInv'
<1>1. UNCHANGED <<heap, boxes, loggers, call, events>> /\ queue # <<>> /\ queue' = Tail(queue)
  BY DEF Deliver
<1>2. OnlyWrites(0) /\ IsHeap(heap') /\ KindsKept
  BY <1>1, HeapIs, HeapUnwritten DEF KindsKept
<1>3. /\ ArraysInv' /\ RightInv' /\ ApartInv'
      /\ \A q : (\E i \in DOMAIN queue : q = queue[i]) =>
           Queued(q, heap)' /\ \A h \in Goroutines : q.fields.arr \notin ArraysOf(call'[h])
  BY <1>1, <1>2, OthersKept
<1>4. BoxesInv' /\ WasInv' /\ CountInv'
  BY <1>1 DEF StoryInv, BoxesInv, WasInv, CountInv
<1>5. /\ IsSeq(Tail(queue)) /\ \A i \in DOMAIN Tail(queue) : i + 1 \in DOMAIN queue /\ Tail(queue)[i] = queue[i + 1]
      /\ 1 \in DOMAIN queue /\ Head(queue) = queue[1]
  BY <1>1, TailIsSeq DEF StoryInv, QueueInv
<1>6. QueueInv'
  <2>1. ASSUME NEW i \in DOMAIN queue'
        PROVE  Queued(queue[i], heap)' /\ \A h \in Goroutines : queue'[i].fields.arr \notin ArraysOf(call'[h])
    <3>1. PICK q : q = queue'[i]
      OBVIOUS
    <3>2. \E j \in DOMAIN queue : q = queue[j]
      BY <1>1, <1>5, <2>1, <3>1
    <3>3. Queued(q, heap)' /\ \A h \in Goroutines : q.fields.arr \notin ArraysOf(call'[h])
      BY <1>3, <3>2
    <3> QED
      BY <3>1, <3>3
  <2> QED
    BY <1>1, <1>5, <2>1 DEF QueueInv, ArraysOf
<1>7. RecordsInv'
  <2>1. PICK q, c, e : q = Head(queue) /\ c = Content(heap, q.fields) /\ e = events[q.event]
    OBVIOUS
  <2>2. PICK p, sh : /\ p = EventPayload(c, q.name, q.err)
                     /\ sh = {PayloadKey(c[i].key) : i \in {j \in DOMAIN c : IsRef(c[j].value)}}
    OBVIOUS
  <2>3. PICK r : r = [event |-> q.event, by |-> "async", payload |-> p, shared |-> sh]
    OBVIOUS
  <2>4. records' = records \cup {r}
    BY <2>1, <2>2, <2>3 DEF Deliver
  <2>5. r.event = q.event /\ r.by = "async" /\ r.payload = p /\ r.shared = sh
    BY <2>3
  <2>6. Queued(q, heap)
    BY <1>5, <2>1 DEF StoryInv, QueueInv
  <2>7. /\ IsFields(c) /\ q.event \in 1..Len(events) /\ e.name = q.name /\ e.err = q.err
        /\ PayloadIs(c, q.name, q.err, e.payload)
    BY <2>1, <2>6 DEF Queued
  <2>8. PayloadIs(c, q.name, q.err, p) /\ AttributesOwn(p, e)
    <3>1. PayloadIs(c, q.name, q.err, p)
      BY <2>2, <2>7, PayloadIsOwn DEF StoryInv
    <3> QED
      BY <2>7, <3>1, AttributesAreOwn
  <2>9. DOMAIN p = DOMAIN e.payload /\ \A k \in DOMAIN e.payload \ sh : p[k] = e.payload[k]
    <3> DEFINE keys == KeysOf(c)
               used == {keys[i] : i \in DOMAIN keys}
               own  == Attributes(q.name, q.err)
    <3>1. /\ DOMAIN p = used \cup DOMAIN own /\ DOMAIN e.payload = used \cup DOMAIN own
          /\ \A k \in used : ~IsRef(c[LastWith(keys, k)].value) => p[k] = c[LastWith(keys, k)].value
          /\ \A k \in used : ~IsRef(c[LastWith(keys, k)].value) => e.payload[k] = c[LastWith(keys, k)].value
          /\ \A k \in DOMAIN own \ used : p[k] = own[k] /\ e.payload[k] = own[k]
      BY <2>7, <2>8 DEF PayloadIs
    <3>2. ASSUME NEW k \in used, k \notin sh PROVE ~IsRef(c[LastWith(keys, k)].value)
      <4>1. IsSeq(keys) /\ DOMAIN keys = DOMAIN c
        <5>1. Len(c) \in Nat /\ DOMAIN c = 1..Len(c)
          BY <2>7, SeqIs DEF IsFields
        <5>2. keys = [i \in 1..Len(c) |-> keys[i]] /\ DOMAIN keys = 1..Len(c)
          BY <5>1 DEF KeysOf
        <5> HIDE DEF keys
        <5> QED
          BY <5>1, <5>2, FunIsSeq
      <4>2. PICK n : n = LastWith(keys, k)
        OBVIOUS
      <4>3. n \in DOMAIN keys /\ keys[n] = k
        BY <3>2, <4>1, <4>2, LastWithIs
      <4>4. PayloadKey(c[n].key) = k
        BY <4>1, <4>3 DEF KeysOf
      <4> QED
        BY <2>2, <3>2, <4>1, <4>2, <4>3, <4>4
    <3> HIDE DEF keys, own
    <3>3. ASSUME NEW k \in DOMAIN e.payload, k \notin sh PROVE p[k] = e.payload[k]
      <4>1. CASE k \in used
        BY <3>1, <3>2, <3>3, <4>1
      <4>2. CASE k \in DOMAIN own \ used
        BY <3>1, <4>2
      <4> QED
        BY <3>1, <3>3, <4>1, <4>2
    <3> QED
      BY <3>1, <3>3
  <2>10. Faithful(r, e)
    BY <2>5, <2>8, <2>9 DEF Faithful
  <2> QED
    BY <1>1, <2>1, <2>4, <2>5, <2>7, <2>10, RecordStory DEF StoryInv
<1> QED
  BY <1>3, <1>4, <1>6, <1>7 DEF StoryInv

LEMMA ChangeBoxesStory ==
  ASSUME FieldsInv, StoryInv, ChangeBoxes
  PROVE  StoryInv'
<1>1. /\ UNCHANGED <<heap, loggers, call, events, queue, records>> /\ boxes = Boxes
      /\ boxes' = [b \in DOMAIN boxes |-> Changed(boxes[b])]
      /\ \A g \in Goroutines : call[g].stage = 0
  BY DEF ChangeBoxes, Idle
<1>2. BoxesInv' /\ KindsKept
  BY <1>1, ValuesAssumption DEF BoxesInv, KindsKept
<1>3. OnlyWrites(0) /\ IsHeap(heap')
  BY <1>1, HeapIs, HeapUnwritten
<1>4. /\ ArraysInv' /\ RightInv' /\ ApartInv'
      /\ \A q : (\E i \in DOMAIN queue : q = queue[i]) =>
           Queued(q, heap)' /\ \A h \in Goroutines : q.fields.arr \notin ArraysOf(call'[h])
  BY <1>1, <1>2, <1>3, OthersKept
<1>5. WasInv' /\ CountInv'
  BY <1>1 DEF StoryInv, WasInv, CountInv
<1> QED
  BY <1>1, <1>2, <1>4, <1>5, CallQuiet

LEMMA WriteAsyncStory ==
  ASSUME FieldsInv, StoryInv, NEW g \in Goroutines, WriteAsync(g)
  PROVE  StoryInv'
<1>1. Writing(g) /\ Moves(g) /\ UNCHANGED <<boxes, loggers, events, records>>
  BY DEF WriteAsync
<1>2. PICK c, h, f, e, n : c = call[g] /\ h = heap /\ f = Content(heap, c.fields) /\ e = events[c.event]
                           /\ n = cloneFields(heap, c.fields)
  OBVIOUS
<1>3. PICK q : q = [event |-> c.event, fields |-> n.slice, name |-> c.name, err |-> c.err]
  OBVIOUS
<1>4. heap' = n.heap /\ queue' = Append(queue, q)
  BY <1>2, <1>3 DEF WriteAsync
<1>5. q.event = c.event /\ q.fields = n.slice /\ q.name = c.name /\ q.err = c.err
  BY <1>3
<1>6. /\ IsHeap(heap) /\ Within(c.fields, heap) /\ \A k \in Goroutines : ArraysOf(call[k]) \subseteq DOMAIN heap
      /\ Len(heap) \in Nat /\ DOMAIN heap = 1..Len(heap) /\ IsSeq(heap)
  BY <1>2, StoryAt, HeapIs
<1>7. IsHeap(n.heap) /\ Within(n.slice, n.heap) /\ Content(n.heap, n.slice) = f
  BY <1>2, <1>6, CloneContent
<1>8. /\ Len(n.heap) >= Len(heap) /\ Len(n.heap) \in Nat /\ n.slice.arr \in {0, Len(heap) + 1}
      /\ \A b \in DOMAIN heap : n.heap[b] = heap[b]
  <2>1. IsSlice(c.fields) /\ Sliced(c.fields, heap)
    BY <1>6, WithinIsSliced DEF Within
  <2> QED
    BY <1>2, <1>6, <2>1, CloneFrame
<1>9. OnlyWrites(0) /\ IsHeap(heap')
  BY <1>4, <1>6, <1>7, <1>8, SeqIs DEF OnlyWrites, IsHeap
<1>10. /\ BoxesInv' /\ ArraysInv' /\ WasInv' /\ RightInv' /\ ApartInv' /\ CountInv'
       /\ \A x : (\E i \in DOMAIN queue : x = queue[i]) =>
            Queued(x, heap)' /\ \A k \in Goroutines : x.fields.arr \notin ArraysOf(call'[k])
  BY <1>1, <1>9, MovesStory
<1>11. /\ IsFields(f) /\ e.payload = EventPayload(f, c.name, c.err)
       /\ e.name = c.name /\ e.err = c.err /\ c.event \in 1..Len(events)
       /\ Redacts(Len(Pipeline)) => Safe(f)
  BY <1>1, <1>2, WritingIs
<1>12. Queued(q, heap)'
  <2>1. PayloadIs(f, q.name, q.err, e.payload)
    BY <1>5, <1>11, PayloadIsOwn DEF StoryInv
  <2>2. Safe(f)' <=> Safe(f)
    BY <1>1, OperatorsKept
  <2>3. PICK x : x = heap'
    OBVIOUS
  <2>4. Within(q.fields, x) /\ Content(x, q.fields) = f
    BY <1>4, <1>5, <1>7, <2>3
  <2>5. events'[q.event] = e /\ q.event \in 1..Len(events')
    BY <1>1, <1>2, <1>5, <1>11
  <2>6. Queued(q, x)'
    BY <1>5, <1>11, <2>1, <2>2, <2>4, <2>5 DEF Queued, Redacts
  <2> QED
    BY <2>3, <2>6
<1>13. ASSUME NEW k \in Goroutines PROVE q.fields.arr \notin ArraysOf(call'[k])
  <2>1. ArraysOf(call'[k]) = ArraysOf(call[k])
    <3>1. PICK U : call[g] \in CallOf(U)
      BY CallOfG DEF IsCall
    <3>2. [call[g] EXCEPT !.stage = @ + 1].base = call[g].base /\ [call[g] EXCEPT !.stage = @ + 1].fields = call[g].fields
      BY <3>1 DEF CallOf
    <3>3. PICK S : call \in [Goroutines -> S]
      BY DEF FieldsInv, CallsInv
    <3>4. call'[k] = IF k = g THEN [call[g] EXCEPT !.stage = @ + 1] ELSE call[k]
      BY <1>1, <3>3 DEF Moves
    <3> QED
      BY <3>2, <3>4 DEF ArraysOf
  <2>2. 0 \notin ArraysOf(call[k]) /\ Len(heap) + 1 \notin ArraysOf(call[k])
    BY <1>6 DEF ArraysOf
  <2> QED
    BY <1>5, <1>8, <2>1, <2>2
<1>14. QueueInv'
  <2>1. /\ IsSeq(queue') /\ DOMAIN queue' = (DOMAIN queue) \cup {Len(queue) + 1}
        /\ queue'[Len(queue) + 1] = q /\ \A i \in DOMAIN queue : queue'[i] = queue[i]
    BY <1>4, AppendIsSeq DEF StoryInv, QueueInv
  <2>2. ASSUME NEW i \in DOMAIN queue'
        PROVE  Queued(queue[i], heap)' /\ \A k \in Goroutines : queue'[i].fields.arr \notin ArraysOf(call'[k])
    <3>1. PICK x : x = queue'[i]
      OBVIOUS
    <3>2. x = q \/ \E j \in DOMAIN queue : x = queue[j]
      BY <2>1, <2>2, <3>1
    <3>3. Queued(x, heap)' /\ \A k \in Goroutines : x.fields.arr \notin ArraysOf(call'[k])
      BY <1>10, <1>12, <1>13, <3>2
    <3> QED
      BY <3>1, <3>3
  <2> QED
    BY <2>1, <2>2 DEF QueueInv, ArraysOf
<1>15. RecordsInv'
  BY <1>1, EventsSame, RecordsKept DEF StoryInv
<1> QED
  BY <1>10, <1>14, <1>15 DEF StoryInv

-----------------------------------------------------------------------------
(* Deriving, and the start of a call. *)

LEMMA NilIs == ASSUME NEW h PROVE Within(Nil, h) /\ Content(h, Nil) = <<>> /\ Nil.arr = 0 /\ Nil.len = 0
BY DEF Within, IsSlice, Content, Nil

LEMMA EmptyConcat ==
  ASSUME NEW s, IsSeq(s)
  PROVE  <<>> \o s = s
<1>1. IsSeq(<<>> \o s) /\ Len(<<>> \o s) = Len(s) /\ Len(s) \in Nat /\ \A i \in 1..Len(s) : (<<>> \o s)[i] = s[i]
  <2>1. PICK S : s \in Seq(S)
    BY DEF IsSeq
  <2>2. <<>> \o s \in Seq(S) /\ Len(<<>> \o s) = Len(s) /\ Len(s) \in Nat /\ \A i \in 1..Len(s) : (<<>> \o s)[i] = s[i]
    BY <2>1
  <2> QED
    BY <2>2 DEF IsSeq
<1> QED
  BY <1>1, SeqIs, SameSeq

\* The slices that With and LogErr are given hold fields.
LEMMA ArgsIs ==
  ASSUME FieldsInv, StoryInv, NEW a \in DOMAIN Args
  PROVE  Within(ArgSlice(a), heap) /\ Content(heap, ArgSlice(a)) = Args[a] /\ IsFields(Args[a])
<1>1. IsFields(Args[a]) /\ IsSeq(Args[a]) /\ Len(Args[a]) \in Nat /\ DOMAIN Args[a] = 1..Len(Args[a])
  BY Lists, SeqIs DEF IsFields
<1>2. a \in DOMAIN heap /\ heap[a] = Args[a]
  BY ArgsAre, HeapIs DEF FieldsInv, HeapInv
<1>3. PICK s : s = ArgSlice(a)
  OBVIOUS
<1>4. s.arr = a /\ s.len = Len(Args[a]) /\ IsSlice(s)
  BY <1>3 DEF ArgSlice, IsSlice
<1>5. Within(s, heap)
  BY <1>1, <1>2, <1>4 DEF Within
<1>6. /\ IsSeq(Content(heap, s)) /\ DOMAIN Content(heap, s) = 1..s.len
      /\ \A i \in 1..s.len : Content(heap, s)[i] = heap[s.arr][i]
  BY <1>5, HeapIs, ContentIs
<1>7. Content(heap, s) = Args[a]
  BY <1>1, <1>2, <1>4, <1>6, SameSeq
<1> QED
  BY <1>1, <1>3, <1>5, <1>7

LEMMA ConcatFields ==
  ASSUME NEW c, NEW d, IsFields(c), IsFields(d)
  PROVE  IsFields(c \o d) /\ IsSeq(c \o d)
<1>1. /\ IsSeq(c \o d) /\ Len(c \o d) = Len(c) + Len(d) /\ Len(c) \in Nat /\ Len(d) \in Nat
      /\ DOMAIN c = 1..Len(c) /\ DOMAIN d = 1..Len(d) /\ DOMAIN (c \o d) = 1..Len(c \o d)
      /\ (\A i \in 1..Len(c) : (c \o d)[i] = c[i]) /\ (\A i \in 1..Len(d) : (c \o d)[Len(c) + i] = d[i])
  BY ConcatIs, SeqIs DEF IsFields
<1>2. ASSUME NEW i \in DOMAIN (c \o d) PROVE IsField((c \o d)[i])
  <2>1. CASE i \in 1..Len(c)
    BY <1>1, <2>1 DEF IsFields
  <2>2. CASE i \notin 1..Len(c)
    <3>1. PICK j : j = i - Len(c)
      OBVIOUS
    <3>2. j \in 1..Len(d) /\ i = Len(c) + j
      BY <1>1, <2>2, <3>1
    <3> QED
      BY <1>1, <3>2 DEF IsFields
  <2> QED
    BY <2>1, <2>2
<1> QED
  BY <1>1, <1>2 DEF IsFields

LEMMA LoggerIs ==
  ASSUME FieldsInv, StoryInv, NEW l \in DOMAIN loggers
  PROVE  /\ Within(loggers[l].fields, heap) /\ Content(heap, loggers[l].fields) = loggers[l].was
         /\ IsFields(loggers[l].was) /\ IsSeq(loggers[l].was)
BY DEF StoryInv, WasInv, IsFields

LEMMA DeriveStory ==
  ASSUME FieldsInv, StoryInv, NEW l \in DOMAIN loggers, NEW fields, NEW name, NEW ctx, NEW spare \in Nat,
         Within(fields, heap), IsFields(Content(heap, fields)),
         Derive(l, fields, name, ctx, spare)
  PROVE  StoryInv'
<1>1. PICK own, cells, more, new, h :
        /\ own = cloneFields(heap, loggers[l].fields) /\ cells = Content(heap, fields)
        /\ more = GoAppend(own.heap, own.slice, cells, spare) /\ h = heap
        /\ new = [fields |-> more.slice, name |-> name, ctx |-> ctx, was |-> loggers[l].was \o cells]
  OBVIOUS
<1>2. /\ heap' = more.heap /\ loggers' = Append(loggers, new)
      /\ UNCHANGED <<boxes, call, queue, events, records>> /\ Len(loggers) + Len(events) < MaxMade
  BY <1>1 DEF Derive
<1>3. new.fields = more.slice /\ new.was = loggers[l].was \o cells
  BY <1>1
<1>4. /\ IsHeap(h) /\ Within(loggers[l].fields, h) /\ Content(h, loggers[l].fields) = loggers[l].was
      /\ IsFields(loggers[l].was) /\ IsFields(cells) /\ IsSeq(cells) /\ IsSeq(h)
      /\ Len(h) \in Nat /\ DOMAIN h = 1..Len(h)
  BY <1>1, LoggerIs, HeapIs DEF IsFields
<1>5. PICK s : s = loggers[l].fields
  OBVIOUS
<1>6. /\ IsHeap(own.heap) /\ Within(own.slice, own.heap) /\ Content(own.heap, own.slice) = loggers[l].was
      /\ Len(own.heap) >= Len(h) /\ \A b \in DOMAIN h : own.heap[b] = h[b]
      /\ own.slice.arr \in {0, Len(h) + 1}
  <2>1. Within(s, h) /\ IsSlice(s) /\ Sliced(s, h) /\ own = cloneFields(h, s) /\ Content(h, s) = loggers[l].was
    BY <1>1, <1>4, <1>5, WithinIsSliced DEF Within
  <2> QED
    BY <1>4, <2>1, CloneContent, CloneFrame
<1>7. AppendDoes(own.heap, own.slice, cells, more)
  BY <1>1, <1>4, <1>6, AppendContent
<1>8. /\ IsHeap(more.heap) /\ Within(more.slice, more.heap)
      /\ Content(more.heap, more.slice) = loggers[l].was \o cells
      /\ Len(more.heap) >= Len(own.heap)
      /\ \A b \in DOMAIN own.heap : b # own.slice.arr => more.heap[b] = own.heap[b]
  BY <1>6, <1>7 DEF AppendDoes
<1>9. OnlyWrites(0)
  <2>1. DOMAIN own.heap = 1..Len(own.heap) /\ Len(own.heap) \in Nat /\ DOMAIN more.heap = 1..Len(more.heap)
        /\ Len(more.heap) \in Nat
    BY <1>6, <1>8, SeqIs DEF IsHeap
  <2>2. ASSUME NEW b \in DOMAIN h PROVE b \in DOMAIN more.heap /\ more.heap[b] = h[b]
    <3>1. b \in DOMAIN own.heap /\ b # own.slice.arr
      BY <1>4, <1>6, <2>1
    <3> QED
      BY <1>6, <1>8, <2>1, <3>1
  <2> QED
    BY <1>1, <1>2, <2>2 DEF OnlyWrites
<1>10. IsHeap(heap') /\ KindsKept
  BY <1>2, <1>8 DEF KindsKept
<1>11. /\ ArraysInv' /\ RightInv' /\ ApartInv'
       /\ \A q : (\E i \in DOMAIN queue : q = queue[i]) =>
            Queued(q, heap)' /\ \A g \in Goroutines : q.fields.arr \notin ArraysOf(call'[g])
  BY <1>2, <1>9, <1>10, OthersKept
<1>12. QueueInv'
  BY <1>2, <1>11, QueueSame DEF StoryInv, QueueInv
<1>13. BoxesInv' /\ RecordsInv'
  BY <1>2, EventsSame, RecordsKept DEF StoryInv, BoxesInv
<1>14. /\ IsSeq(loggers') /\ DOMAIN loggers' = (DOMAIN loggers) \cup {Len(loggers) + 1}
       /\ loggers'[Len(loggers) + 1] = new /\ \A k \in DOMAIN loggers : loggers'[k] = loggers[k]
       /\ Len(loggers') = Len(loggers) + 1 /\ Len(loggers) \in Nat
  BY <1>2, AppendIsSeq DEF FieldsInv, LoggersInv
<1>15. WasInv'
  <2>1. ASSUME NEW k \in DOMAIN loggers
        PROVE  Within(loggers[k].fields, heap') /\ Content(heap', loggers[k].fields) = Content(heap, loggers[k].fields)
    <3>1. PICK t : t = loggers[k].fields
      OBVIOUS
    <3>2. Within(t, heap)
      BY <2>1, <3>1, LoggerIs
    <3>3. t # Nil => t.arr \in DOMAIN heap'  /\ heap'[t.arr] = heap[t.arr]
      <4>1. t # Nil => t.arr \in DOMAIN heap /\ t.arr # 0
        BY <3>2, HeapIs DEF Within
      <4> QED
        BY <4>1, <1>9 DEF OnlyWrites
    <3>4. PICK x, y : x = heap /\ y = heap'
      OBVIOUS
    <3>5. Content(y, t) = Content(x, t) /\ Within(t, y)
      BY <3>2, <3>3, <3>4, ContentKept
    <3> QED
      BY <3>1, <3>4, <3>5
  <2>2. IsFields(new.was)
    BY <1>3, <1>4, ConcatFields
  <2>3. Within(new.fields, heap') /\ Content(heap', new.fields) = new.was
    BY <1>2, <1>3, <1>8
  <2>4. ASSUME NEW k \in DOMAIN loggers'
        PROVE  /\ Within(loggers'[k].fields, heap') /\ Content(heap', loggers'[k].fields) = loggers'[k].was
               /\ IsFields(loggers'[k].was)
    <3>1. CASE k \in DOMAIN loggers
      BY <1>14, <2>1, <3>1, LoggerIs
    <3>2. CASE k = Len(loggers) + 1
      BY <1>14, <2>2, <2>3, <3>2
    <3> QED
      BY <1>14, <2>4, <3>1, <3>2
  <2> QED
    BY <2>4 DEF WasInv
<1>16. CountInv'
  <2>1. Len(events) \in Nat /\ MaxMade \in Nat
    BY BoundsAssumption, SeqIs DEF StoryInv, CountInv
  <2> QED
    BY <1>2, <1>14, <2>1 DEF StoryInv, CountInv
<1> QED
  BY <1>11, <1>12, <1>13, <1>15, <1>16 DEF StoryInv

LEMMA LogErrStory ==
  ASSUME FieldsInv, StoryInv, NEW g \in Goroutines, NEW l \in DOMAIN loggers, NEW a \in DOMAIN Args,
         NEW given, NEW err \in Errors, LogErr(g, l, a, given, err)
  PROVE  StoryInv'
<1>1. PICK ids, orig, end, n, h :
        /\ ids = IdsIn(resolveContext(given, l)) /\ orig = loggers[l].was \o Args[a]
        /\ end = ErrorAfter(Processors, err) /\ n = Len(events) + 1 /\ h = heap
  OBVIOUS
<1>2. PICK want : want = Expected(orig, ids)
  OBVIOUS
<1>3. PICK spare \in Spare, more \in Spare :
        /\ heap' = NewFields(l, a, spare, more).heap
        /\ call' = [call EXCEPT ![g] = [Idle EXCEPT !.stage = 1, !.event = n,
                     !.base = NewFields(l, a, spare, more).slice,
                     !.fields = NewFields(l, a, spare, more).slice,
                     !.ids = ids, !.name = loggers[l].name, !.err = err]]
        /\ events' = Append(events, [name |-> loggers[l].name, err |-> end,
                       line |-> Line(want), payload |-> EventPayload(want, loggers[l].name, end)])
  BY <1>1, <1>2 DEF LogErr, Processors
<1>4. /\ UNCHANGED <<boxes, loggers, queue, records>>
      /\ Len(events) < MaxEvents /\ Len(loggers) + Len(events) < MaxMade
  BY DEF LogErr
<1>5. PICK copy, f :
        /\ copy = GoAppend(heap, Nil, Content(heap, loggers[l].fields), spare)
        /\ f = GoAppend(copy.heap, copy.slice, Content(heap, ArgSlice(a)), more)
  OBVIOUS
<1>6. f = NewFields(l, a, spare, more)
  BY <1>5 DEF NewFields
<1>7. PICK r, e :
        /\ r = [Idle EXCEPT !.stage = 1, !.event = n, !.base = f.slice, !.fields = f.slice,
                            !.ids = ids, !.name = loggers[l].name, !.err = err]
        /\ e = [name |-> loggers[l].name, err |-> end,
                line |-> Line(want), payload |-> EventPayload(want, loggers[l].name, end)]
  OBVIOUS
<1>8. heap' = f.heap /\ call' = [call EXCEPT ![g] = r] /\ events' = Append(events, e)
  BY <1>3, <1>6, <1>7
<1>9. /\ r.stage = 1 /\ r.event = n /\ r.base = f.slice /\ r.fields = f.slice
      /\ r.ids = ids /\ r.name = loggers[l].name /\ r.err = err
      /\ e.name = loggers[l].name /\ e.err = end /\ e.line = Line(want)
      /\ e.payload = EventPayload(want, loggers[l].name, end)
  BY <1>7 DEF Idle
<1>10. /\ IsHeap(h) /\ IsSeq(h) /\ Len(h) \in Nat /\ DOMAIN h = 1..Len(h) /\ BoxesInv
       /\ Content(h, loggers[l].fields) = loggers[l].was /\ IsFields(loggers[l].was) /\ IsSeq(loggers[l].was)
       /\ Content(h, ArgSlice(a)) = Args[a] /\ IsFields(Args[a]) /\ IsSeq(Args[a])
  BY <1>1, HeapIs, LoggerIs, ArgsIs DEF StoryInv, IsFields
<1>11. IsFields(orig)
  BY <1>1, <1>10, ConcatFields
<1>12. /\ IsHeap(copy.heap) /\ Within(copy.slice, copy.heap)
       /\ Content(copy.heap, copy.slice) = loggers[l].was
       /\ Len(copy.heap) >= Len(h) /\ \A b \in DOMAIN h : copy.heap[b] = h[b]
       /\ copy.slice.arr \in {0, Len(h) + 1}
  <2>1. Within(Nil, h) /\ Content(h, Nil) = <<>> /\ Nil.arr = 0 /\ spare \in Nat
    BY NilIs, BoundsAssumption
  <2>2. copy = GoAppend(h, Nil, loggers[l].was, spare)
    BY <1>1, <1>5, <1>10
  <2>3. AppendDoes(h, Nil, loggers[l].was, copy)
    BY <1>10, <2>1, <2>2, AppendContent
  <2>4. <<>> \o loggers[l].was = loggers[l].was
    BY <1>10, EmptyConcat
  <2> QED
    BY <1>10, <2>1, <2>3, <2>4 DEF AppendDoes
<1>13. /\ IsHeap(f.heap) /\ Within(f.slice, f.heap) /\ Content(f.heap, f.slice) = orig
       /\ Len(f.heap) >= Len(copy.heap)
       /\ \A b \in DOMAIN copy.heap : b # copy.slice.arr => f.heap[b] = copy.heap[b]
       /\ f.slice.arr \in {copy.slice.arr, Len(copy.heap) + 1}
  <2>1. more \in Nat
    BY BoundsAssumption
  <2>2. f = GoAppend(copy.heap, copy.slice, Args[a], more)
    BY <1>1, <1>5, <1>10
  <2>3. AppendDoes(copy.heap, copy.slice, Args[a], f)
    BY <1>10, <1>12, <2>1, <2>2, AppendContent
  <2> QED
    BY <1>1, <1>12, <2>3 DEF AppendDoes
<1>14. /\ DOMAIN copy.heap = 1..Len(copy.heap) /\ Len(copy.heap) \in Nat /\ DOMAIN f.heap = 1..Len(f.heap)
       /\ Len(f.heap) \in Nat
  BY <1>12, <1>13, SeqIs DEF IsHeap
<1>15. OnlyWrites(0)
  <2>1. ASSUME NEW b \in DOMAIN h PROVE b \in DOMAIN f.heap /\ f.heap[b] = h[b]
    <3>1. b \in DOMAIN copy.heap /\ b # copy.slice.arr
      BY <1>10, <1>12, <1>14
    <3> QED
      BY <1>12, <1>13, <1>14, <3>1
  <2> QED
    BY <1>1, <1>8, <2>1 DEF OnlyWrites
<1>16. ArraysOf(r) \cap DOMAIN heap \subseteq ArraysOf(call[g])
  <2>1. f.slice.arr \notin DOMAIN h
    BY <1>10, <1>12, <1>13, <1>14
  <2> QED
    BY <1>1, <1>9, <2>1 DEF ArraysOf
<1>17. /\ IsSeq(events) /\ Len(events) \in Nat /\ DOMAIN events = 1..Len(events)
       /\ IsSeq(events') /\ Len(events') = n /\ events'[n] = e
       /\ \A i \in DOMAIN events : events'[i] = events[i]
  BY <1>1, <1>8, AppendIsSeq DEF StoryInv, CountInv
<1>18. EventsGrow
  BY <1>1, <1>17 DEF EventsGrow
<1>19. EventOfItsOwn(g, r)
  <2>1. \A k \in Goroutines : call[k].event \in 0..Len(events)
    BY DEF StoryInv, RightInv, Right
  <2> QED
    BY <1>1, <1>9, <1>17, <2>1 DEF EventOfItsOwn
<1>20. Right(r, heap)'
  <2>1. PICK k : k = heap'
    OBVIOUS
  <2>2. PICK fs : fs = After(orig, ids)
    OBVIOUS
  <2>3. Steps(fs, orig, ids)
    BY <2>2, StepsExist
  <2>4. Done(r) = 0
    BY <1>9, Lists DEF Done
  <2>5. Promised(e, fs[Len(Pipeline)], r.name)
    <3>1. want = Shown(fs[Len(Pipeline)])
      BY <1>2, <2>2 DEF Expected
    <3> QED
      BY <1>9, <3>1 DEF Promised
  <2>6. Within(f.slice, k) /\ Content(k, f.slice) = orig /\ f.slice.len \in Nat
    BY <1>8, <1>13, <2>1, ContentIs
  <2>7. BaseIs(Content(k, r.base), orig)
    BY <1>9, <2>6 DEF BaseIs
  <2>8. FieldsAre(Content(k, r.fields), fs[Done(r)], orig, Done(r))
    <3>1. fs[0] = orig
      BY <1>10, <1>11, <2>3, StepsAre
    <3>2. FieldsAre(Content(k, r.base), orig, orig, 0)
      BY <2>7, FieldsAreAtStart
    <3> QED
      BY <1>9, <2>4, <3>1, <3>2
  <2>9. ErrorIs(r.err, e.err, Done(r))
    <3>1. err \in Values \cup {NoError}
      BY ValuesAssumption
    <3> QED
      BY <1>1, <1>9, <2>4, <3>1, ErrorIsAtStart
  <2>10. e = events'[r.event]
    BY <1>9, <1>17
  <2>11. StoryOf(r, k, orig, fs)'
    <3>1. Steps(fs, orig, r.ids)
      BY <1>9, <2>3
    <3> QED
      BY <1>4, <1>11, <2>5, <2>7, <2>8, <2>9, <2>10, <3>1, StoryKept
  <2>12. /\ r.stage \in 0..Len(Pipeline) + Len(Children) + 1 /\ r.stage # 0
         /\ r.event \in 0..Len(events') /\ r.event # 0
    BY <1>1, <1>9, <1>17, Lists
  <2>13. Right(r, k)'
    BY <1>9, <2>6, <2>11, <2>12 DEF Right
  <2> QED
    BY <2>1, <2>13
<1>21. IsHeap(heap') /\ 0 \in ArraysOf(call[g]) \cup {0}
  BY <1>8, <1>13
<1>22. /\ BoxesInv' /\ ArraysInv' /\ WasInv' /\ RightInv' /\ ApartInv'
       /\ \A q : (\E i \in DOMAIN queue : q = queue[i]) =>
            Queued(q, heap)' /\ \A k \in Goroutines : q.fields.arr \notin ArraysOf(call'[k])
  BY <1>4, <1>8, <1>15, <1>16, <1>18, <1>19, <1>20, <1>21, StepOfCall
<1>23. QueueInv'
  BY <1>4, <1>22, QueueSame DEF StoryInv, QueueInv
<1>24. RecordsInv'
  BY <1>4, <1>17, <1>18, RecordsKept DEF StoryInv
<1>25. CountInv'
  <2>1. MaxEvents \in Nat /\ MaxMade \in Nat /\ Len(loggers) \in Nat
    BY BoundsAssumption, AppendIsSeq DEF FieldsInv, LoggersInv
  <2> QED
    BY <1>1, <1>4, <1>17, <2>1 DEF StoryInv, CountInv
<1> QED
  BY <1>22, <1>23, <1>24, <1>25 DEF StoryInv

-----------------------------------------------------------------------------
LEMMA StoryInit == Init => StoryInv
<1> SUFFICES ASSUME Init PROVE StoryInv
  OBVIOUS
<1>1. /\ heap = Args /\ boxes = Boxes /\ loggers = <<Root>> /\ call = [g \in Goroutines |-> Idle]
      /\ queue = <<>> /\ events = <<>> /\ records = {}
  BY DEF Init
<1>2. BoxesInv
  BY <1>1 DEF BoxesInv
<1>3. ArraysInv
  BY <1>1, Lists DEF ArraysInv, IsFields
<1>4. WasInv
  <2>1. DOMAIN loggers = {1} /\ loggers[1] = Root
    BY <1>1
  <2>2. Root.fields = Nil /\ Root.was = <<>>
    BY DEF Root
  <2>3. IsFields(<<>>)
    BY EmptyIsSeq DEF IsFields
  <2> QED
    BY <2>1, <2>2, <2>3, NilIs DEF WasInv
<1>5. /\ Idle.stage = 0 /\ Idle.event = 0 /\ Idle.base = Nil /\ Idle.fields = Nil
  BY DEF Idle
<1>6. ArraysOf(Idle) = {}
  BY <1>5 DEF ArraysOf, Nil
<1>7. Right(Idle, heap)
  <2>1. Idle.stage \in 0..Len(Pipeline) + Len(Children) + 1 /\ Idle.event \in 0..Len(events)
    BY <1>1, <1>5, Lists, EmptyIsSeq
  <2>2. Within(Nil, heap) /\ Nil.len <= Nil.len
    BY NilIs
  <2> QED
    BY <1>5, <2>1, <2>2 DEF Right
<1>8. RightInv /\ ApartInv
  BY <1>1, <1>5, <1>6, <1>7 DEF RightInv, ApartInv
<1>9. QueueInv
  BY <1>1, EmptyIsSeq DEF QueueInv
<1>10. RecordsInv
  BY <1>1 DEF RecordsInv
<1>11. CountInv
  <2>1. Len(loggers) = 1
    BY <1>1
  <2> QED
    BY <1>1, <2>1, EmptyIsSeq, BoundsAssumption DEF CountInv
<1> QED
  BY <1>2, <1>3, <1>4, <1>8, <1>9, <1>10, <1>11 DEF StoryInv

LEMMA StoryStep == FieldsInv /\ StoryInv /\ [Next]_vars => StoryInv'
<1> SUFFICES ASSUME FieldsInv, StoryInv, [Next]_vars PROVE StoryInv'
  OBVIOUS
<1>1. ASSUME NEW l \in DOMAIN loggers, NEW n \in Names, WithName(l, n) PROVE StoryInv'
  <2>1. Within(Nil, heap) /\ IsFields(Content(heap, Nil)) /\ 0 \in Nat
    BY NilIs, EmptyIsSeq DEF IsFields
  <2>2. Derive(l, Nil, Append(loggers[l].name, n), loggers[l].ctx, 0)
    BY <1>1 DEF WithName
  <2> QED
    BY <2>1, <2>2, DeriveStory
<1>2. ASSUME NEW l \in DOMAIN loggers, WithContext(l) PROVE StoryInv'
  <2>1. Within(Nil, heap) /\ IsFields(Content(heap, Nil)) /\ 0 \in Nat
    BY NilIs, EmptyIsSeq DEF IsFields
  <2>2. PICK c \in Contexts : Derive(l, Nil, loggers[l].name, {c}, 0)
    BY <1>2 DEF WithContext
  <2> QED
    BY <2>1, <2>2, DeriveStory
<1>3. ASSUME NEW l \in DOMAIN loggers, With(l) PROVE StoryInv'
  <2>1. PICK a \in DOMAIN Args, spare \in Spare :
          Derive(l, ArgSlice(a), loggers[l].name, loggers[l].ctx, spare)
    BY <1>3 DEF With
  <2>2. Within(ArgSlice(a), heap) /\ IsFields(Content(heap, ArgSlice(a))) /\ spare \in Nat
    BY ArgsIs, BoundsAssumption
  <2> QED
    BY <2>1, <2>2, DeriveStory
<1>4. ASSUME NEW l \in DOMAIN loggers, NEW g \in Goroutines, NEW a \in DOMAIN Args, NEW err \in Errors, NEW given,
             LogErr(g, l, a, given, err)
      PROVE  StoryInv'
  BY <1>4, LogErrStory
<1>5. ASSUME NEW g \in Goroutines, Redact(g) \/ Enrich(g) \/ WriteText(g) \/ WriteJSON(g)
                                     \/ WriteAsync(g) \/ Return(g) \/ CallAgain(g)
      PROVE  StoryInv'
  BY <1>5, RedactStory, EnrichStory, WriteTextStory, WriteJSONStory, WriteAsyncStory, ReturnStory,
     CallAgainStory
<1>6. ASSUME Deliver \/ ChangeBoxes PROVE StoryInv'
  BY <1>6, DeliverStory, ChangeBoxesStory
<1>7. ASSUME UNCHANGED vars PROVE StoryInv'
  <2>1. UNCHANGED <<heap, boxes, loggers, call, queue, events, records>>
    BY <1>7 DEF vars
  <2>2. OnlyWrites(0) /\ IsHeap(heap') /\ KindsKept
    BY <2>1, HeapIs, HeapUnwritten DEF KindsKept
  <2>3. /\ ArraysInv' /\ RightInv' /\ ApartInv'
        /\ \A q : (\E i \in DOMAIN queue : q = queue[i]) =>
             Queued(q, heap)' /\ \A h \in Goroutines : q.fields.arr \notin ArraysOf(call'[h])
    BY <2>1, <2>2, OthersKept
  <2>4. BoxesInv' /\ WasInv' /\ CountInv'
    BY <2>1 DEF StoryInv, BoxesInv, WasInv, CountInv
  <2> QED
    BY <2>1, <2>3, <2>4, CallQuiet
<1> QED
  BY <1>1, <1>2, <1>3, <1>4, <1>5, <1>6, <1>7 DEF Next

LEMMA StoryInvariant == Spec => []StoryInv
<1>1. FieldsInv /\ StoryInv /\ [Next]_vars => StoryInv'
  BY StoryStep
<1> QED
  BY <1>1, StoryInit, FieldsInvariant, PTL DEF Spec

\* A record shows what its event's fields were when it was logged, redacted and
\* enriched, whoever else logs, derives or writes in between and however late.
THEOREM RecordsFaithfulCorrect == Spec => []RecordsFaithful
<1>1. StoryInv => RecordsFaithful
  BY DEF StoryInv, RecordsInv, RecordsFaithful
<1> QED
  BY <1>1, StoryInvariant, PTL

\* What the async sink has queued behind a redaction leads to no container of the
\* callers' that the redaction could have looked into.
THEOREM OnlyOpaqueSharedCorrect == Spec => []OnlyOpaqueShared
<1>1. StoryInv => OnlyOpaqueShared
  <2> SUFFICES ASSUME StoryInv, Redacts(Len(Pipeline)), NEW q \in DOMAIN queue
               PROVE  Safe(Content(heap, queue[q].fields))
    BY RedactsIs DEF OnlyOpaqueShared, Safe
  <2> QED
    BY DEF StoryInv, QueueInv, Queued
<1> QED
  BY <1>1, StoryInvariant, PTL

-----------------------------------------------------------------------------
(* Nothing of what stands under a sensitive key is written. *)

\* The sorted fields are the fields.
LEMMA SortedIs ==
  ASSUME NEW c, IsFields(c)
  PROVE  /\ DOMAIN Sorted(c) = DOMAIN c
         /\ \A n \in DOMAIN c : \E i \in DOMAIN c : Sorted(c)[n] = c[i]
<1> DEFINE D == 1..Len(c)
           R(i) == Rank[c[i].key]
           upTo(i) == {j \in D : R(j) < R(i) \/ (R(j) = R(i) /\ j <= i)}
           place == [i \in D |-> Place(c, i)]
<1>1. Len(c) \in Nat /\ DOMAIN c = D
  BY SeqIs DEF IsFields
<1>2. \A i \in D : R(i) \in Nat
  BY <1>1, FieldIs, RankAssumption DEF IsFields
<1>3. IsFiniteSet(D) /\ Cardinality(D) = Len(c)
  <2>1. 1 \in Int /\ Len(c) \in Int
    BY <1>1
  <2>2. IsFiniteSet(D) /\ Cardinality(D) = IF 1 > Len(c) THEN 0 ELSE Len(c) - 1 + 1
    BY <2>1, FS_Interval
  <2> QED
    BY <1>1, <2>2
<1>4. \A i \in D : Place(c, i) = Cardinality(upTo(i))
  BY <1>1 DEF Place
<1>5. ASSUME NEW i \in D PROVE Place(c, i) \in D /\ IsFiniteSet(upTo(i))
  <2>1. upTo(i) \in SUBSET D /\ i \in upTo(i)
    OBVIOUS
  <2> HIDE DEF upTo
  <2>2. IsFiniteSet(upTo(i)) /\ Cardinality(upTo(i)) <= Len(c)
    BY <1>3, <2>1, FS_Subset
  <2>3. Cardinality(upTo(i)) \in Nat /\ Cardinality(upTo(i)) # 0
    BY <2>1, <2>2, FS_CardinalityType, FS_EmptySet
  <2> QED
    BY <1>1, <1>4, <2>2, <2>3
<1>6. ASSUME NEW i \in D, NEW j \in D, i # j, upTo(i) \subseteq upTo(j) PROVE Place(c, i) # Place(c, j)
  <2>1. j \in upTo(j) /\ (j \in upTo(i) => i \notin upTo(j))
    BY <1>1, <1>2, <1>6
  <2>2. i \in upTo(i)
    OBVIOUS
  <2> HIDE DEF upTo
  <2>3. upTo(i) # upTo(j)
    BY <1>6, <2>1, <2>2
  <2> QED
    BY <1>4, <1>5, <1>6, <2>3, FS_Subset
<1>7. ASSUME NEW i \in D, NEW j \in D, i # j PROVE Place(c, i) # Place(c, j)
  <2>1. upTo(i) \subseteq upTo(j) \/ upTo(j) \subseteq upTo(i)
    <3> DEFINE r == R(i)
               s == R(j)
    <3>1. r \in Nat /\ s \in Nat
      BY <1>2
    <3>2. \A k \in D : R(k) \in Nat
      BY <1>2
    <3>3. CASE r < s \/ (r = s /\ i <= j)
      BY <1>1, <3>1, <3>2, <3>3
    <3>4. CASE s < r \/ (r = s /\ j <= i)
      BY <1>1, <3>1, <3>2, <3>4
    <3> QED
      BY <1>1, <3>1, <3>3, <3>4
  <2> HIDE DEF upTo
  <2> QED
    BY <1>6, <1>7, <2>1
<1>8. place \in Injection(D, D)
  <2>1. place \in [D -> D]
    BY <1>5
  <2>2. \A i, j \in D : place[i] = place[j] => i = j
    BY <1>7
  <2> HIDE DEF place
  <2> QED
    BY <2>1, <2>2 DEF Injection, IsInjective
<1>9. place \in Surjection(D, D)
  <2> HIDE DEF place
  <2> QED
    BY <1>3, <1>8, FS_Injection
<1>10. ASSUME NEW n \in D PROVE \E i \in D : Place(c, i) = n
  <2>1. PICK i \in D : place[i] = n
    <3> HIDE DEF place
    <3> QED
      BY <1>9, <1>10 DEF Surjection
  <2> QED
    BY <2>1
<1> HIDE DEF D
<1>11. ASSUME NEW n \in DOMAIN c PROVE \E i \in DOMAIN c : Sorted(c)[n] = c[i]
  <2> DEFINE at == CHOOSE i \in DOMAIN c : Place(c, i) = n
  <2>1. at \in DOMAIN c
    BY <1>1, <1>10, <1>11
  <2>2. Sorted(c)[n] = c[at]
    BY <1>11 DEF Sorted
  <2> QED
    BY <2>1, <2>2
<1> QED
  BY <1>11 DEF Sorted

\* A redacted field shows what the redaction makes of what it showed.
LEMMA RedactFieldShows ==
  ASSUME BoxesInv, NEW f, IsField(f)
  PROVE  /\ RedactField(f).key = f.key
         /\ Snapshot(RedactField(f).value) = Redacted(f.key, Snapshot(f.value))
<1> DEFINE v == f.value
           k == f.key
           r == Redacted(k, Snapshot(v))
<1>1. f = [key |-> k, value |-> v] /\ k \in DOMAIN Rank /\ IsValue(v)
  BY FieldIs
<1>2. Snapshot(v) \in Values
  BY <1>1, SnapshotIs
<1>3. ~IsRef(r)
  BY <1>1, <1>2, RedactedIs
<1>4. Snapshot(r) = r
  BY <1>3 DEF Snapshot
<1> DEFINE w == IF Opaque(v) /\ r = Snapshot(v) THEN v ELSE r
<1>5. RedactField(f) = [f EXCEPT !.value = w]
  BY DEF RedactField
<1>6. Snapshot(w) = r
  BY <1>4
<1> HIDE DEF v, k, r, w
<1>7. RedactField(f).key = k /\ RedactField(f).value = w
  BY <1>1, <1>5
<1> QED
  BY <1>6, <1>7 DEF k, r, v

ShownMasked(c) == \A i \in DOMAIN c : Masked(c[i].key, Snapshot(c[i].value))

LEMMA RedactedMasked ==
  ASSUME BoxesInv, NEW f, IsField(f)
  PROVE  Masked(f.key, Redacted(f.key, Snapshot(f.value)))
<1>1. Snapshot(f.value) \in Samples
  BY FieldIs, SnapshotIs, ValuesAssumption
<1> QED
  BY <1>1, MaskedRedacted DEF Masked, Redacted

LEMMA IdMasked ==
  ASSUME NEW id, ~ShouldRedact(CaseInsensitive, id)
  PROVE  LET f == IdField(id) IN Masked(f.key, Snapshot(f.value))
<1> DEFINE f == IdField(id)
           v == [kind |-> "leaf", is |-> id]
<1>1. f.key = id /\ f.value = v
  BY DEF IdField
<1>2. ~IsRef(v) /\ ~HasItems(v)
  BY DEF IsRef, HasItems
<1> HIDE DEF f, v
<1>3. Snapshot(f.value) = v
  BY <1>1, <1>2 DEF Snapshot
<1>4. Masked(id, v)
  BY <1>2, EndUncovered DEF Masked
<1> QED
  BY <1>1, <1>3, <1>4 DEF f

\* Behind the last redaction there is nothing left to mask, whatever else the
\* processors add.
LEMMA StepsMasked ==
  ASSUME BoxesInv, RedactsLast, NEW orig, IsFields(orig), NEW ids, NEW f, Steps(f, orig, ids)
  PROVE  ShownMasked(f[Len(Pipeline)])
<1>0. Len(Pipeline) \in Nat /\ DOMAIN Pipeline = 1..Len(Pipeline)
  BY Lists
<1>1. PICK p \in DOMAIN Pipeline :
        /\ Pipeline[p] = "redact"
        /\ \A j \in DOMAIN Pipeline :
             j > p /\ Pipeline[j] # "redact" => ~ShouldRedact(CaseInsensitive, Pipeline[j])
  BY DEF RedactsLast
<1>2. /\ \A k \in 0..Len(Pipeline) : IsFields(f[k])
      /\ \A k \in 0..Len(Pipeline) - 1 : f[k + 1] = Processed(Pipeline[k + 1], f[k], ids)
  BY StepsAre
<1> DEFINE S == {k \in Nat : p <= k /\ k <= Len(Pipeline) => ShownMasked(f[k])}
<1>3. 0 \in S
  BY <1>0, <1>1
<1>4. ASSUME NEW k \in S PROVE k + 1 \in S
  <2>1. SUFFICES ASSUME p <= k + 1, k + 1 <= Len(Pipeline) PROVE ShownMasked(f[k + 1])
    OBVIOUS
  <2>2. k \in 0..Len(Pipeline) - 1 /\ k \in 0..Len(Pipeline) /\ k + 1 \in DOMAIN Pipeline /\ k \in Nat
    BY <1>0, <2>1
  <2> DEFINE q == Pipeline[k + 1]
             c == f[k]
             d == f[k + 1]
  <2>3. d = Processed(q, c, ids) /\ IsFields(c)
    BY <1>2, <2>2
  <2>4. q = "redact" \/ IsField(IdField(q))
    BY <2>2, Lists
  <2>5. /\ q = "redact" => DOMAIN d = DOMAIN c /\ \A i \in DOMAIN c : d[i] = RedactField(c[i])
        /\ q # "redact" => /\ \A i \in DOMAIN c : d[i] = c[i]
                           /\ \A i \in DOMAIN d \ DOMAIN c : d[i] = IdField(q)
    BY <2>3, <2>4, ProcessedIs
  <2>6. q # "redact" => p <= k /\ ~ShouldRedact(CaseInsensitive, q)
    BY <1>0, <1>1, <2>1, <2>2
  <2>7. q # "redact" => ShownMasked(c)
    BY <2>1, <2>2, <2>6
  <2> HIDE DEF q, c, d
  <2>8. ASSUME NEW i \in DOMAIN d PROVE Masked(d[i].key, Snapshot(d[i].value))
    <3>1. CASE q = "redact"
      <4>1. i \in DOMAIN c /\ d[i] = RedactField(c[i]) /\ IsField(c[i])
        BY <2>3, <2>5, <2>8, <3>1 DEF IsFields
      <4>2. d[i].key = c[i].key /\ Snapshot(d[i].value) = Redacted(c[i].key, Snapshot(c[i].value))
        BY <4>1, RedactFieldShows
      <4> QED
        BY <4>1, <4>2, RedactedMasked
    <3>2. CASE q # "redact" /\ i \in DOMAIN c
      BY <2>5, <2>7, <3>2 DEF ShownMasked
    <3>3. CASE q # "redact" /\ i \notin DOMAIN c
      <4>1. d[i] = IdField(q)
        BY <2>5, <2>8, <3>3
      <4> QED
        BY <2>6, <3>3, <4>1, IdMasked
    <3> QED
      BY <3>1, <3>2, <3>3
  <2> QED
    BY <2>8 DEF ShownMasked, d
<1>5. S = Nat
  <2>1. S \in SUBSET Nat
    OBVIOUS
  <2> HIDE DEF S
  <2> QED
    BY <1>3, <1>4, <2>1, SetInduction
<1> QED
  BY <1>0, <1>1, <1>5

\* An event that is to look masked, in a line and in a payload.
LooksMasked(e) ==
  /\ \A i \in DOMAIN e.line : Masked(e.line[i].key, e.line[i].value)
  /\ \A k \in Plainly(DOMAIN e.payload) : Masked(k, e.payload[k])

LEMMA LineMasked ==
  ASSUME BoxesInv, NEW c, IsFields(c), ShownMasked(c), NEW i \in DOMAIN Line(c)
  PROVE  Masked(Line(c)[i].key, Line(c)[i].value)
<1>1. /\ IsFields(Shown(c)) /\ DOMAIN Shown(c) = DOMAIN c
      /\ \A j \in DOMAIN c : Shown(c)[j] = [key |-> c[j].key, value |-> Snapshot(c[j].value)]
  BY ShownIs
<1>2. PICK j \in DOMAIN c : Line(c)[i] = Shown(c)[j]
  BY <1>1, SortedIs DEF Line
<1>3. Line(c)[i].key = c[j].key /\ Line(c)[i].value = Snapshot(c[j].value)
  BY <1>1, <1>2
<1> QED
  BY <1>3 DEF ShownMasked

LEMMA PayloadMasked ==
  ASSUME BoxesInv, NEW c, IsFields(c), ShownMasked(c), NEW name, NEW err,
         NEW k \in Plainly(DOMAIN EventPayload(c, name, err))
  PROVE  Masked(k, EventPayload(c, name, err)[k])
<1> DEFINE keys == KeysOf(c)
           used == {keys[i] : i \in DOMAIN keys}
           own  == Attributes(name, err)
           p    == EventPayload(c, name, err)
<1>1. IsSeq(keys) /\ DOMAIN keys = DOMAIN c /\ \A i \in DOMAIN c : keys[i] = PayloadKey(c[i].key)
  <2>1. Len(c) \in Nat /\ DOMAIN c = 1..Len(c)
    BY SeqIs DEF IsFields
  <2>2. keys = [i \in 1..Len(c) |-> keys[i]] /\ DOMAIN keys = 1..Len(c)
        /\ \A i \in DOMAIN c : keys[i] = PayloadKey(c[i].key)
    BY <2>1 DEF KeysOf
  <2> HIDE DEF keys
  <2> QED
    BY <2>1, <2>2, FunIsSeq
<1>2. p = [x \in used \cup DOMAIN own |->
             IF x \in used THEN Shown(c)[LastWith(keys, x)].value ELSE own[x]]
  BY DEF EventPayload
<1>3. DOMAIN own \subseteq {"logger_name", "error"}
  BY DEF Attributes
<1> HIDE DEF keys, own, p
<1>4. k \in DOMAIN p /\ k \notin DOMAIN Prefixed /\ \A x \in DOMAIN Prefixed : Prefixed[x] # k
  BY DEF Plainly, p
<1>5. k \notin DOMAIN own
  BY <1>3, <1>4, PrefixAssumption
<1>6. k \in used
  BY <1>2, <1>4, <1>5
<1>7. PICK n : n = LastWith(keys, k)
  OBVIOUS
<1>8. n \in DOMAIN c /\ keys[n] = k
  BY <1>1, <1>6, <1>7, LastWithIs
<1>9. c[n].key = k
  BY <1>1, <1>4, <1>8 DEF PayloadKey
<1>10. Shown(c)[n].value = Snapshot(c[n].value)
  <2>1. Shown(c)[n] = [key |-> c[n].key, value |-> Snapshot(c[n].value)]
    BY <1>8, ShownIs
  <2> QED
    BY <2>1
<1>11. p[k] = Snapshot(c[n].value)
  BY <1>2, <1>6, <1>7, <1>10
<1> QED
  BY <1>8, <1>9, <1>11 DEF ShownMasked, p

MaskedInv == RedactsLast => \A i \in DOMAIN events : LooksMasked(events[i])

ChildrenInv == \A r \in records : r.by \in {"text", "json", "async"}

LEMMA ChildrenStep == ChildrenInv /\ [Next]_vars => ChildrenInv'
<1> SUFFICES ASSUME ChildrenInv, [Next]_vars PROVE ChildrenInv'
  OBVIOUS
<1>1. CASE UNCHANGED records
  BY <1>1 DEF ChildrenInv
<1>2. ASSUME NEW g \in Goroutines, WriteText(g) PROVE ChildrenInv'
  BY <1>2 DEF WriteText, ChildrenInv
<1>3. ASSUME NEW g \in Goroutines, WriteJSON(g) PROVE ChildrenInv'
  BY <1>3 DEF WriteJSON, ChildrenInv
<1>4. ASSUME Deliver PROVE ChildrenInv'
  BY <1>4 DEF Deliver, ChildrenInv
<1>5. ASSUME NEW l \in DOMAIN loggers, With(l) \/ WithContext(l) \/ \E n \in Names : WithName(l, n)
      PROVE  UNCHANGED records
  BY <1>5 DEF With, WithContext, WithName, Derive
<1>6. ASSUME NEW l \in DOMAIN loggers, NEW g \in Goroutines, NEW a \in DOMAIN Args, NEW err \in Errors, NEW given,
             LogErr(g, l, a, given, err)
      PROVE  UNCHANGED records
  BY <1>6 DEF LogErr
<1>7. ASSUME NEW g \in Goroutines, Redact(g) \/ Enrich(g) \/ WriteAsync(g) \/ Return(g) \/ CallAgain(g)
      PROVE  UNCHANGED records
  BY <1>7 DEF Redact, Enrich, WriteAsync, Return, CallAgain
<1>8. ChangeBoxes \/ UNCHANGED vars => UNCHANGED records
  BY DEF ChangeBoxes, vars
<1> QED
  BY <1>1, <1>2, <1>3, <1>4, <1>5, <1>6, <1>7, <1>8 DEF Next

\* Only LogErr makes an event, and promises of it what the processors make.
LEMMA LogErrMasked ==
  ASSUME StoryInv, FieldsInv, MaskedInv, NEW g \in Goroutines, NEW l \in DOMAIN loggers, NEW a \in DOMAIN Args,
         NEW given, NEW err \in Errors, LogErr(g, l, a, given, err)
  PROVE  MaskedInv'
<1> SUFFICES ASSUME RedactsLast PROVE \A i \in DOMAIN events' : LooksMasked(events'[i])
  BY DEF MaskedInv
<1>1. PICK ids, orig, end, want, e :
        /\ ids = IdsIn(resolveContext(given, l)) /\ orig = loggers[l].was \o Args[a]
        /\ end = ErrorAfter({Pipeline[i] : i \in DOMAIN Pipeline}, err)
        /\ want = Expected(orig, ids)
        /\ e = [name |-> loggers[l].name, err |-> end,
                line |-> Line(want), payload |-> EventPayload(want, loggers[l].name, end)]
  OBVIOUS
<1>2. events' = Append(events, e)
  BY <1>1 DEF LogErr
<1>3. IsFields(orig) /\ BoxesInv
  BY <1>1, LoggerIs, ArgsIs, ConcatFields DEF StoryInv
<1>4. PICK f : f = After(orig, ids) /\ Steps(f, orig, ids)
  BY StepsExist
<1>5. PICK c : c = f[Len(Pipeline)]
  OBVIOUS
<1>6. IsFields(c) /\ ShownMasked(c)
  BY <1>3, <1>4, <1>5, StepsAre, StepsMasked, Lists
<1>7. want = Shown(c)
  BY <1>1, <1>4, <1>5 DEF Expected
<1>8. e.line = Line(c) /\ e.payload = EventPayload(c, loggers[l].name, end)
  <2>1. e.line = Line(want) /\ e.payload = EventPayload(want, loggers[l].name, end)
    BY <1>1
  <2> QED
    BY <1>3, <1>6, <1>7, <2>1, ShownOnce
<1>9. LooksMasked(e)
  BY <1>3, <1>6, <1>8, LineMasked, PayloadMasked DEF LooksMasked
<1>10. /\ IsSeq(events) /\ Len(events) \in Nat /\ DOMAIN events = 1..Len(events)
       /\ DOMAIN events' = 1..Len(events) + 1 /\ events'[Len(events) + 1] = e
       /\ \A i \in DOMAIN events : events'[i] = events[i]
  BY <1>2, AppendIsSeq, SeqIs DEF StoryInv, CountInv
<1> QED
  BY <1>9, <1>10 DEF MaskedInv

LEMMA MaskedStep == FieldsInv /\ StoryInv /\ MaskedInv /\ [Next]_vars => MaskedInv'
<1> SUFFICES ASSUME FieldsInv, StoryInv, MaskedInv, [Next]_vars PROVE MaskedInv'
  OBVIOUS
<1>1. CASE UNCHANGED events
  BY <1>1 DEF MaskedInv
<1>2. ASSUME NEW l \in DOMAIN loggers, NEW g \in Goroutines, NEW a \in DOMAIN Args, NEW err \in Errors, NEW given,
             LogErr(g, l, a, given, err)
      PROVE  MaskedInv'
  BY <1>2, LogErrMasked
<1>3. ASSUME NEW l \in DOMAIN loggers, With(l) \/ WithContext(l) \/ \E n \in Names : WithName(l, n)
      PROVE  UNCHANGED events
  BY <1>3 DEF With, WithContext, WithName, Derive
<1>4. ASSUME NEW g \in Goroutines, Redact(g) \/ Enrich(g) \/ WriteText(g) \/ WriteJSON(g)
                                     \/ WriteAsync(g) \/ Return(g) \/ CallAgain(g)
      PROVE  UNCHANGED events
  BY <1>4 DEF Redact, Enrich, WriteText, WriteJSON, WriteAsync, Return, CallAgain
<1>5. Deliver \/ ChangeBoxes \/ UNCHANGED vars => UNCHANGED events
  BY DEF Deliver, ChangeBoxes, vars
<1> QED
  BY <1>1, <1>2, <1>3, <1>4, <1>5 DEF Next

\* Behind a redaction that comes after the enrichers nothing that stands below a
\* sensitive key is ever written, at any depth and in any spelling that the options
\* take, by whichever child and however late.
THEOREM RedactionCompleteCorrect == Spec => []RedactionComplete
<1>1. Init => MaskedInv /\ ChildrenInv
  BY DEF Init, MaskedInv, ChildrenInv
<1>2. StoryInv /\ MaskedInv /\ ChildrenInv => RedactionComplete
  <2> SUFFICES ASSUME StoryInv, MaskedInv, ChildrenInv, RedactsLast, NEW r \in records, NEW f \in Written(r)
               PROVE  Masked(f.key, f.value)
    BY DEF RedactionComplete
  <2> DEFINE e == events[r.event]
  <2>1. LooksMasked(e) /\ Faithful(r, e)
    BY SeqIs DEF StoryInv, RecordsInv, CountInv, MaskedInv
  <2> HIDE DEF e
  <2>2. CASE r.by = "text"
    BY <2>1, <2>2 DEF Faithful, Written, LooksMasked
  <2>3. CASE r.by # "text"
    <3> DEFINE shared == IF r.by = "async" THEN r.shared ELSE {}
    <3>1. PICK k \in Plainly(DOMAIN r.payload) \ shared : f = [key |-> k, value |-> r.payload[k]]
      BY <2>3 DEF Written
    <3>2. r.by = "json" \/ r.by = "async"
      BY <2>3 DEF ChildrenInv
    <3>4. /\ DOMAIN r.payload = DOMAIN e.payload
          /\ \A x \in DOMAIN e.payload \ shared : r.payload[x] = e.payload[x]
      <4>1. CASE r.by = "json"
        BY <2>1, <4>1 DEF Faithful
      <4>2. CASE r.by = "async"
        BY <2>1, <4>2 DEF Faithful
      <4> QED
        BY <3>2, <4>1, <4>2
    <3> HIDE DEF shared
    <3>5. k \in Plainly(DOMAIN e.payload) /\ r.payload[k] = e.payload[k]
      BY <3>1, <3>4 DEF Plainly
    <3>3. Masked(k, r.payload[k])
      BY <2>1, <3>5 DEF LooksMasked
    <3> QED
      BY <3>1, <3>3
  <2> QED
    BY <2>2, <2>3
<1>3. FieldsInv /\ StoryInv /\ MaskedInv /\ [Next]_vars => MaskedInv'
  BY MaskedStep
<1>4. ChildrenInv /\ [Next]_vars => ChildrenInv'
  BY ChildrenStep
<1> QED
  BY <1>1, <1>2, <1>3, <1>4, FieldsInvariant, StoryInvariant, PTL DEF Spec

-----------------------------------------------------------------------------
(* The length of the queue: a call and its one repetition queue an event     *)
(* once for a child at most, so each entry has a place of its own.           *)

\* How many of its event's places a call has been at.
Passed(r) ==
  (IF r.again THEN Len(Children) ELSE 0)
    + (IF r.stage > Len(Pipeline) THEN r.stage - Len(Pipeline) - 1 ELSE 0)

Placed(f) ==
  /\ \A i \in DOMAIN queue : f[i] \in 1..Len(Children) + Len(Children)
  /\ \A i, j \in DOMAIN queue : i # j /\ queue[i].event = queue[j].event => f[i] # f[j]
  /\ \A i \in DOMAIN queue, g \in Goroutines :
       call[g].stage # 0 /\ queue[i].event = call[g].event => f[i] <= Passed(call[g])

PlacesInv == \E f : Placed(f)

LEMMA CallPlaces ==
  ASSUME FieldsInv, PlacesInv, UNCHANGED queue, NEW g \in Goroutines, NEW r, call' = [call EXCEPT ![g] = r],
         \/ r.stage = 0 \/ \A i \in DOMAIN queue : queue[i].event # r.event
         \/ /\ call[g].stage # 0 /\ r.event = call[g].event
            /\ Passed(call[g]) \in Nat /\ Passed(r) \in Nat /\ Passed(call[g]) <= Passed(r)
  PROVE  PlacesInv'
<1>1. PICK S : call \in [Goroutines -> S]
  BY DEF FieldsInv, CallsInv
<1>2. call'[g] = r /\ \A h \in Goroutines : h # g => call'[h] = call[h]
  BY <1>1
<1>3. PICK f : Placed(f)
  BY DEF PlacesInv
<1>4. ASSUME NEW i \in DOMAIN queue, NEW h \in Goroutines, call'[h].stage # 0, queue[i].event = call'[h].event
      PROVE  f[i] <= Passed(call'[h])
  <2>1. CASE h # g
    BY <1>2, <1>3, <1>4, <2>1 DEF Placed
  <2>2. CASE h = g
    <3>1. /\ call[g].stage # 0 /\ queue[i].event = call[g].event
          /\ Passed(call[g]) \in Nat /\ Passed(r) \in Nat /\ Passed(call[g]) <= Passed(r)
      BY <1>2, <1>4, <2>2
    <3>2. f[i] <= Passed(call[g]) /\ f[i] \in 1..Len(Children) + Len(Children)
      BY <1>3, <3>1 DEF Placed
    <3> QED
      BY <1>2, <2>2, <3>1, <3>2, Lists
  <2> QED
    BY <2>1, <2>2
<1>5. Placed(f)'
  <2>1. \A i \in DOMAIN queue' : f[i] \in 1..Len(Children) + Len(Children)
    BY <1>3 DEF Placed
  <2>2. \A i, j \in DOMAIN queue' : i # j /\ queue'[i].event = queue'[j].event => f[i] # f[j]
    BY <1>3 DEF Placed
  <2> QED
    BY <1>4, <2>1, <2>2 DEF Placed, Passed
<1> QED
  BY <1>5 DEF PlacesInv

\* A call goes from one stage to the next.
LEMMA PassedNext ==
  ASSUME NEW r, r.stage \in Nat, NEW q, q.stage = r.stage + 1, q.again = r.again
  PROVE  /\ Passed(r) \in Nat /\ Passed(q) \in Nat /\ Passed(r) <= Passed(q)
         /\ r.stage > Len(Pipeline) => Passed(q) = Passed(r) + 1
<1>1. Len(Pipeline) \in Nat /\ Len(Children) \in Nat
  BY Lists
<1>2. PICK b : b = IF r.again THEN Len(Children) ELSE 0
  OBVIOUS
<1>3. b \in Nat
  BY <1>1, <1>2
<1>4. Passed(r) = b + (IF r.stage > Len(Pipeline) THEN r.stage - Len(Pipeline) - 1 ELSE 0)
  BY <1>2 DEF Passed
<1>5. Passed(q) = b + (IF q.stage > Len(Pipeline) THEN q.stage - Len(Pipeline) - 1 ELSE 0)
  <2>1. b = IF q.again THEN Len(Children) ELSE 0
    BY <1>2
  <2> QED
    BY <2>1 DEF Passed
<1>6. CASE r.stage > Len(Pipeline)
  <2>1. Passed(r) = b + (r.stage - Len(Pipeline) - 1)
    BY <1>4, <1>6
  <2>2. Passed(q) = b + (r.stage + 1 - Len(Pipeline) - 1)
    BY <1>1, <1>5, <1>6
  <2> QED
    BY <1>1, <1>3, <1>6, <2>1, <2>2
<1>7. CASE ~(r.stage > Len(Pipeline))
  <2>1. Passed(r) = b
    BY <1>3, <1>4, <1>7
  <2>2. Passed(q) = b
    BY <1>1, <1>3, <1>5, <1>7
  <2> QED
    BY <1>3, <1>7, <2>1, <2>2
<1> QED
  BY <1>6, <1>7

\* The steps of a call that go on to its next stage.
GoesOn(g, r) ==
  /\ call' = [call EXCEPT ![g] = r] /\ r.stage = call[g].stage + 1
  /\ r.again = call[g].again /\ r.event = call[g].event

LEMMA CallGoesOnIs ==
  ASSUME FieldsInv, NEW g \in Goroutines,
         Redact(g) \/ Enrich(g) \/ Moves(g)
  PROVE  \E r : GoesOn(g, r)
<1>1. PICK S : call \in [Goroutines -> S]
  BY DEF FieldsInv, CallsInv
<1>2. PICK U : call[g] \in CallOf(U)
  BY CallOfG DEF IsCall
<1>3. CASE Redact(g)
  <2>1. PICK r : r = [call[g] EXCEPT !.stage = @ + 1, !.err = ErrorAfter({"redact"}, @)]
    OBVIOUS
  <2>2. call' = [call EXCEPT ![g] = r]
    BY <1>1, <1>3, <2>1 DEF Redact
  <2>3. r.stage = call[g].stage + 1 /\ r.again = call[g].again /\ r.event = call[g].event
    BY <1>2, <2>1 DEF CallOf
  <2> QED
    BY <2>2, <2>3 DEF GoesOn
<1>4. CASE Enrich(g)
  <2>1. PICK fs : call' = [call EXCEPT ![g].stage = @ + 1, ![g].fields = fs]
    BY <1>4 DEF Enrich
  <2>2. PICK r : r = [call[g] EXCEPT !.stage = @ + 1, !.fields = fs]
    OBVIOUS
  <2>3. call' = [call EXCEPT ![g] = r]
    BY <1>1, <2>1, <2>2
  <2>4. r.stage = call[g].stage + 1 /\ r.again = call[g].again /\ r.event = call[g].event
    BY <1>2, <2>2 DEF CallOf
  <2> QED
    BY <2>3, <2>4 DEF GoesOn
<1>5. CASE Moves(g)
  <2>1. PICK r : r = [call[g] EXCEPT !.stage = @ + 1]
    OBVIOUS
  <2>2. call' = [call EXCEPT ![g] = r]
    BY <1>1, <1>5, <2>1 DEF Moves
  <2>3. r.stage = call[g].stage + 1 /\ r.again = call[g].again /\ r.event = call[g].event
    BY <1>2, <2>1 DEF CallOf
  <2> QED
    BY <2>2, <2>3 DEF GoesOn
<1> QED
  BY <1>3, <1>4, <1>5

LEMMA StageIs ==
  ASSUME StoryInv, NEW g \in Goroutines
  PROVE  /\ call[g].stage \in 0..Len(Pipeline) + Len(Children) + 1 /\ call[g].stage \in Nat
         /\ Len(Pipeline) \in Nat /\ Len(Children) \in Nat
BY Lists DEF StoryInv, RightInv, Right

LEMMA WriteAsyncPlaces ==
  ASSUME FieldsInv, StoryInv, PlacesInv, NEW g \in Goroutines, WriteAsync(g)
  PROVE  PlacesInv'
<1>1. PICK q : queue' = Append(queue, q) /\ q.event = call[g].event
  <2>1. PICK q : /\ queue' = Append(queue, q)
                 /\ q = [event |-> call[g].event, fields |-> cloneFields(heap, call[g].fields).slice,
                         name |-> call[g].name, err |-> call[g].err]
    BY DEF WriteAsync
  <2> QED
    BY <2>1
<1>2. PICK r : GoesOn(g, r)
  BY CallGoesOnIs DEF WriteAsync
<1>3. PICK S : call \in [Goroutines -> S]
  BY DEF FieldsInv, CallsInv
<1>4. call'[g] = r /\ \A h \in Goroutines : h # g => call'[h] = call[h]
  BY <1>2, <1>3 DEF GoesOn
<1>5. /\ call[g].stage \in Len(Pipeline) + 1 .. Len(Pipeline) + Len(Children) /\ call[g].stage # 0
      /\ Len(Pipeline) \in Nat /\ Len(Children) \in Nat
  BY StageIs DEF WriteAsync, Writing
<1>6. PICK n : n = Passed(call[g])
  OBVIOUS
<1>7. n \in Nat /\ Passed(r) = n + 1 /\ n + 1 \in 1..Len(Children) + Len(Children)
  <2>1. n \in Nat /\ Passed(r) = n + 1
    BY <1>2, <1>5, <1>6, PassedNext DEF GoesOn
  <2>2. n <= Len(Children) + Len(Children) - 1
    BY <1>5, <1>6 DEF Passed
  <2> QED
    BY <1>5, <2>1, <2>2
<1>8. PICK f : Placed(f)
  BY DEF PlacesInv
<1>9. /\ DOMAIN queue' = (DOMAIN queue) \cup {Len(queue) + 1} /\ Len(queue) \in Nat
      /\ queue'[Len(queue) + 1] = q /\ (\A i \in DOMAIN queue : queue'[i] = queue[i])
      /\ Len(queue) + 1 \notin DOMAIN queue
  BY <1>1, AppendIsSeq DEF StoryInv, QueueInv
<1>a. PICK m : m = Len(queue) + 1
  OBVIOUS
<1>10. PICK k : m = Len(queue) + 1 /\ k = [i \in DOMAIN queue' |-> IF i = m THEN n + 1 ELSE f[i]]
  BY <1>a
<1>11. k[m] = n + 1 /\ \A i \in DOMAIN queue : k[i] = f[i] /\ i # m
  BY <1>9, <1>10
<1>12. ASSUME NEW i \in DOMAIN queue, queue[i].event = q.event PROVE f[i] <= n /\ f[i] \in Nat
  BY <1>1, <1>5, <1>6, <1>8, <1>12 DEF Placed
<1>13. \A i \in DOMAIN queue' : k[i] \in 1..Len(Children) + Len(Children)
  BY <1>7, <1>8, <1>9, <1>10, <1>11 DEF Placed
<1>14. ASSUME NEW i \in DOMAIN queue', NEW j \in DOMAIN queue', i # j, queue'[i].event = queue'[j].event
       PROVE  k[i] # k[j]
  <2>1. CASE i \in DOMAIN queue /\ j \in DOMAIN queue
    BY <1>8, <1>9, <1>11, <1>14, <2>1 DEF Placed
  <2>2. CASE i = m
    <3>1. j \in DOMAIN queue /\ queue[j].event = q.event
      BY <1>9, <1>10, <1>14, <2>2
    <3>2. f[j] <= n /\ f[j] \in Nat
      BY <1>12, <3>1
    <3> QED
      BY <1>7, <1>11, <2>2, <3>1, <3>2
  <2>3. CASE j = m
    <3>1. i \in DOMAIN queue /\ queue[i].event = q.event
      BY <1>9, <1>10, <1>14, <2>3
    <3>2. f[i] <= n /\ f[i] \in Nat
      BY <1>12, <3>1
    <3> QED
      BY <1>7, <1>11, <2>3, <3>1, <3>2
  <2> QED
    BY <1>9, <1>10, <2>1, <2>2, <2>3
<1>15. ASSUME NEW i \in DOMAIN queue', NEW h \in Goroutines, call'[h].stage # 0, queue'[i].event = call'[h].event
       PROVE  k[i] <= Passed(call'[h])
  <2>1. CASE h = g
    <3>1. CASE i = m
      BY <1>4, <1>7, <1>11, <2>1, <3>1
    <3>2. CASE i # m
      <4>1. i \in DOMAIN queue /\ queue[i].event = q.event
        BY <1>1, <1>2, <1>4, <1>9, <1>10, <1>15, <2>1, <3>2 DEF GoesOn
      <4>2. f[i] <= n /\ f[i] \in Nat
        BY <1>12, <4>1
      <4> QED
        BY <1>4, <1>7, <1>11, <2>1, <4>1, <4>2
    <3> QED
      BY <3>1, <3>2
  <2>2. CASE h # g
    <3>1. call'[h] = call[h] /\ call[h].event # call[g].event
      BY <1>4, <1>15, <2>2 DEF StoryInv, ApartInv
    <3>2. i \in DOMAIN queue /\ queue[i].event = call[h].event
      BY <1>1, <1>9, <1>15, <3>1
    <3> QED
      BY <1>8, <1>11, <1>15, <3>1, <3>2 DEF Placed
  <2> QED
    BY <2>1, <2>2
<1>16. Placed(k)'
  BY <1>13, <1>14, <1>15 DEF Placed, Passed
<1> QED
  BY <1>16 DEF PlacesInv

LEMMA DeliverPlaces ==
  ASSUME FieldsInv, StoryInv, PlacesInv, Deliver
  PROVE  PlacesInv'
<1>1. UNCHANGED call /\ queue # <<>> /\ queue' = Tail(queue)
  BY DEF Deliver
<1>2. /\ IsSeq(Tail(queue)) /\ \A i \in DOMAIN Tail(queue) : i + 1 \in DOMAIN queue /\ Tail(queue)[i] = queue[i + 1]
      /\ Len(queue) \in Nat
  BY <1>1, TailIsSeq DEF StoryInv, QueueInv
<1>3. PICK f : Placed(f)
  BY DEF PlacesInv
<1>4. PICK k : k = [i \in DOMAIN Tail(queue) |-> f[i + 1]]
  OBVIOUS
<1>5. \A i \in DOMAIN queue' : /\ i + 1 \in DOMAIN queue /\ queue'[i] = queue[i + 1] /\ k[i] = f[i + 1]
                              /\ i \in Nat
  <2>1. DOMAIN Tail(queue) = 1..Len(Tail(queue)) /\ Len(Tail(queue)) \in Nat
    BY <1>2, SeqIs
  <2> QED
    BY <1>1, <1>2, <1>4, <2>1
<1>6. \A i \in DOMAIN queue' : k[i] \in 1..Len(Children) + Len(Children)
  BY <1>3, <1>5 DEF Placed
<1>7. \A i, j \in DOMAIN queue' : i # j /\ queue'[i].event = queue'[j].event => k[i] # k[j]
  <2>1. ASSUME NEW i \in DOMAIN queue', NEW j \in DOMAIN queue', i # j, queue'[i].event = queue'[j].event
        PROVE  k[i] # k[j]
    <3>1. i + 1 # j + 1
      BY <1>5, <2>1
    <3> QED
      BY <1>3, <1>5, <2>1, <3>1 DEF Placed
  <2> QED
    BY <2>1
<1>8. \A i \in DOMAIN queue', g \in Goroutines :
        call'[g].stage # 0 /\ queue'[i].event = call'[g].event => k[i] <= Passed(call'[g])
  BY <1>1, <1>3, <1>5 DEF Placed
<1>9. Placed(k)'
  BY <1>6, <1>7, <1>8 DEF Placed, Passed
<1> QED
  BY <1>9 DEF PlacesInv

LEMMA PlacesInit == Init => PlacesInv
<1> SUFFICES ASSUME Init PROVE PlacesInv
  OBVIOUS
<1>1. DOMAIN queue = {}
  BY EmptyIsSeq DEF Init
<1>2. Placed(<<>>)
  BY <1>1 DEF Placed
<1> QED
  BY <1>2 DEF PlacesInv

LEMMA PlacesStep == FieldsInv /\ StoryInv /\ PlacesInv /\ [Next]_vars => PlacesInv'
<1> SUFFICES ASSUME FieldsInv, StoryInv, PlacesInv, [Next]_vars PROVE PlacesInv'
  OBVIOUS
<1>1. ASSUME UNCHANGED <<queue, call>> PROVE PlacesInv'
  BY <1>1 DEF PlacesInv, Placed, Passed
<1>2. ASSUME NEW l \in DOMAIN loggers, With(l) \/ WithContext(l) \/ \E n \in Names : WithName(l, n)
      PROVE  PlacesInv'
  BY <1>1, <1>2 DEF With, WithContext, WithName, Derive
<1>3. ASSUME NEW l \in DOMAIN loggers, NEW g \in Goroutines, NEW a \in DOMAIN Args, NEW err \in Errors, NEW given,
             LogErr(g, l, a, given, err)
      PROVE  PlacesInv'
  <2>1. PICK base, ids :
          call' = [call EXCEPT ![g] = [Idle EXCEPT !.stage = 1, !.event = Len(events) + 1,
                     !.base = base, !.fields = base, !.ids = ids,
                     !.name = loggers[l].name, !.err = err]]
    BY <1>3 DEF LogErr
  <2>2. PICK r : r = [Idle EXCEPT !.stage = 1, !.event = Len(events) + 1, !.base = base, !.fields = base,
                                  !.ids = ids, !.name = loggers[l].name, !.err = err]
    OBVIOUS
  <2>3. call' = [call EXCEPT ![g] = r] /\ r.event = Len(events) + 1
    BY <2>1, <2>2 DEF Idle
  <2>4. ASSUME NEW i \in DOMAIN queue PROVE queue[i].event # r.event
    <3>1. queue[i].event \in 1..Len(events) /\ Len(events) \in Nat
      BY SeqIs DEF StoryInv, QueueInv, Queued, CountInv
    <3> QED
      BY <2>3, <3>1
  <2>5. UNCHANGED queue
    BY <1>3 DEF LogErr
  <2> QED
    BY <2>3, <2>4, <2>5, CallPlaces
<1>4. ASSUME NEW g \in Goroutines, Redact(g) \/ Enrich(g) \/ WriteText(g) \/ WriteJSON(g)
      PROVE  PlacesInv'
  <2>1. PICK r : GoesOn(g, r)
    BY <1>4, CallGoesOnIs DEF WriteText, WriteJSON
  <2>2. UNCHANGED queue /\ call[g].stage # 0
    BY <1>4, StageIs DEF Redact, Enrich, WriteText, WriteJSON, Processing, Writing
  <2>3. Passed(call[g]) \in Nat /\ Passed(r) \in Nat /\ Passed(call[g]) <= Passed(r)
    BY <2>1, StageIs, PassedNext DEF GoesOn
  <2> QED
    BY <2>1, <2>2, <2>3, CallPlaces DEF GoesOn
<1>5. ASSUME NEW g \in Goroutines, Return(g) PROVE PlacesInv'
  <2>1. call' = [call EXCEPT ![g] = Idle] /\ UNCHANGED queue /\ Idle.stage = 0
    BY <1>5 DEF Return, Idle
  <2> QED
    BY <2>1, CallPlaces
<1>6. ASSUME NEW g \in Goroutines, CallAgain(g) PROVE PlacesInv'
  <2>1. PICK r : r = [call[g] EXCEPT !.stage = 1, !.again = TRUE, !.fields = call[g].base]
    OBVIOUS
  <2>2. call' = [call EXCEPT ![g] = r] /\ UNCHANGED queue
    <3>1. PICK S : call \in [Goroutines -> S]
      BY DEF FieldsInv, CallsInv
    <3> QED
      BY <1>6, <2>1, <3>1 DEF CallAgain
  <2>3. r.stage = 1 /\ r.again = TRUE /\ r.event = call[g].event
    <3>1. PICK U : call[g] \in CallOf(U)
      BY CallOfG DEF IsCall
    <3> QED
      BY <2>1, <3>1 DEF CallOf
  <2>4. /\ call[g].stage = Len(Pipeline) + Len(Children) + 1 /\ call[g].stage # 0 /\ ~call[g].again
        /\ Len(Pipeline) \in Nat /\ Len(Children) \in Nat
    BY <1>6, StageIs DEF CallAgain, AtEnd
  <2>5. Passed(call[g]) = Len(Children) /\ Passed(r) = Len(Children)
    <3>1. Passed(call[g]) = 0 + Len(Children)
      BY <2>4 DEF Passed
    <3>2. r.again
      BY <2>3
    <3>3. Passed(r) = Len(Children) + (IF 1 > Len(Pipeline) THEN 1 - Len(Pipeline) - 1 ELSE 0)
      BY <2>3, <3>2 DEF Passed
    <3> QED
      BY <2>4, <3>1, <3>3
  <2>6. Passed(call[g]) \in Nat /\ Passed(r) \in Nat /\ Passed(call[g]) <= Passed(r)
    BY <2>4, <2>5
  <2> QED
    BY <2>2, <2>3, <2>4, <2>6, CallPlaces
<1>7. ASSUME NEW g \in Goroutines, WriteAsync(g) PROVE PlacesInv'
  BY <1>7, WriteAsyncPlaces
<1>8. ASSUME Deliver PROVE PlacesInv'
  BY <1>8, DeliverPlaces
<1>9. ASSUME ChangeBoxes \/ UNCHANGED vars PROVE PlacesInv'
  BY <1>1, <1>9 DEF ChangeBoxes, vars
<1> QED
  BY <1>2, <1>3, <1>4, <1>5, <1>6, <1>7, <1>8, <1>9 DEF Next

\* As many entries as places at most.
LEMMA QueueBound ==
  ASSUME StoryInv, PlacesInv
  PROVE  Len(queue) <= 2 * Len(events) * Len(Children)
<1>1. /\ Len(queue) \in Nat /\ DOMAIN queue = 1..Len(queue) /\ Len(events) \in Nat /\ Len(Children) \in Nat
  BY SeqIs, Lists DEF StoryInv, QueueInv, CountInv
<1>2. PICK f : Placed(f)
  BY DEF PlacesInv
<1>3. PICK n, m, c : n = Len(queue) /\ m = Len(events) /\ c = Len(Children) + Len(Children)
  OBVIOUS
<1>4. /\ IsFiniteSet(1..n) /\ Cardinality(1..n) = n
      /\ IsFiniteSet(1..m) /\ Cardinality(1..m) = m
      /\ IsFiniteSet(1..c) /\ Cardinality(1..c) = c
  <2>1. \A k \in Nat : IsFiniteSet(1..k) /\ Cardinality(1..k) = k
    <3>1. ASSUME NEW k \in Nat PROVE IsFiniteSet(1..k) /\ Cardinality(1..k) = k
      <4>1. IsFiniteSet(1..k) /\ Cardinality(1..k) = IF 1 > k THEN 0 ELSE k - 1 + 1
        BY FS_Interval
      <4> QED
        BY <4>1
    <3> QED
      BY <3>1
  <2>2. n \in Nat /\ m \in Nat /\ c \in Nat
    BY <1>1, <1>3
  <2> QED
    BY <2>1, <2>2
<1>5. IsFiniteSet((1..m) \X (1..c)) /\ Cardinality((1..m) \X (1..c)) = m * c
  <2>1. PICK S, T : S = 1..m /\ T = 1..c
    OBVIOUS
  <2>2. IsFiniteSet(S \X T) /\ Cardinality(S \X T) = Cardinality(S) * Cardinality(T)
    BY <1>4, <2>1, FS_Product
  <2> QED
    BY <1>4, <2>1, <2>2
<1>6. PICK h : h = [i \in 1..n |-> <<queue[i].event, f[i]>>]
  OBVIOUS
<1>7. h \in [1..n -> (1..m) \X (1..c)]
  <2>1. ASSUME NEW i \in 1..n PROVE <<queue[i].event, f[i]>> \in (1..m) \X (1..c)
    <3>1. queue[i].event \in 1..m
      BY <1>1, <1>3, <2>1 DEF StoryInv, QueueInv, Queued
    <3>2. f[i] \in 1..c
      BY <1>1, <1>2, <1>3, <2>1 DEF Placed
    <3> QED
      BY <3>1, <3>2
  <2> QED
    BY <1>6, <2>1
<1>8. ~\E x, y \in 1..n : x # y /\ h[x] = h[y]
  <2>1. ASSUME NEW x \in 1..n, NEW y \in 1..n, x # y, h[x] = h[y] PROVE FALSE
    <3>1. queue[x].event = queue[y].event /\ f[x] = f[y]
      BY <1>6, <2>1
    <3> QED
      BY <1>1, <1>2, <1>3, <2>1, <3>1 DEF Placed
  <2> QED
    BY <2>1
<1>9. ~(m * c < n)
  <2>1. SUFFICES ASSUME m * c < n PROVE FALSE
    OBVIOUS
  <2>2. Cardinality((1..m) \X (1..c)) < Cardinality(1..n)
    BY <1>4, <1>5, <2>1
  <2>3. \E x, y \in 1..n : x # y /\ h[x] = h[y]
    BY <1>4, <1>5, <1>7, <2>2, FS_PigeonHole
  <2> QED
    BY <1>8, <2>3
<1>10. m * c = 2 * m * Len(Children) /\ m * c \in Int
  BY <1>1, <1>3
<1> QED
  BY <1>1, <1>3, <1>9, <1>10

LEMMA PlacesInvariant == Spec => []PlacesInv
<1>1. FieldsInv /\ StoryInv /\ PlacesInv /\ [Next]_vars => PlacesInv'
  BY PlacesStep
<1> QED
  BY <1>1, PlacesInit, FieldsInvariant, StoryInvariant, PTL DEF Spec

\* The state is of its type: slices lie within arrays that there are, calls are
\* about events that there are, and the async sink's queue is no longer than what
\* the events' calls and their repetitions put into it.
THEOREM FieldsTypeCorrect == Spec => []TypeOK
<1>1. FieldsInv /\ StoryInv /\ PlacesInv => TypeOK
  <2> SUFFICES ASSUME FieldsInv, StoryInv, PlacesInv PROVE TypeOK
    OBVIOUS
  <2>1. \A s : Within(s, heap) => Slice(s)
    BY DEF Within, Slice
  <2>2. Len(loggers) \in 1..MaxMade /\ Len(events) <= MaxEvents
    <3>1. Len(events) \in Nat /\ Len(loggers) \in Nat /\ MaxMade \in Nat
      BY SeqIs, BoundsAssumption DEF StoryInv, CountInv, FieldsInv, LoggersInv
    <3> QED
      BY <3>1 DEF StoryInv, CountInv
  <2>3. \A l \in DOMAIN loggers : Slice(loggers[l].fields)
    BY <2>1 DEF StoryInv, WasInv
  <2>4. \A g \in Goroutines : /\ Slice(call[g].base) /\ Slice(call[g].fields)
                               /\ call[g].event \in 0..Len(events)
                               /\ call[g].stage \in 0..Len(Pipeline) + Len(Children) + 1
    BY <2>1 DEF StoryInv, RightInv, Right
  <2>5. \A i \in DOMAIN queue : Slice(queue[i].fields)
    BY <2>1 DEF StoryInv, QueueInv, Queued
  <2> QED
    BY <2>2, <2>3, <2>4, <2>5, QueueBound DEF TypeOK
<1> QED
  BY <1>1, FieldsInvariant, StoryInvariant, PlacesInvariant, PTL
=============================================================================
