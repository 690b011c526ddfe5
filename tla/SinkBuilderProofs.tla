------------------------- MODULE SinkBuilderProofs -------------------------
(***************************************************************************)
(* Theorems about SinkBuilder, for any configurations, however their sinks *)
(* and parameters nest, any environments and spellings, and any program    *)
(* that registers factories; and about the circuit breaker, one of the     *)
(* wrappers it builds, for any number of writers, threshold and window.    *)
(*                                                                         *)
(* The recursions of SinkBuilder go down the places of a tree.  The first  *)
(* sections say in closed form what comes of them: where a recursion that  *)
(* may skip places comes to (VisitsIs), what a sink and the sinks below it *)
(* are built to (BuiltIs) and what the whole configuration is (BuildIs).   *)
(***************************************************************************)
EXTENDS SinkBuilder, CircuitBreakerSink, SequenceTheorems, FiniteSetTheorems,
        WellFoundedInduction, TLAPS

LEMMA DepthIs == Depth \in Nat /\ Depth > 0
BY BuilderAssumption

-----------------------------------------------------------------------------
(* Places and the recursions over them. *)

Less == {p \in Nat \X Nat : p[1] < p[2]}

\* Every set of numbers that is not empty has a least one.
LEMMA Least ==
  ASSUME NEW S \in SUBSET Nat, S # {}
  PROVE  \E n \in S : \A m \in S : n <= m
<1>1. IsWellFoundedOn(Less, Nat)
  BY NatLessThanWellFounded DEF OpToRel, Less
<1>2. PICK n \in S : \A m \in S : ~(<<m, n>> \in Less)
  BY <1>1, WFMin
<1>3. ASSUME NEW m \in S PROVE n <= m
  <2>1. <<m, n>> \in Nat \X Nat /\ <<m, n>>[1] = m /\ <<m, n>>[2] = n
    OBVIOUS
  <2>2. ~(m < n)
    BY <1>2, <2>1 DEF Less
  <2> QED
    BY <2>2
<1> QED
  BY <1>3

\* Induction, over a set of numbers instead of an operator.
LEMMA SetInduction ==
  ASSUME NEW S \in SUBSET Nat, 0 \in S, \A n \in S : n + 1 \in S
  PROVE  S = Nat
<1>1. SUFFICES ASSUME Nat \ S # {} PROVE FALSE
  OBVIOUS
<1>2. PICK n \in Nat \ S : \A m \in Nat \ S : n <= m
  BY <1>1, Least
<1>3. n # 0 /\ n - 1 \in Nat /\ n - 1 \notin Nat \ S
  BY <1>2
<1>4. n - 1 + 1 \in S
  BY <1>3
<1> QED
  BY <1>2, <1>3, <1>4

LEMMA PrefixIs ==
  ASSUME NEW S, NEW p \in Seq(S), NEW i \in 0..Len(p)
  PROVE  LET q == SubSeq(p, 1, i) IN
         /\ q \in Seq(S) /\ Len(q) = i /\ \A j \in 1..i : q[j] = p[j]
         /\ \A j \in 0..i : SubSeq(q, 1, j) = SubSeq(p, 1, j)
<1> DEFINE q == SubSeq(p, 1, i)
<1>0. Len(p) \in Nat /\ i \in Int /\ \A j \in 1..Len(p) : p[j] \in S
  BY LenProperties, ElementOfSeq
<1>1. q \in Seq(S) /\ Len(q) = i /\ \A j \in 1..i : q[j] = p[j]
  <2>1. \A j \in 1..i : p[j] \in S
    BY <1>0
  <2>2. /\ q \in Seq(S) /\ Len(q) = IF 1 <= i THEN i - 1 + 1 ELSE 0
        /\ \A j \in 1 .. i - 1 + 1 : q[j] = p[1 + j - 1]
    BY <1>0, <2>1, SubSeqProperties
  <2>3. i - 1 + 1 = i /\ \A j \in 1..i : 1 + j - 1 = j
    BY <1>0
  <2> QED
    BY <1>0, <2>2, <2>3
<1>2. ASSUME NEW j \in 0..i PROVE SubSeq(q, 1, j) = SubSeq(p, 1, j)
  <2> DEFINE a == SubSeq(q, 1, j)
             b == SubSeq(p, 1, j)
  <2>1. j \in Int /\ j - 1 + 1 = j /\ (\A k \in 1..j : k \in 1..i /\ 1 + k - 1 = k)
    BY <1>0
  <2>2. /\ a \in Seq(S) /\ Len(a) = IF 1 <= j THEN j - 1 + 1 ELSE 0
        /\ \A k \in 1 .. j - 1 + 1 : a[k] = q[1 + k - 1]
    <3>1. \A k \in 1..j : q[k] \in S
      BY <1>0, <1>1, <2>1
    <3> QED
      BY <2>1, <3>1, SubSeqProperties
  <2>3. /\ b \in Seq(S) /\ Len(b) = IF 1 <= j THEN j - 1 + 1 ELSE 0
        /\ \A k \in 1 .. j - 1 + 1 : b[k] = p[1 + k - 1]
    <3>1. \A k \in 1..j : p[k] \in S
      BY <1>0, <2>1
    <3> QED
      BY <2>1, <3>1, SubSeqProperties
  <2>4. Len(a) = j /\ Len(b) = j /\ \A k \in 1..j : a[k] = b[k]
    BY <1>1, <2>1, <2>2, <2>3
  <2> QED
    BY <2>2, <2>3, <2>4, SeqEqual
<1> QED
  BY <1>1, <1>2

LEMMA PlaceIs ==
  ASSUME NEW S, NEW p \in Seq(S)
  PROVE  /\ Len(p) \in Nat /\ DOMAIN p = 1..Len(p) /\ SubSeq(p, 1, Len(p)) = p
         /\ SubSeq(p, 1, 0) = <<>> /\ (Len(p) = 0 => p = <<>>)
         /\ Len(p) > 0 => /\ Front(p) = SubSeq(p, 1, Len(p) - 1) /\ Front(p) \in Seq(S)
                          /\ Len(Front(p)) = Len(p) - 1 /\ Last(p) = p[Len(p)]
                          /\ Last(p) \in S /\ Len(p) - 1 \in 0..Len(p)
                          /\ \A i \in 0..Len(p) - 1 : SubSeq(Front(p), 1, i) = SubSeq(p, 1, i)
<1>1. Len(p) \in Nat /\ DOMAIN p = 1..Len(p) /\ SubSeq(p, 1, Len(p)) = p
  BY LenProperties, SubSeqFull
<1>2. SubSeq(p, 1, 0) = <<>> /\ (Len(p) = 0 => p = <<>>)
  BY SubSeqEmpty, EmptySeq
<1>3. ASSUME Len(p) > 0
      PROVE  /\ Front(p) = SubSeq(p, 1, Len(p) - 1) /\ Front(p) \in Seq(S)
             /\ Len(Front(p)) = Len(p) - 1 /\ Last(p) = p[Len(p)] /\ Last(p) \in S
             /\ Len(p) - 1 \in 0..Len(p)
             /\ \A i \in 0..Len(p) - 1 : SubSeq(Front(p), 1, i) = SubSeq(p, 1, i)
  <2>1. Len(p) - 1 \in 0..Len(p) /\ Len(p) \in 1..Len(p)
    BY <1>1, <1>3
  <2> QED
    BY <2>1, PrefixIs, ElementOfSeq DEF Front, Last
<1> QED
  BY <1>1, <1>2, <1>3

\* The places all of whose prefixes are in the set, too.
Rooted(places) == {p \in places : \A i \in 1..Len(p) : SubSeq(p, 1, i) \in places}

LEMMA RootedStep ==
  ASSUME NEW S, NEW places, \A p \in places : p \in Seq(S), NEW p \in places, Len(p) > 0
  PROVE  p \in Rooted(places) <=> (Len(p) > 1 => Front(p) \in Rooted(places))
<1> DEFINE n == Len(p)
           f == Front(p)
<1>1. /\ n \in Nat /\ n > 0 /\ SubSeq(p, 1, n) = p /\ f = SubSeq(p, 1, n - 1)
      /\ Len(f) = n - 1 /\ \A i \in 0..n - 1 : SubSeq(f, 1, i) = SubSeq(p, 1, i)
  BY PlaceIs
<1> HIDE DEF n, f
<1>2. CASE n = 1
  <2>1. \A i \in 1..Len(p) : SubSeq(p, 1, i) = p
    <3>1. \A i \in 1..n : i = n
      BY <1>2
    <3> QED
      BY <1>1, <3>1 DEF n
  <2>2. p \in Rooted(places)
    BY <2>1 DEF Rooted
  <2> QED
    BY <1>2, <2>2 DEF n
<1>3. CASE n > 1
  <2>1. /\ \A i \in 1..n : i = n \/ i \in 1..n - 1
        /\ \A i \in 1..n - 1 : i \in 1..n /\ i \in 0..n - 1
        /\ n - 1 \in 1..n
    BY <1>1, <1>3
  <2>2. f \in Rooted(places) <=> f \in places /\ \A i \in 1..n - 1 : SubSeq(p, 1, i) \in places
    BY <1>1, <2>1 DEF Rooted
  <2>3. p \in Rooted(places) <=> \A i \in 1..n : SubSeq(p, 1, i) \in places
    BY DEF Rooted, n
  <2> QED
    BY <1>1, <1>3, <2>1, <2>2, <2>3 DEF n, f
<1> QED
  BY <1>1, <1>2, <1>3

\* f tells the places visited at every depth.
VisitsTo(f, places) ==
  f = [n \in 1..Depth |-> {p \in places : Len(p) = n /\ (n > 1 => Front(p) \in f[n - 1])}]

\* A recursion comes to a place if it may go all the way.
LEMMA VisitsIs ==
  ASSUME NEW S, NEW places, \A p \in places : p \in Seq(S) /\ Len(p) \in 1..Depth
  PROVE  Visits(places) = Rooted(places)
<1> DEFINE T == Rooted(places)
           w == [n \in 1..Depth |-> {p \in T : Len(p) = n}]
<1>0. \A p \in places : Len(p) \in Nat /\ Len(p) > 0 /\ (p \in T <=> (Len(p) > 1 => Front(p) \in T))
  <2> TAKE p \in places
  <2>1. Len(p) \in Nat /\ Len(p) > 0
    BY DepthIs
  <2> QED
    BY <2>1, RootedStep
<1>a. \A p \in places : Len(p) > 1 => Len(Front(p)) = Len(p) - 1
  <2> TAKE p \in places
  <2> QED
    BY <1>0, PlaceIs
<1>b. T \subseteq places
  BY DEF Rooted
<1>1. VisitsTo(w, places)
  <2>1. ASSUME NEW n \in 1..Depth
        PROVE  w[n] = {p \in places : Len(p) = n /\ (n > 1 => Front(p) \in w[n - 1])}
    <3>1. n > 1 => n - 1 \in 1..Depth
      BY DepthIs
    <3>2. n > 1 => w[n - 1] = {p \in T : Len(p) = n - 1}
      BY <3>1
    <3> HIDE DEF T
    <3> QED
      BY <1>0, <1>a, <1>b, <3>2
  <2>2. w = [n \in 1..Depth |-> w[n]]
    OBVIOUS
  <2> HIDE DEF w
  <2> QED
    BY <2>1, <2>2 DEF VisitsTo
<1>2. PICK f : VisitsTo(f, places) /\ Visits(places) = UNION {f[n] : n \in 1..Depth}
  <2>1. Visits(places) = UNION {(CHOOSE f : VisitsTo(f, places))[n] : n \in 1..Depth}
    BY DEF Visits, VisitsTo
  <2> QED
    BY <1>1, <2>1
<1> HIDE DEF w
<1>3. ASSUME NEW n \in 1..Depth
      PROVE  f[n] = {p \in places : Len(p) = n /\ (n > 1 => Front(p) \in f[n - 1])}
  BY <1>2 DEF VisitsTo
<1> DEFINE N == {n \in Nat : n + 1 \in 1..Depth => f[n + 1] = {p \in T : Len(p) = n + 1}}
<1>4. 0 \in N
  <2>1. 1 \in 1..Depth
    BY DepthIs
  <2>2. f[1] = {p \in places : Len(p) = 1 /\ (1 > 1 => Front(p) \in f[1 - 1])}
    BY <1>3, <2>1
  <2> HIDE DEF T
  <2>3. f[1] = {p \in T : Len(p) = 1}
    <3>1. \A p : p \in f[1] <=> p \in places /\ Len(p) = 1
      BY <2>2
    <3>2. ASSUME NEW p \in places, Len(p) = 1 PROVE p \in T
      <4>1. ~(Len(p) > 1)
        BY <3>2
      <4> QED
        BY <1>0, <4>1
    <3>3. \A p : p \in f[1] <=> p \in {q \in T : Len(q) = 1}
      BY <1>b, <3>1, <3>2
    <3> QED
      BY <3>3
  <2> QED
    BY <2>3
<1>5. ASSUME NEW n \in N PROVE n + 1 \in N
  <2>1. SUFFICES ASSUME n + 2 \in 1..Depth PROVE f[n + 2] = {p \in T : Len(p) = n + 2}
    OBVIOUS
  <2>2. n \in Nat /\ n + 1 \in 1..Depth /\ n + 2 > 1 /\ n + 2 - 1 = n + 1
    BY <2>1, DepthIs
  <2>3. f[n + 1] = {p \in T : Len(p) = n + 1}
    BY <2>2
  <2>4. f[n + 2] = {p \in places : Len(p) = n + 2 /\ Front(p) \in f[n + 1]}
    BY <1>3, <2>1, <2>2
  <2> HIDE DEF T
  <2> QED
    BY <1>0, <1>a, <1>b, <2>2, <2>3, <2>4
<1>6. N = Nat
  <2>1. N \in SUBSET Nat
    OBVIOUS
  <2> HIDE DEF N
  <2> QED
    BY <1>4, <1>5, <2>1, SetInduction
<1>7. ASSUME NEW n \in 1..Depth PROVE f[n] = {p \in T : Len(p) = n}
  <2>1. n - 1 \in Nat /\ n - 1 + 1 = n
    BY DepthIs
  <2>2. n - 1 \in N
    BY <1>6, <2>1
  <2> HIDE DEF T
  <2> QED
    BY <2>1, <2>2
<1> HIDE DEF T, N
<1> QED
  BY <1>2, <1>7, <1>b DEF T

-----------------------------------------------------------------------------
(* The tree of a configuration. *)

\* A configuration whose sinks stand at places of the model.
Placed(c) == \A p \in DOMAIN c.sinks : p \in Seq(Nat) /\ Len(p) \in 1..Depth

LEMMA PlacedIs ==
  ASSUME NEW c, Placed(c), NEW p \in DOMAIN c.sinks
  PROVE  /\ p \in Seq(Nat) /\ Len(p) \in Nat /\ Len(p) > 0 /\ Len(p) <= Depth
         /\ Front(p) \in Seq(Nat) /\ Len(Front(p)) = Len(p) - 1
         /\ Front(p) = SubSeq(p, 1, Len(p) - 1) /\ Last(p) = p[Len(p)] /\ Last(p) \in Nat
<1>1. p \in Seq(Nat) /\ Len(p) \in 1..Depth
  BY DEF Placed
<1>2. Len(p) \in Nat /\ Len(p) > 0 /\ Len(p) <= Depth
  BY <1>1, DepthIs
<1> QED
  BY <1>1, <1>2, PlaceIs

LEMMA KidsIs ==
  ASSUME NEW c, Placed(c), NEW at, NEW k \in Kids(c, at)
  PROVE  k \in DOMAIN c.sinks /\ Front(k) = at /\ at \in Seq(Nat) /\ Len(k) = Len(at) + 1
<1>1. k \in DOMAIN c.sinks /\ Front(k) = at
  BY DEF Kids
<1> QED
  BY <1>1, PlacedIs

\* A place and the ones below it that count.
From(c, at) ==
  {p \in DOMAIN c.sinks :
     /\ Len(at) <= Len(p) /\ SubSeq(p, 1, Len(at)) = at
     /\ \A i \in Len(at) + 1..Len(p) : SubSeq(p, 1, i) \in Kids(c, SubSeq(p, 1, i - 1))}

Under(c, at) == UNION {From(c, k) : k \in Kids(c, at)}

LEMMA UsedIsUnder ==
  ASSUME NEW c, Placed(c) PROVE Used(c) = From(c, <<>>)
<1>1. ASSUME NEW p \in DOMAIN c.sinks PROVE p \in Used(c) <=> p \in From(c, <<>>)
  <2>1. Len(<<>>) = 0 /\ Len(<<>>) <= Len(p) /\ SubSeq(p, 1, Len(<<>>)) = <<>>
        /\ Len(<<>>) + 1 = 1
    BY PlacedIs, PlaceIs, EmptySeq
  <2> QED
    BY <2>1 DEF Used, From
<1> QED
  BY <1>1 DEF Used, From

\* Above a place that counts is its parent.
LEMMA FromKid ==
  ASSUME NEW c, Placed(c), NEW at, NEW k \in Kids(c, at), NEW p \in From(c, k)
  PROVE  /\ p \in DOMAIN c.sinks /\ p \in From(c, at) /\ Len(p) > Len(at) /\ Len(at) \in Nat
         /\ SubSeq(p, 1, Len(at)) = at /\ SubSeq(p, 1, Len(at) + 1) = k
         /\ Len(at) + 1 \in DOMAIN p /\ p[Len(at) + 1] = Last(k)
         /\ \A i \in 1..Len(at) : i \in DOMAIN p /\ p[i] = at[i]
<1> DEFINE n == Len(at)
<1>1. /\ k \in DOMAIN c.sinks /\ Front(k) = at /\ at \in Seq(Nat) /\ Len(k) = n + 1 /\ n \in Nat
      /\ p \in DOMAIN c.sinks /\ p \in Seq(Nat) /\ Len(p) \in Nat /\ k \in Seq(Nat)
  BY KidsIs, PlacedIs, LenProperties DEF From
<1>2. /\ n + 1 <= Len(p) /\ SubSeq(p, 1, n + 1) = k
      /\ \A i \in n + 1 + 1..Len(p) : SubSeq(p, 1, i) \in Kids(c, SubSeq(p, 1, i - 1))
  BY <1>1 DEF From
<1>3. n + 1 \in 0..Len(p) /\ n \in 0..n + 1 /\ n + 1 - 1 = n /\ n + 1 \in 1..n + 1
      /\ n + 1 \in 1..Len(p) /\ n \in 0..Len(p)
  BY <1>1, <1>2
<1>4. /\ SubSeq(k, 1, n) = SubSeq(p, 1, n) /\ k[n + 1] = p[n + 1]
  BY <1>1, <1>2, <1>3, PrefixIs
<1>5. at = SubSeq(k, 1, n) /\ Last(k) = k[n + 1]
  BY <1>1, <1>3, PlacedIs
<1>6. SubSeq(p, 1, n) = at /\ p[n + 1] = Last(k)
  BY <1>4, <1>5
<1>7. \A i \in 1..n : p[i] = at[i]
  BY <1>1, <1>3, <1>6, PrefixIs
<1>8. \A i \in n + 1..Len(p) : i = n + 1 \/ i \in n + 1 + 1..Len(p)
  BY <1>1
<1>9. p \in From(c, at)
  <2>1. ASSUME NEW i \in n + 1..Len(p) PROVE SubSeq(p, 1, i) \in Kids(c, SubSeq(p, 1, i - 1))
    <3>1. CASE i = n + 1
      <4>1. SubSeq(p, 1, i) = k /\ i - 1 = n
        BY <1>2, <1>3, <3>1
      <4>2. SubSeq(p, 1, i - 1) = at
        BY <1>6, <4>1
      <4> QED
        BY <4>1, <4>2
    <3>2. CASE i \in n + 1 + 1..Len(p)
      BY <1>2, <3>2
    <3> QED
      BY <1>8, <3>1, <3>2
  <2>2. n <= Len(p)
    BY <1>1, <1>3
  <2> QED
    BY <1>1, <1>6, <2>1, <2>2 DEF From
<1>10. DOMAIN p = 1..Len(p) /\ \A i \in 1..n : i \in 1..Len(p)
  BY <1>1, <1>3, LenProperties
<1> QED
  BY <1>1, <1>2, <1>3, <1>6, <1>7, <1>9, <1>10

LEMMA FromSplit ==
  ASSUME NEW c, Placed(c), NEW at \in Seq(Nat)
  PROVE  \A p : p \in From(c, at) <=> (p = at /\ at \in DOMAIN c.sinks) \/ p \in Under(c, at)
<1> DEFINE n == Len(at)
<1>0. n \in Nat /\ SubSeq(at, 1, n) = at
  BY PlaceIs
<1>1. ASSUME NEW p \in From(c, at), p # at PROVE p \in Under(c, at)
  <2>1. /\ p \in DOMAIN c.sinks /\ n <= Len(p) /\ SubSeq(p, 1, n) = at
        /\ \A i \in n + 1..Len(p) : SubSeq(p, 1, i) \in Kids(c, SubSeq(p, 1, i - 1))
    BY DEF From
  <2>2. p \in Seq(Nat) /\ Len(p) \in Nat /\ SubSeq(p, 1, Len(p)) = p
    BY <2>1, PlacedIs, PlaceIs
  <2>3. n + 1 \in n + 1..Len(p) /\ n + 1 - 1 = n
    BY <1>0, <1>1, <2>1, <2>2
  <2> DEFINE k == SubSeq(p, 1, n + 1)
  <2>4. k \in Kids(c, at)
    <3> DEFINE m == n + 1
    <3>1. m \in n + 1..Len(p) /\ m - 1 = n
      BY <2>3
    <3> HIDE DEF m
    <3>2. SubSeq(p, 1, m) \in Kids(c, SubSeq(p, 1, m - 1))
      BY <2>1, <3>1
    <3>3. SubSeq(p, 1, m - 1) = at
      BY <2>1, <3>1
    <3> QED
      BY <3>2, <3>3 DEF m
  <2>5. Len(k) = n + 1
    BY <2>4, KidsIs
  <2>6. \A i \in n + 1 + 1..Len(p) : i \in n + 1..Len(p)
    BY <1>0
  <2>7. n + 1 <= Len(p)
    BY <2>3
  <2>8. p \in From(c, k)
    BY <2>1, <2>5, <2>6, <2>7 DEF From
  <2> QED
    BY <2>4, <2>8 DEF Under
<1>2. ASSUME NEW p \in Under(c, at) PROVE p \in From(c, at)
  BY FromKid DEF Under
<1>3. ASSUME at \in DOMAIN c.sinks PROVE at \in From(c, at)
  <2>1. \A i \in n + 1..Len(at) : FALSE
    BY <1>0
  <2> QED
    BY <1>0, <1>3, <2>1 DEF From
<1>4. ASSUME NEW p \in From(c, at) PROVE p \in DOMAIN c.sinks
  BY DEF From
<1> QED
  BY <1>1, <1>2, <1>3, <1>4

-----------------------------------------------------------------------------
(* The order of a build. *)

LEMMA AheadOfParent ==
  ASSUME NEW c, Placed(c), NEW at, NEW q \in Under(c, at)
  PROVE  Ahead(q, at) /\ ~Ahead(at, q) /\ ~Ahead(at, at)
<1>1. PICK k \in Kids(c, at) : q \in From(c, k)
  BY DEF Under
<1>2. at \in Seq(Nat) /\ q \in DOMAIN c.sinks /\ q \in Seq(Nat) /\ Len(q) \in Nat
  BY <1>1, FromKid, KidsIs, PlacedIs
<1>3. /\ Len(q) > Len(at) /\ Len(at) \in Nat /\ SubSeq(q, 1, Len(at)) = at
      /\ \A i \in 1..Len(at) : q[i] = at[i]
  BY <1>1, FromKid
<1>4. /\ DOMAIN at = 1..Len(at) /\ SubSeq(at, 1, Len(at)) = at
      /\ \A i \in 1..Len(at) : at[i] \in Nat
  BY <1>2, PlaceIs, ElementOfSeq
<1>5. IsStrictPrefix(at, q)
  BY <1>2, <1>3, <1>4 DEF IsStrictPrefix, IsPrefix
<1>6. ~IsStrictPrefix(q, at) /\ ~IsStrictPrefix(at, at)
  BY <1>2, <1>3 DEF IsStrictPrefix, IsPrefix
<1>7. \A i \in DOMAIN at : ~(at[i] < q[i]) /\ ~(at[i] < at[i])
  BY <1>3, <1>4
<1> QED
  BY <1>5, <1>6, <1>7 DEF Ahead, LeftOf

\* Between two branches the order of the steps decides.
LEMMA AheadBetween ==
  ASSUME NEW c, Placed(c), NEW at, NEW j \in Kids(c, at), NEW k \in Kids(c, at), j # k,
         NEW p \in From(c, j), NEW q \in From(c, k)
  PROVE  Ahead(p, q) <=> Last(j) < Last(k)
<1> DEFINE n == Len(at)
<1>1. /\ p \in DOMAIN c.sinks /\ Len(p) > n /\ n \in Nat /\ SubSeq(p, 1, n) = at
      /\ SubSeq(p, 1, n + 1) = j /\ n + 1 \in DOMAIN p /\ p[n + 1] = Last(j)
      /\ \A i \in 1..n : i \in DOMAIN p /\ p[i] = at[i]
  BY FromKid
<1>2. /\ q \in DOMAIN c.sinks /\ Len(q) > n /\ SubSeq(q, 1, n) = at
      /\ SubSeq(q, 1, n + 1) = k /\ n + 1 \in DOMAIN q /\ q[n + 1] = Last(k)
      /\ \A i \in 1..n : i \in DOMAIN q /\ q[i] = at[i]
  BY FromKid
<1>3. /\ p \in Seq(Nat) /\ q \in Seq(Nat) /\ Len(p) \in Nat /\ Len(q) \in Nat /\ at \in Seq(Nat)
      /\ DOMAIN p = 1..Len(p) /\ DOMAIN q = 1..Len(q) /\ \A i \in 1..n : at[i] \in Nat
  <2>1. p \in Seq(Nat) /\ q \in Seq(Nat)
    BY <1>1, <1>2, PlacedIs
  <2>2. Len(p) \in Nat /\ Len(q) \in Nat /\ DOMAIN p = 1..Len(p) /\ DOMAIN q = 1..Len(q)
    BY <2>1, LenProperties
  <2>3. at \in Seq(Nat)
    BY KidsIs
  <2>4. \A i \in 1..n : at[i] \in Nat
    BY <2>3, ElementOfSeq
  <2> QED
    BY <2>1, <2>2, <2>3, <2>4
\* What has more than n elements in common has the (n + 1)st in common.
<1>4. ASSUME NEW m \in Nat, m >= n + 1, m <= Len(p), m <= Len(q)
      PROVE  SubSeq(p, 1, m) # SubSeq(q, 1, m)
  <2>1. m \in 0..Len(p) /\ m \in 0..Len(q) /\ n + 1 \in 0..m
    BY <1>1, <1>3, <1>4
  <2>2. SubSeq(SubSeq(p, 1, m), 1, n + 1) = j /\ SubSeq(SubSeq(q, 1, m), 1, n + 1) = k
    BY <1>1, <1>2, <1>3, <2>1, PrefixIs
  <2> QED
    BY <2>2
<1>5. ~IsStrictPrefix(q, p)
  <2>1. SUFFICES ASSUME Len(q) <= Len(p), SubSeq(q, 1, Len(q)) = SubSeq(p, 1, Len(q)) PROVE FALSE
    BY DEF IsStrictPrefix, IsPrefix
  <2>2. Len(q) >= n + 1 /\ Len(q) <= Len(q)
    BY <1>1, <1>2, <1>3
  <2> QED
    BY <1>3, <1>4, <2>1, <2>2
<1>6. ASSUME NEW i \in DOMAIN p \cap DOMAIN q,
             SubSeq(p, 1, i - 1) = SubSeq(q, 1, i - 1), p[i] < q[i]
      PROVE  i = n + 1
  <2>1. i \in Nat /\ i > 0 /\ i <= Len(p) /\ i <= Len(q)
    BY <1>3
  <2>2. ~(i <= n)
    <3>1. SUFFICES ASSUME i <= n PROVE FALSE
      OBVIOUS
    <3>2. i \in 1..n
      BY <1>1, <2>1, <3>1
    <3>3. p[i] = at[i] /\ q[i] = at[i] /\ at[i] \in Nat
      BY <1>1, <1>2, <1>3, <3>2
    <3> QED
      BY <1>6, <3>3
  <2>3. ~(i - 1 >= n + 1)
    <3>1. SUFFICES ASSUME i - 1 >= n + 1 PROVE FALSE
      OBVIOUS
    <3>2. i - 1 \in Nat /\ i - 1 <= Len(p) /\ i - 1 <= Len(q)
      BY <1>3, <2>1
    <3> QED
      BY <1>4, <1>6, <3>1, <3>2
  <2> QED
    BY <1>1, <2>1, <2>2, <2>3
<1>7. ASSUME Last(j) < Last(k) PROVE Ahead(p, q)
  <2>1. n + 1 \in DOMAIN p \cap DOMAIN q /\ n + 1 - 1 = n
    BY <1>1, <1>2
  <2>2. SubSeq(p, 1, n + 1 - 1) = SubSeq(q, 1, n + 1 - 1) /\ p[n + 1] < q[n + 1]
    BY <1>1, <1>2, <1>7, <2>1
  <2> QED
    BY <2>1, <2>2 DEF Ahead, LeftOf
<1>8. ASSUME Ahead(p, q) PROVE Last(j) < Last(k)
  <2>1. PICK i \in DOMAIN p \cap DOMAIN q : SubSeq(p, 1, i - 1) = SubSeq(q, 1, i - 1) /\ p[i] < q[i]
    BY <1>5, <1>8 DEF Ahead, LeftOf
  <2>2. i = n + 1
    BY <1>6, <2>1
  <2> QED
    BY <1>1, <1>2, <2>1, <2>2
<1> QED
  BY <1>7, <1>8

-----------------------------------------------------------------------------
(* What comes of a build. *)

\* The sinks before which nothing is wrong.
Good(c, places) ==
  {p \in places : Sound(c, p) /\ \A q \in places : Ahead(q, p) => Sound(c, q)}

\* What comes of building the sinks at places.
Whole(c, places) ==
  [ok   |-> \A p \in places : Sound(c, p),
   open |-> {p \in Good(c, places) : Type(c, p) \in {"async", "batch", "file"}},
   made |-> places]

LEMMA BuildAllIs ==
  ASSUME NEW c, Placed(c), NEW at, NEW below,
         \A k \in Kids(c, at) : below[k] = Whole(c, From(c, k))
  PROVE  BuildAll(Kids(c, at), below) = Whole(c, Under(c, at))
<1> DEFINE kids == Kids(c, at)
           tried == {p \in kids : \A q \in kids : Last(q) < Last(p) => below[q].ok}
<1>0. \A k \in kids :
        /\ below[k].ok <=> \A p \in From(c, k) : Sound(c, p)
        /\ below[k].open = {p \in Good(c, From(c, k)) : Type(c, p) \in {"async", "batch", "file"}}
        /\ below[k].made = From(c, k)
  <2> TAKE k \in kids
  <2>1. below[k] = Whole(c, From(c, k))
    OBVIOUS
  <2> HIDE DEF kids
  <2> QED
    BY <2>1 DEF Whole
<1>1. (\A p \in kids : below[p].ok) <=> (\A p \in Under(c, at) : Sound(c, p))
  <2>1. \A p : p \in Under(c, at) <=> \E k \in kids : p \in From(c, k)
    BY DEF Under
  <2> HIDE DEF kids
  <2> QED
    BY <1>0, <2>1
<1>2. UNION {below[p].made : p \in kids} = Under(c, at)
  <2>1. \A p \in kids : below[p].made = From(c, p)
    BY <1>0
  <2> QED
    BY <2>1 DEF Under
<1>3. ASSUME NEW k \in kids, NEW x \in From(c, k)
      PROVE  (k \in tried /\ x \in Good(c, From(c, k))) <=> x \in Good(c, Under(c, at))
  <2>1. k \in tried <=>
          \A j \in kids : Last(j) < Last(k) => \A z \in From(c, j) : Sound(c, z)
    <3>1. k \in tried <=> \A j \in kids : Last(j) < Last(k) => below[j].ok
      OBVIOUS
    <3> HIDE DEF kids, tried
    <3> QED
      BY <1>0, <3>1
  <2>2. \A j \in kids : \A z \in From(c, j) : j # k => (Ahead(z, x) <=> Last(j) < Last(k))
    BY AheadBetween
  <2>3. ~(Last(k) < Last(k))
    BY KidsIs, PlacedIs
  <2>4. (\A z \in Under(c, at) : Ahead(z, x) => Sound(c, z)) <=>
          \A j \in kids : \A z \in From(c, j) : Ahead(z, x) => Sound(c, z)
    BY DEF Under
  <2>5. x \in Under(c, at)
    BY DEF Under
  <2> HIDE DEF tried, kids
  <2>6. (\A j \in kids : \A z \in From(c, j) : Ahead(z, x) => Sound(c, z)) <=>
          /\ \A z \in From(c, k) : Ahead(z, x) => Sound(c, z)
          /\ \A j \in kids : Last(j) < Last(k) => \A z \in From(c, j) : Sound(c, z)
    BY <2>2, <2>3
  <2> QED
    BY <2>1, <2>4, <2>5, <2>6 DEF Good
<1>4. \A k \in kids : below[k].open =
        {p \in Good(c, From(c, k)) : Type(c, p) \in {"async", "batch", "file"}}
  BY <1>0
<1>5. UNION {below[p].open : p \in tried} =
        {p \in Good(c, Under(c, at)) : Type(c, p) \in {"async", "batch", "file"}}
  <2> DEFINE O == UNION {below[p].open : p \in tried}
             R == {p \in Good(c, Under(c, at)) : Type(c, p) \in {"async", "batch", "file"}}
  <2>1. ASSUME NEW x \in O PROVE x \in R
    <3>1. PICK k \in tried : x \in below[k].open
      OBVIOUS
    <3>2. k \in kids /\ x \in Good(c, From(c, k)) /\ Type(c, x) \in {"async", "batch", "file"}
      BY <1>4, <3>1
    <3>3. x \in From(c, k)
      BY <3>2 DEF Good
    <3> HIDE DEF tried, kids
    <3> QED
      BY <1>3, <3>1, <3>2, <3>3
  <2>2. ASSUME NEW x \in R PROVE x \in O
    <3>1. x \in Good(c, Under(c, at)) /\ Type(c, x) \in {"async", "batch", "file"}
      OBVIOUS
    <3>2. PICK k \in kids : x \in From(c, k)
      BY <3>1 DEF Good, Under
    <3>3. k \in tried /\ x \in Good(c, From(c, k))
      <4> HIDE DEF tried, kids
      <4> QED
        BY <1>3, <3>1, <3>2
    <3>4. x \in below[k].open
      BY <1>4, <3>1, <3>2, <3>3
    <3> HIDE DEF tried, kids
    <3> QED
      BY <3>3, <3>4
  <2> HIDE DEF O, R
  <2>3. \A x : x \in O <=> x \in R
    BY <2>1, <2>2
  <2>4. O = R
    BY <2>3
  <2> QED
    BY <2>4 DEF O, R
<1>6. BuildAll(kids, below) =
        [ok   |-> \A p \in kids : below[p].ok, open |-> UNION {below[p].open : p \in tried},
         made |-> UNION {below[p].made : p \in kids}]
  BY DEF BuildAll
<1> HIDE DEF kids, tried
<1>7. BuildAll(kids, below) = Whole(c, Under(c, at))
  BY <1>1, <1>2, <1>5, <1>6 DEF Whole
<1> QED
  BY <1>7 DEF kids

LEMMA BuildSinkIs ==
  ASSUME NEW c, Placed(c), NEW at \in DOMAIN c.sinks, NEW below,
         \A k \in Kids(c, at) : below[k] = Whole(c, From(c, k))
  PROVE  BuildSink(c, at, below) = Whole(c, From(c, at))
<1> DEFINE U == Under(c, at)
           F == From(c, at)
           all == BuildAll(Kids(c, at), below)
           ok  == all.ok /\ Sound(c, at)
           typed == {"async", "batch", "file"}
<1>1. /\ all.ok <=> \A p \in U : Sound(c, p)
      /\ all.open = {p \in Good(c, U) : Type(c, p) \in typed}
      /\ all.made = U
  BY BuildAllIs DEF Whole
<1>2. \A p : p \in F <=> p = at \/ p \in U
  BY FromSplit, PlacedIs
<1>3. \A p \in U : Ahead(p, at) /\ ~Ahead(at, p) /\ ~Ahead(at, at)
  BY AheadOfParent
<1>4. ~Ahead(at, at)
  <2>1. at \in Seq(Nat)
    BY PlacedIs
  <2>2. \A i \in DOMAIN at : at[i] \in Nat /\ ~(at[i] < at[i])
    BY <2>1, ElementOfSeq, LenProperties
  <2> QED
    BY <2>2 DEF Ahead, LeftOf, IsStrictPrefix
<1>5. BuildSink(c, at, below) =
        [ok |-> ok, open |-> all.open \cup (IF Opens(c, at, ok) THEN {at} ELSE {}),
         made |-> all.made \cup {at}]
  BY DEF BuildSink
<1>6. ok <=> \A p \in F : Sound(c, p)
  <2> HIDE DEF all, U, F
  <2> QED
    BY <1>1, <1>2
<1>7. all.made \cup {at} = F
  <2> HIDE DEF all, U, F
  <2> QED
    BY <1>1, <1>2
<1>8. \A p \in U : p # at /\ (p \in Good(c, F) <=> p \in Good(c, U))
  <2> HIDE DEF U, F
  <2> QED
    BY <1>2, <1>3 DEF Good
<1>9. at \in Good(c, F) <=> \A p \in F : Sound(c, p)
  <2> HIDE DEF U, F
  <2> QED
    BY <1>2, <1>3 DEF Good
<1>10. \A p \in Good(c, F) : p = at \/ p \in U
  BY <1>2 DEF Good
<1>11. all.open \cup (IF Opens(c, at, ok) THEN {at} ELSE {}) =
         {p \in Good(c, F) : Type(c, p) \in typed}
  <2>1. Opens(c, at, ok) <=> ok /\ Type(c, at) \in typed
    BY DEF Opens
  <2>2. \A p \in Good(c, U) : p \in U
    BY DEF Good
  <2>3. \A p : p \in all.open <=> p \in Good(c, U) /\ Type(c, p) \in typed
    BY <1>1
  <2> DEFINE opened == all.open
             o == Opens(c, at, ok)
  <2> HIDE DEF all, U, F, typed, opened, o, ok
  <2>4. \A p : p \in opened \cup (IF o THEN {at} ELSE {}) <=>
                p \in {q \in Good(c, F) : Type(c, q) \in typed}
    <3> TAKE p
    <3>1. CASE p = at
      <4>1. p \in Good(c, F) /\ Type(c, p) \in typed <=> o
        BY <1>6, <1>9, <2>1, <3>1 DEF o
      <4>2. p \notin opened
        BY <1>8, <2>2, <2>3, <3>1 DEF opened
      <4> QED
        BY <3>1, <4>1, <4>2
    <3>2. CASE p # at
      <4>1. p \in Good(c, F) <=> p \in Good(c, U)
        BY <1>8, <1>10, <2>2, <3>2
      <4> QED
        BY <2>3, <3>2, <4>1 DEF opened
    <3> QED
      BY <3>1, <3>2
  <2>5. opened \cup (IF o THEN {at} ELSE {}) = {q \in Good(c, F) : Type(c, q) \in typed}
    BY <2>4
  <2> QED
    BY <2>5 DEF opened, o
<1>12. BuildSink(c, at, below) =
        [ok |-> \A p \in F : Sound(c, p), open |-> {p \in Good(c, F) : Type(c, p) \in typed},
         made |-> F]
  <2>1. ok = \A p \in F : Sound(c, p)
    BY <1>6
  <2> HIDE DEF all, ok, F, typed
  <2> QED
    BY <1>5, <1>7, <1>11, <2>1
<1> QED
  BY <1>12 DEF Whole

\* f tells what was built at every height.
BuiltTo(f, c) ==
  f = [n \in 0..Depth |->
         [at \in {p \in DOMAIN c.sinks : Len(p) = Depth - n} |->
            BuildSink(c, at, IF n = 0 THEN <<>> ELSE f[n - 1])]]

\* The hypothesis of BuildSinkIs at a height.
LEMMA BuiltStep ==
  ASSUME NEW c, Placed(c), NEW n \in 0..Depth, NEW below,
         n # 0 => \A p \in DOMAIN c.sinks : Len(p) = Depth - (n - 1) =>
                    below[p] = Whole(c, From(c, p)),
         NEW at \in DOMAIN c.sinks, Len(at) = Depth - n
  PROVE  BuildSink(c, at, below) = Whole(c, From(c, at))
<1>1. ASSUME NEW k \in Kids(c, at) PROVE below[k] = Whole(c, From(c, k))
  <2>1. k \in DOMAIN c.sinks /\ Len(k) = Len(at) + 1 /\ Len(k) <= Depth
    BY KidsIs, PlacedIs
  <2>2. n # 0 /\ Len(k) = Depth - (n - 1)
    BY <2>1, DepthIs
  <2> QED
    BY <2>1, <2>2
<1> QED
  BY <1>1, BuildSinkIs

LEMMA BuiltIs ==
  ASSUME NEW c, Placed(c), NEW n \in 0..Depth, NEW at \in DOMAIN c.sinks, Len(at) = Depth - n
  PROVE  Built(c)[n][at] = Whole(c, From(c, at))
<1> DEFINE At(m) == {p \in DOMAIN c.sinks : Len(p) = Depth - m}
           w == [m \in 0..Depth |-> [p \in At(m) |-> Whole(c, From(c, p))]]
<1>1. BuiltTo(w, c)
  <2>1. ASSUME NEW m \in 0..Depth
        PROVE  w[m] = [p \in At(m) |-> BuildSink(c, p, IF m = 0 THEN <<>> ELSE w[m - 1])]
    <3> DEFINE below == IF m = 0 THEN <<>> ELSE w[m - 1]
    <3>1. m # 0 => \A p \in DOMAIN c.sinks : Len(p) = Depth - (m - 1) =>
                     below[p] = Whole(c, From(c, p))
      <4>1. m # 0 => m - 1 \in 0..Depth
        BY DepthIs
      <4> QED
        BY <4>1
    <3> HIDE DEF below, w
    <3>2. \A p \in At(m) : BuildSink(c, p, below) = Whole(c, From(c, p))
      BY <3>1, BuiltStep
    <3>3. w[m] = [p \in At(m) |-> Whole(c, From(c, p))]
      BY DEF w
    <3>4. w[m] = [p \in At(m) |-> BuildSink(c, p, below)]
      BY <3>2, <3>3
    <3> QED
      BY <3>4 DEF below
  <2>2. w = [m \in 0..Depth |-> w[m]]
    OBVIOUS
  <2> HIDE DEF w
  <2> QED
    BY <2>1, <2>2 DEF BuiltTo
<1>2. Built(c) = CHOOSE f : BuiltTo(f, c)
  BY DEF Built, BuiltTo
<1> HIDE DEF w
<1>3. BuiltTo(Built(c), c)
  BY <1>1, <1>2
<1> DEFINE B == Built(c)
<1> HIDE DEF B
<1>4. ASSUME NEW m \in 0..Depth
      PROVE  B[m] = [p \in At(m) |-> BuildSink(c, p, IF m = 0 THEN <<>> ELSE B[m - 1])]
  BY <1>3 DEF BuiltTo, B
<1> DEFINE Is(m) == \A p \in DOMAIN c.sinks : Len(p) = Depth - m => B[m][p] = Whole(c, From(c, p))
           N == {m \in Nat : m \in 0..Depth => Is(m)}
<1>5. ASSUME NEW m \in 0..Depth, m # 0 => Is(m - 1) PROVE Is(m)
  <2> DEFINE below == IF m = 0 THEN <<>> ELSE B[m - 1]
  <2>1. m # 0 => \A p \in DOMAIN c.sinks : Len(p) = Depth - (m - 1) =>
                   below[p] = Whole(c, From(c, p))
    BY <1>5
  <2>2. B[m] = [p \in At(m) |-> BuildSink(c, p, below)]
    BY <1>4
  <2> HIDE DEF below
  <2>3. \A p \in At(m) : BuildSink(c, p, below) = Whole(c, From(c, p))
    BY <2>1, BuiltStep
  <2>4. \A p \in At(m) : B[m][p] = Whole(c, From(c, p))
    BY <2>2, <2>3
  <2> QED
    BY <2>4
<1>6. 0 \in N
  <2>1. 0 \in 0..Depth
    BY DepthIs
  <2>2. Is(0)
    BY <1>5, <2>1
  <2> QED
    BY <2>2
<1>7. ASSUME NEW m \in N PROVE m + 1 \in N
  <2>1. SUFFICES ASSUME m + 1 \in 0..Depth PROVE Is(m + 1)
    OBVIOUS
  <2>2. m \in 0..Depth /\ m + 1 - 1 = m
    BY <2>1, DepthIs
  <2>3. Is(m)
    BY <2>2
  <2>4. Is(m + 1 - 1)
    BY <2>2, <2>3
  <2> HIDE DEF Is
  <2> QED
    BY <1>5, <2>1, <2>4
<1>8. N = Nat
  <2>1. N \in SUBSET Nat
    OBVIOUS
  <2> HIDE DEF N
  <2> QED
    BY <1>6, <1>7, <2>1, SetInduction
<1>9. n \in N
  <2> HIDE DEF N
  <2> QED
    BY <1>8
<1>10. Is(n)
  BY <1>9
<1> QED
  BY <1>10 DEF B

LEMMA UsedIs ==
  ASSUME NEW c, Placed(c) PROVE Used(c) = Under(c, <<>>)
<1>1. <<>> \in Seq(Nat) /\ Len(<<>>) = 0 /\ <<>> \notin DOMAIN c.sinks
  BY DepthIs, EmptySeq DEF Placed
<1>2. \A p : p \in From(c, <<>>) <=> p \in Under(c, <<>>)
  BY <1>1, FromSplit
<1>3. From(c, <<>>) = Under(c, <<>>)
  BY <1>2
<1> QED
  BY <1>3, UsedIsUnder

LEMMA BuildTopIs ==
  ASSUME NEW c, Placed(c)
  PROVE  BuildAll(Kids(c, <<>>), Built(c)[Depth - 1]) = Whole(c, Used(c))
<1>1. ASSUME NEW k \in Kids(c, <<>>) PROVE Built(c)[Depth - 1][k] = Whole(c, From(c, k))
  <2>1. k \in DOMAIN c.sinks /\ Len(k) = Len(<<>>) + 1 /\ Len(<<>>) = 0
    BY KidsIs
  <2>2. Depth - 1 \in 0..Depth /\ Len(k) = Depth - (Depth - 1)
    BY <2>1, DepthIs
  <2> QED
    BY <2>1, <2>2, BuiltIs
<1> QED
  BY <1>1, BuildAllIs, UsedIs

-----------------------------------------------------------------------------
(* The invariant. *)

\* A name of the module's own stays its factory's; the other factories are the program's.
RegistryInv ==
  /\ DOMAIN registry = Sections
  /\ \A s \in Sections : /\ BuiltIn[s] \subseteq DOMAIN registry[s]
                         /\ \A n \in DOMAIN registry[s] :
                              IF n \in BuiltIn[s] THEN registry[s][n] = n
                                                  ELSE registry[s][n] \in Factories \ {"nil"}
  /\ IsFiniteSet(accepted)

\* The tree that runs is the configured one.
TreeInv ==
  /\ Placed(cfg)
  /\ phase \in {"built", "unclosed", "closed"} =>
       /\ DOMAIN sink = Used(cfg)
       /\ \A p \in DOMAIN sink :
            /\ sink[p].min = cfg.sinks[p].min
            /\ Nested(sink[p].type) <=> Nested(Type(cfg, p))
            /\ sink[p].type = "nop" <=> Type(cfg, p) = "nop"
       /\ open \subseteq DOMAIN sink
       /\ \A p \in open : sink[p].type # "retry"
  /\ level # {} => phase \in {"built", "unclosed", "closed"}

BuilderInv ==
  TypeOK /\ RegistryInv /\ TreeInv /\ EnvExpandedOnce /\ RoutesByPath /\ CloseReleasesAll

-----------------------------------------------------------------------------
(* Loading. *)

LEMMA TreeRooted ==
  ASSUME NEW S, NEW places, \A p \in places : p \in Seq(S), IsTree(places)
  PROVE  Visits(places) = places
<1>1. \A p \in places : p \in Seq(S) /\ Len(p) \in 1..Depth /\ Len(p) \in Nat /\ Len(p) > 0
  BY DepthIs DEF IsTree
<1>2. \A p \in places : p \in Rooted(places)
  <2>1. SUFFICES ASSUME NEW q \in places, q \notin Rooted(places) PROVE FALSE
    OBVIOUS
  <2> DEFINE L == {Len(p) : p \in places \ Rooted(places)}
  <2>2. L \in SUBSET Nat /\ L # {}
    BY <1>1, <2>1
  <2>3. PICK n \in L : \A m \in L : n <= m
    <3> HIDE DEF L
    <3> QED
      BY <2>2, Least
  <2>4. PICK p \in places \ Rooted(places) : n = Len(p)
    BY <2>3
  <2>5. \A r \in places \ Rooted(places) : Len(p) <= Len(r)
    BY <2>3, <2>4
  <2>6. Len(p) > 1 /\ Front(p) \notin Rooted(places)
    BY <1>1, <2>4, RootedStep
  <2>7. Front(p) \in places /\ Len(Front(p)) = Len(p) - 1
    BY <1>1, <2>4, <2>6, PlaceIs DEF IsTree
  <2>8. Len(p) <= Len(p) - 1
    BY <2>5, <2>6, <2>7
  <2> QED
    BY <1>1, <2>4, <2>8
<1>3. Visits(places) = Rooted(places)
  BY <1>1, VisitsIs
<1>4. Rooted(places) \subseteq places
  BY DEF Rooted
<1> QED
  BY <1>2, <1>3, <1>4

LEMMA LoadOneIs ==
  ASSUME NEW s, WellFormed(s, TRUE), NEW by
  PROVE  /\ LoadOne(by, s).type = Expand(s.type)
         /\ DOMAIN LoadOne(by, s).params = DOMAIN s.params
         /\ \A q \in DOMAIN s.params : s.params[q].kind = "string" =>
              /\ LoadOne(by, s).params[q].kind = "string"
              /\ LoadOne(by, s).params[q].is = Expand(s.params[q].is)
<1> DEFINE P == s.params
           D == DecodeMap(by, P)
           M == ExpandMap(D)
           places == {q \in DOMAIN D :
                        Len(q) > 1 => D[Front(q)].kind \in {"list", "map", "strings"}}
<1>1. /\ {"type", "params"} \subseteq DOMAIN s
      /\ \A q \in DOMAIN P : q \in Seq(STRING)
      /\ IsTree(DOMAIN P)
      /\ \A q \in DOMAIN P : Len(q) > 1 => P[Front(q)].kind \in {"list", "map"}
  BY DEF WellFormed, Containers
<1>2. DOMAIN D = DOMAIN P /\ \A q \in DOMAIN P : D[q] = Decode(by, P[q])
  BY DEF DecodeMap
<1>3. \A v : v.kind \in {"list", "map", "string"} => Decode(by, v) = v
  BY DEF Decode
<1>4. places = DOMAIN P
  <2>1. \A q \in DOMAIN P : Len(q) > 1 => Front(q) \in DOMAIN P
    BY <1>1 DEF IsTree
  <2> HIDE DEF P, D, places
  <2>2. ASSUME NEW q \in DOMAIN P, Len(q) > 1 PROVE D[Front(q)].kind \in {"list", "map", "strings"}
    <3>1. P[Front(q)].kind \in {"list", "map"} /\ Front(q) \in DOMAIN P
      BY <1>1, <2>1, <2>2
    <3>2. D[Front(q)] = P[Front(q)]
      BY <1>2, <1>3, <3>1
    <3> QED
      BY <3>1, <3>2
  <2> QED
    BY <1>2, <2>2 DEF places
<1>5. Visits(places) = DOMAIN P
  <2> HIDE DEF places, P
  <2> QED
    BY <1>1, <1>4, TreeRooted
<1>6. M = [q \in DOMAIN D |-> IF q \in Visits(places) THEN ExpandValue(D[q]) ELSE D[q]]
  BY DEF ExpandMap
<1>7. LoadOne(by, s).type = Expand(s.type) /\ LoadOne(by, s).params = M
  BY <1>1 DEF LoadOne
<1>8. DOMAIN M = DOMAIN P
  <2> HIDE DEF places, P, D, M
  <2> QED
    BY <1>2, <1>6
<1>9. ASSUME NEW q \in DOMAIN P, P[q].kind = "string"
      PROVE  M[q].kind = "string" /\ M[q].is = Expand(P[q].is)
  <2>1. M[q] = ExpandValue(P[q])
    <3> HIDE DEF places, P, D, M
    <3> QED
      BY <1>2, <1>3, <1>5, <1>6, <1>9
  <2> HIDE DEF P, D, M
  <2> QED
    BY <1>9, <2>1 DEF ExpandValue
<1> HIDE DEF M, D, places
<1> QED
  BY <1>7, <1>8, <1>9

\* What the documents are.
LEMMA DocumentIs ==
  ASSUME NEW d \in DOMAIN Documents, NEW c, c = Documents[d].config
  PROVE  /\ Placed(c) /\ IsTree(DOMAIN c.sinks)
         /\ \A p \in DOMAIN c.sinks : WellFormed(c.sinks[p], Documents[d].inFile)
         /\ \A i \in DOMAIN c.processors : WellFormed(c.processors[i], Documents[d].inFile)
<1>1. /\ \A p \in DOMAIN c.sinks : p \in Seq(Nat)
      /\ IsTree(DOMAIN c.sinks)
      /\ \A p \in DOMAIN c.sinks : WellFormed(c.sinks[p], Documents[d].inFile)
      /\ \A i \in DOMAIN c.processors : WellFormed(c.processors[i], Documents[d].inFile)
  BY BuilderAssumption
<1> QED
  BY <1>1 DEF Placed, IsTree

LEMMA ConfigIs ==
  ASSUME NEW d \in DOMAIN Documents, NEW by, NEW c, c = Documents[d].config,
         NEW r, r = ConfigOf(d, by)
  PROVE  /\ Placed(r) /\ DOMAIN r.sinks = DOMAIN c.sinks
         /\ by = "code" => r = c
         /\ by # "code" =>
              /\ r.name = Expand(c.name)
              /\ \A p \in DOMAIN c.sinks : r.sinks[p] = LoadOne(by, c.sinks[p])
              /\ DOMAIN r.processors = DOMAIN c.processors
              /\ \A i \in DOMAIN c.processors : r.processors[i] = LoadOne(by, c.processors[i])
<1>1. Placed(c) /\ IsTree(DOMAIN c.sinks)
  BY DocumentIs
<1>2. CASE by = "code"
  BY <1>1, <1>2 DEF ConfigOf
<1>3. CASE by # "code"
  <2>1. r = [name |-> Expand(c.name), level |-> c.level, sinks |-> LoadSinks(by, c.sinks),
                processors |-> [i \in DOMAIN c.processors |-> LoadOne(by, c.processors[i])]]
    BY <1>3 DEF ConfigOf
  <2>2. Visits(Below(DOMAIN c.sinks)) = DOMAIN c.sinks
    BY <1>1, TreeRooted DEF Below, Placed
  <2>3. LoadSinks(by, c.sinks) = [p \in DOMAIN c.sinks |-> LoadOne(by, c.sinks[p])]
    BY <2>2 DEF LoadSinks
  <2>4. r.sinks = [p \in DOMAIN c.sinks |-> LoadOne(by, c.sinks[p])]
    BY <2>1, <2>3
  <2>5. Placed(r) /\ DOMAIN r.sinks = DOMAIN c.sinks
    BY <1>1, <2>4 DEF Placed
  <2>6. r.processors = [i \in DOMAIN c.processors |-> LoadOne(by, c.processors[i])]
    BY <2>1
  <2>7. r.name = Expand(c.name)
    BY <2>1
  <2> QED
    BY <1>3, <2>4, <2>5, <2>6, <2>7
<1> QED
  BY <1>2, <1>3

LEMMA LoadExpands ==
  ASSUME NEW d \in DOMAIN Documents, NEW by \in Loaders, Load(d, by) PROVE EnvExpandedOnce'
<1> DEFINE c == Documents[d].config
<1>1. /\ by # "code" => Documents[d].inFile
      /\ document' = d /\ loader' = by /\ env' = env /\ cfg' = ConfigOf(d, by)
  BY DEF Load
<1>2. /\ \A p \in DOMAIN c.sinks : by # "code" => WellFormed(c.sinks[p], TRUE)
      /\ \A i \in DOMAIN c.processors : by # "code" => WellFormed(c.processors[i], TRUE)
  <2>1. Containers(Documents[d].inFile) = Containers(TRUE) \/ by = "code"
    BY <1>1 DEF Containers
  <2> QED
    BY <1>1, <2>1, DocumentIs DEF WellFormed
<1> HIDE DEF c
<1>3. /\ DOMAIN cfg'.sinks = DOMAIN c.sinks
      /\ by = "code" => cfg' = c
      /\ by # "code" =>
           /\ cfg'.name = Expand(c.name)
           /\ \A p \in DOMAIN c.sinks : cfg'.sinks[p] = LoadOne(by, c.sinks[p])
           /\ DOMAIN cfg'.processors = DOMAIN c.processors
           /\ \A i \in DOMAIN c.processors : cfg'.processors[i] = LoadOne(by, c.processors[i])
  <2> DEFINE r == cfg'
  <2>1. r = ConfigOf(d, by)
    BY <1>1
  <2> HIDE DEF r
  <2>2. /\ DOMAIN r.sinks = DOMAIN c.sinks
        /\ by = "code" => r = c
        /\ by # "code" =>
             /\ r.name = Expand(c.name)
             /\ \A p \in DOMAIN c.sinks : r.sinks[p] = LoadOne(by, c.sinks[p])
             /\ DOMAIN r.processors = DOMAIN c.processors
             /\ \A i \in DOMAIN c.processors : r.processors[i] = LoadOne(by, c.processors[i])
    BY <2>1, ConfigIs DEF c
  <2> QED
    BY <2>2 DEF r
<1> DEFINE Once(s, r) ==
             /\ r.type = IF by = "code" THEN s.type ELSE Expand(s.type)
             /\ DOMAIN r.params = DOMAIN s.params
             /\ \A q \in DOMAIN s.params : s.params[q].kind = "string" =>
                  /\ r.params[q].kind = "string"
                  /\ r.params[q].is = IF by = "code" THEN s.params[q].is ELSE Expand(s.params[q].is)
<1>4. ASSUME NEW s, NEW r, by = "code" => r = s,
             by # "code" => WellFormed(s, TRUE) /\ r = LoadOne(by, s)
      PROVE  Once(s, r)
  <2>1. CASE by = "code"
    BY <1>4, <2>1
  <2>2. CASE by # "code"
    <3>1. WellFormed(s, TRUE) /\ r = LoadOne(by, s)
      BY <1>4, <2>2
    <3> DEFINE l == LoadOne(by, s)
    <3>2. /\ l.type = Expand(s.type) /\ DOMAIN l.params = DOMAIN s.params
          /\ \A q \in DOMAIN s.params : s.params[q].kind = "string" =>
               l.params[q].kind = "string" /\ l.params[q].is = Expand(s.params[q].is)
      BY <3>1, LoadOneIs
    <3> HIDE DEF l
    <3>3. r = l
      BY <3>1 DEF l
    <3> QED
      BY <2>2, <3>2, <3>3
  <2> QED
    BY <2>1, <2>2
<1>5. \A p \in DOMAIN c.sinks : Once(c.sinks[p], cfg'.sinks[p])
  <2> HIDE DEF Once
  <2> QED
    BY <1>2, <1>3, <1>4
<1>6. \A i \in DOMAIN c.processors : Once(c.processors[i], cfg'.processors[i])
  <2> HIDE DEF Once
  <2> QED
    BY <1>2, <1>3, <1>4
<1>7. DOMAIN cfg'.processors = DOMAIN c.processors
  BY <1>3
<1>8. cfg'.name = IF by = "code" THEN c.name ELSE Expand(c.name)
  BY <1>3
<1>9. /\ \A p \in DOMAIN cfg'.sinks : ExpandedOnce(c.sinks[p], cfg.sinks[p])'
      /\ \A i \in DOMAIN cfg'.processors : ExpandedOnce(c.processors[i], cfg.processors[i])'
  BY <1>1, <1>3, <1>5, <1>6, <1>7 DEF ExpandedOnce, Expand, c
<1> HIDE DEF Once
<1> QED
  BY <1>1, <1>3, <1>8, <1>9 DEF EnvExpandedOnce, Expand, c

-----------------------------------------------------------------------------
(* The logger that was built. *)

\* Whatever stands above a place that counts counts.
LEMMA UsedPrefix ==
  ASSUME NEW c, Placed(c), NEW p \in Used(c), NEW i \in 1..Len(p)
  PROVE  SubSeq(p, 1, i) \in Used(c)
<1>1. /\ p \in DOMAIN c.sinks
      /\ \A j \in 1..Len(p) : SubSeq(p, 1, j) \in Kids(c, SubSeq(p, 1, j - 1))
  BY DEF Used
<1>2. p \in Seq(Nat) /\ Len(p) \in Nat
  BY <1>1, PlacedIs
<1> DEFINE q == SubSeq(p, 1, i)
<1>3. Len(q) = i /\ \A j \in 0..i : SubSeq(q, 1, j) = SubSeq(p, 1, j)
  <2>1. i \in 0..Len(p)
    BY <1>2
  <2> QED
    BY <1>2, <2>1, PrefixIs
<1>4. q \in DOMAIN c.sinks
  BY <1>1, KidsIs
<1> HIDE DEF q
<1>5. ASSUME NEW j \in 1..Len(q) PROVE SubSeq(q, 1, j) \in Kids(c, SubSeq(q, 1, j - 1))
  <2>1. j \in 1..Len(p) /\ j \in 0..i /\ j - 1 \in 0..i
    BY <1>2, <1>3
  <2>2. SubSeq(p, 1, j) \in Kids(c, SubSeq(p, 1, j - 1))
    BY <1>1, <2>1
  <2> QED
    BY <1>3, <2>1, <2>2
<1> QED
  BY <1>4, <1>5 DEF Used, q

LEMMA UsedPlaced ==
  ASSUME NEW c, Placed(c), NEW p \in Used(c)
  PROVE  /\ p \in DOMAIN c.sinks /\ p \in Seq(Nat) /\ Len(p) \in 1..Depth /\ Len(p) \in 1..Len(p)
         /\ SubSeq(p, 1, Len(p)) = p
<1>1. p \in DOMAIN c.sinks
  BY DEF Used
<1>2. p \in Seq(Nat) /\ Len(p) \in 1..Depth
  BY <1>1 DEF Placed
<1> QED
  BY <1>1, <1>2, DepthIs, PlaceIs

LEMMA ReachesIs ==
  ASSUME Placed(cfg), NEW l, DOMAIN sink = Used(cfg),
         \A p \in DOMAIN sink : /\ sink[p].min = cfg.sinks[p].min
                                /\ Nested(sink[p].type) <=> Nested(Type(cfg, p))
                                /\ sink[p].type = "nop" <=> Type(cfg, p) = "nop"
  PROVE  Reaches(l) =
           {p \in Used(cfg) :
              /\ ~Nested(Type(cfg, p)) /\ Type(cfg, p) # "nop"
              /\ \A i \in 1..Len(p) : \A m \in cfg.sinks[SubSeq(p, 1, i)].min : l >= m}
<1> DEFINE S == {q \in DOMAIN sink : \A m \in sink[q].min : Passes(m, l)}
           U == Used(cfg)
<1>1. \A q : q \in S <=> q \in U /\ \A m \in cfg.sinks[q].min : l >= m
  BY DEF Passes
<1>2. \A p \in S : p \in Seq(Nat) /\ Len(p) \in 1..Depth
  BY <1>1, UsedPlaced
<1>3. Visits(S) = Rooted(S)
  <2> HIDE DEF S
  <2> QED
    BY <1>2, VisitsIs
<1>4. ASSUME NEW p
      PROVE  p \in Rooted(S) <=>
               p \in U /\ \A i \in 1..Len(p) : \A m \in cfg.sinks[SubSeq(p, 1, i)].min : l >= m
  <2> HIDE DEF S
  <2>1. p \in U => /\ Len(p) \in 1..Len(p) /\ SubSeq(p, 1, Len(p)) = p
                   /\ \A i \in 1..Len(p) : SubSeq(p, 1, i) \in U
    BY UsedPlaced, UsedPrefix
  <2> HIDE DEF U
  <2>2. p \in Rooted(S) <=> p \in S /\ \A i \in 1..Len(p) : SubSeq(p, 1, i) \in S
    BY DEF Rooted
  <2>3. CASE p \in U
    BY <1>1, <2>1, <2>2, <2>3
  <2>4. CASE p \notin U
    BY <1>1, <2>2, <2>4
  <2> QED
    BY <2>3, <2>4
<1>5. Reaches(l) = {p \in Rooted(S) : ~Nested(sink[p].type) /\ sink[p].type # "nop"}
  BY <1>3 DEF Reaches
<1> HIDE DEF S
<1>6. \A p \in Rooted(S) : /\ Nested(sink[p].type) <=> Nested(Type(cfg, p))
                           /\ sink[p].type = "nop" <=> Type(cfg, p) = "nop"
  BY <1>4
<1>7. \A p : p \in Reaches(l) <=> /\ p \in U /\ ~Nested(Type(cfg, p)) /\ Type(cfg, p) # "nop"
                                  /\ \A i \in 1..Len(p) :
                                       \A m \in cfg.sinks[SubSeq(p, 1, i)].min : l >= m
  BY <1>4, <1>5, <1>6
<1> QED
  BY <1>7

LEMMA ClosesIs ==
  ASSUME Placed(cfg), DOMAIN sink = Used(cfg), NEW gaveUp, NEW p
  PROVE  p \in Closes(gaveUp) <=>
           /\ p \in DOMAIN sink
           /\ \A i \in 1..Len(p) : SubSeq(p, 1, i) \notin gaveUp \cup Ended
<1> DEFINE X == gaveUp \cup Ended
           U == Used(cfg)
           S == U \ X
<1>1. \A q \in S : q \in Seq(Nat) /\ Len(q) \in 1..Depth
  BY UsedPlaced
<1>2. p \in U => /\ Len(p) \in 1..Len(p) /\ SubSeq(p, 1, Len(p)) = p
                 /\ \A i \in 1..Len(p) : SubSeq(p, 1, i) \in U
  BY UsedPlaced, UsedPrefix
<1>3. Closes(gaveUp) = Visits(S)
  BY DEF Closes
<1> HIDE DEF U, X
<1>4. Visits(S) = Rooted(S)
  BY <1>1, VisitsIs
<1>5. p \in Rooted(S) <=> p \in S /\ \A i \in 1..Len(p) : SubSeq(p, 1, i) \in S
  BY DEF Rooted
<1>6. p \in Closes(gaveUp) <=> p \in U /\ \A i \in 1..Len(p) : SubSeq(p, 1, i) \notin X
  <2>1. CASE p \in U
    BY <1>2, <1>3, <1>4, <1>5, <2>1
  <2>2. CASE p \notin U
    BY <1>3, <1>4, <1>5, <2>2
  <2> QED
    BY <2>1, <2>2
<1> QED
  BY <1>6 DEF U, X

LEMMA PrefixesOf ==
  ASSUME NEW S, NEW p \in Seq(S), NEW n \in 1..Len(p)
  PROVE  /\ SubSeq(p, 1, n) = p \/ IsStrictPrefix(SubSeq(p, 1, n), p)
         /\ IsPrefix(SubSeq(p, 1, n), p)
<1> DEFINE r == SubSeq(p, 1, n)
<1>1. n \in 0..Len(p) /\ n \in 0..n /\ n <= Len(p)
  BY PlaceIs
<1>2. Len(r) = n /\ SubSeq(r, 1, n) = SubSeq(p, 1, n)
  BY <1>1, PrefixIs
<1> QED
  BY <1>1, <1>2 DEF IsStrictPrefix, IsPrefix

\* Of two prefixes of a place one is a prefix of the other.
LEMMA BelowPrefix ==
  ASSUME NEW S, NEW p \in Seq(S), NEW q \in Seq(S), IsStrictPrefix(q, p), NEW n \in 1..Len(p)
  PROVE  \/ IsStrictPrefix(q, SubSeq(p, 1, n))
         \/ n \in 1..Len(q) /\ SubSeq(q, 1, n) = SubSeq(p, 1, n)
<1> DEFINE m == Len(q)
           r == SubSeq(p, 1, n)
<1>1. /\ m \in Nat /\ n \in Nat /\ n > 0 /\ n \in 0..Len(p) /\ m \in 0..Len(p)
      /\ q = SubSeq(p, 1, m)
  <2>1. m \in Nat /\ Len(p) \in Nat /\ SubSeq(q, 1, m) = q
    BY PlaceIs
  <2>2. m <= Len(p) /\ SubSeq(q, 1, m) = SubSeq(p, 1, m)
    BY DEF IsStrictPrefix, IsPrefix
  <2> QED
    BY <2>1, <2>2
<1>2. CASE n <= m
  <2>1. \A j \in 0..m : SubSeq(q, 1, j) = SubSeq(p, 1, j)
    <3> HIDE DEF m
    <3> QED
      BY <1>1, PrefixIs
  <2>2. n \in 0..m /\ n \in 1..m
    <3> HIDE DEF m
    <3> QED
      BY <1>1, <1>2
  <2> QED
    BY <2>1, <2>2
<1>3. CASE m < n
  <2>1. Len(r) = n /\ \A j \in 0..n : SubSeq(r, 1, j) = SubSeq(p, 1, j)
    BY <1>1, PrefixIs
  <2> HIDE DEF r
  <2>2. m \in 0..n /\ m <= n /\ m # n
    <3> HIDE DEF m
    <3> QED
      BY <1>1, <1>3
  <2>3. SubSeq(r, 1, m) = q /\ SubSeq(q, 1, m) = q
    <3>1. SubSeq(q, 1, m) = q
      BY PlaceIs
    <3> QED
      BY <1>1, <2>1, <2>2, <3>1
  <2>4. IsStrictPrefix(q, r)
    BY <2>1, <2>2, <2>3 DEF IsStrictPrefix, IsPrefix
  <2> QED
    BY <2>4 DEF r
<1> QED
  BY <1>1, <1>2, <1>3

\* What a Close does not come to stands at or below a sink that it is called for
\* and that does not hand it on.
LEMMA Cut ==
  ASSUME Placed(cfg), DOMAIN sink = Used(cfg), NEW gaveUp,
         NEW p \in DOMAIN sink, p \notin Closes(gaveUp)
  PROVE  \E n \in 1..Len(p) :
           /\ SubSeq(p, 1, n) \in DOMAIN sink /\ SubSeq(p, 1, n) \in gaveUp \cup Ended
           /\ Len(SubSeq(p, 1, n)) > 1 => Front(SubSeq(p, 1, n)) \in Closes(gaveUp)
<1> DEFINE X == gaveUp \cup Ended
           N == {i \in 1..Len(p) : SubSeq(p, 1, i) \in X}
<1>1. /\ p \in Seq(Nat) /\ Len(p) \in Nat
      /\ \A i \in 1..Len(p) : SubSeq(p, 1, i) \in DOMAIN sink
  BY UsedPlaced, UsedPrefix, PlaceIs
<1> HIDE DEF X
<1>2. N \in SUBSET Nat /\ N # {}
  <2>1. \E i \in 1..Len(p) : SubSeq(p, 1, i) \in X
    BY ClosesIs DEF X
  <2> QED
    BY <1>1, <2>1
<1>3. PICK n \in N : \A m \in N : n <= m
  <2> HIDE DEF N
  <2> QED
    BY <1>2, Least
<1> DEFINE r == SubSeq(p, 1, n)
<1>4. n \in 1..Len(p) /\ n \in 0..Len(p) /\ r \in X /\ r \in DOMAIN sink
  BY <1>1, <1>3
<1>5. /\ r \in Seq(Nat) /\ Len(r) = n
      /\ \A j \in 0..n : SubSeq(r, 1, j) = SubSeq(p, 1, j)
  BY <1>1, <1>4, PrefixIs
<1>6. ASSUME n > 1 PROVE Front(r) \in Closes(gaveUp)
  <2> DEFINE f == Front(r)
  <2>1. n - 1 \in 1..Len(p) /\ n - 1 \in 0..n /\ n \in Nat
    BY <1>1, <1>4, <1>6
  <2>2. /\ f = SubSeq(r, 1, n - 1) /\ Len(f) = n - 1
        /\ \A i \in 0..n - 1 : SubSeq(f, 1, i) = SubSeq(r, 1, i)
    <3> HIDE DEF r, f
    <3>1. r \in Seq(Nat) /\ Len(r) > 0
      BY <1>5, <1>6
    <3>2. /\ Front(r) = SubSeq(r, 1, Len(r) - 1) /\ Len(Front(r)) = Len(r) - 1
          /\ \A i \in 0..Len(r) - 1 : SubSeq(Front(r), 1, i) = SubSeq(r, 1, i)
      BY <3>1, PlaceIs
    <3>3. Len(r) = n
      BY <1>5
    <3> QED
      BY <3>2, <3>3 DEF f
  <2>3. f \in DOMAIN sink
    BY <1>1, <1>5, <2>1, <2>2
  <2> HIDE DEF f, r
  <2>4. ASSUME NEW i \in 1..Len(f) PROVE SubSeq(f, 1, i) \notin X
    <3>1. i \in 0..n - 1 /\ i \in 0..n /\ i \in 1..Len(p) /\ ~(n <= i)
      BY <1>1, <1>4, <2>1, <2>2
    <3>2. SubSeq(f, 1, i) = SubSeq(p, 1, i)
      BY <1>5, <2>2, <3>1
    <3> QED
      BY <1>3, <3>1, <3>2
  <2> QED
    BY <2>3, <2>4, ClosesIs DEF X, f
<1> QED
  BY <1>4, <1>5, <1>6 DEF X

-----------------------------------------------------------------------------
(* Steps. *)

LEMMA BuiltInIs ==
  /\ Sections = {"sinks", "processors"}
  /\ \A s \in Sections : \A n \in BuiltIn[s] : ~Nested(n) /\ n # "nil"
  /\ {"nop", "file"} \subseteq BuiltIn["sinks"] /\ "nop" \in BuiltIn.sinks
BY DEF Sections, BuiltIn, Nested, Wrappers

LEMMA NoPlaces == DOMAIN <<>> = {} /\ \A p : p \notin DOMAIN <<>>
<1>1. <<>> \in Seq(Nat) /\ Len(<<>>) = 0
  BY EmptySeq
<1>2. DOMAIN <<>> = 1..0
  BY <1>1, LenProperties
<1> QED
  BY <1>2

LEMMA NothingIs == ASSUME NEW f, f = [p \in {} |-> f[p]] PROVE f = <<>>
<1>1. DOMAIN <<>> = {}
  BY NoPlaces
<1> QED
  BY <1>1

LEMMA BuilderStarts == ASSUME Init PROVE BuilderInv
<1>0. cfg.sinks = <<>> /\ DOMAIN cfg.sinks = {} /\ sink = <<>> /\ DOMAIN sink = {}
  BY NoPlaces DEF Init
<1>1. TypeOK
  <2>1. Cardinality(accepted) = 0 /\ accepted = {}
    BY FS_EmptySet DEF Init
  <2>2. Cardinality(accepted) <= MaxRegistered
    BY <2>1, BuilderAssumption
  <2>3. \A s \in Sections : \A n \in DOMAIN registry[s] : registry[s][n] \in BuiltIn[s]
    BY DEF Init
  <2>4. phase = "idle" /\ loader \in Loaders /\ level \in SUBSET Levels /\ got = {}
    BY DEF Init, Loaders
  <2> QED
    BY <1>0, <2>2, <2>3, <2>4 DEF TypeOK
<1>2. RegistryInv
  BY FS_EmptySet DEF Init, RegistryInv
<1>3. TreeInv
  <2>1. Placed(cfg)
    BY <1>0 DEF Placed
  <2>2. phase = "idle" /\ level = {}
    BY DEF Init
  <2> QED
    BY <2>1, <2>2 DEF TreeInv
<1>4. EnvExpandedOnce /\ RoutesByPath /\ CloseReleasesAll
  BY <1>0 DEF Init, EnvExpandedOnce, RoutesByPath, CloseReleasesAll, Ended
<1> QED
  BY <1>1, <1>2, <1>3, <1>4 DEF BuilderInv

\* What was read stays what it is.
LEMMA ReadOnce ==
  ASSUME EnvExpandedOnce, UNCHANGED <<env, document, loader, cfg, phase>>
  PROVE  EnvExpandedOnce'
<1> DEFINE c == Documents[document].config
           L == loader = "code"
           Once(s, r) ==
             /\ r.type = IF L THEN s.type ELSE Expand(s.type)
             /\ DOMAIN r.params = DOMAIN s.params
             /\ \A q \in DOMAIN s.params : s.params[q].kind = "string" =>
                  /\ r.params[q].kind = "string"
                  /\ r.params[q].is = IF L THEN s.params[q].is ELSE Expand(s.params[q].is)
<1>1. CASE phase # "loaded"
  BY <1>1 DEF EnvExpandedOnce
<1>2. CASE phase = "loaded"
  <2>1. env' = env /\ document' = document /\ loader' = loader /\ cfg' = cfg
    OBVIOUS
  <2>2. /\ cfg.name = IF L THEN c.name ELSE Expand(c.name)
        /\ DOMAIN cfg.sinks = DOMAIN c.sinks
        /\ \A p \in DOMAIN cfg.sinks : Once(c.sinks[p], cfg.sinks[p])
        /\ \A i \in DOMAIN cfg.processors : Once(c.processors[i], cfg.processors[i])
    BY <1>2 DEF EnvExpandedOnce, ExpandedOnce
  <2>3. ASSUME NEW p \in DOMAIN cfg.sinks PROVE ExpandedOnce(c.sinks[p], cfg.sinks[p])'
    <3> DEFINE s == c.sinks[p]
               r == cfg.sinks[p]
    <3>1. s' = s /\ r' = r /\ Once(s, r)
      BY <2>1, <2>2
    <3> HIDE DEF s, r, c
    <3>2. ExpandedOnce(s, r)'
      BY <2>1, <3>1 DEF ExpandedOnce, Expand
    <3> QED
      BY <3>2 DEF s, r
  <2>4. ASSUME NEW i \in DOMAIN cfg.processors
        PROVE  ExpandedOnce(c.processors[i], cfg.processors[i])'
    <3> DEFINE s == c.processors[i]
               r == cfg.processors[i]
    <3>1. s' = s /\ r' = r /\ Once(s, r)
      BY <2>1, <2>2
    <3> HIDE DEF s, r, c
    <3>2. ExpandedOnce(s, r)'
      BY <2>1, <3>1 DEF ExpandedOnce, Expand
    <3> QED
      BY <3>2 DEF s, r
  <2>5. /\ cfg'.name = IF loader' = "code" THEN c'.name ELSE Expand(c.name)'
        /\ DOMAIN cfg'.sinks = DOMAIN c'.sinks
    BY <2>1, <2>2 DEF Expand
  <2> HIDE DEF Once
  <2> QED
    BY <2>1, <2>3, <2>4, <2>5 DEF EnvExpandedOnce
<1> QED
  BY <1>1, <1>2

LEMMA BuilderStutter ==
  ASSUME BuilderInv, UNCHANGED vars PROVE BuilderInv'
<1>1. TypeOK' /\ RegistryInv'
  BY DEF BuilderInv, TypeOK, RegistryInv, vars
<1>2. TreeInv'
  BY DEF BuilderInv, TreeInv, vars
<1>3. EnvExpandedOnce'
  BY ReadOnce DEF BuilderInv, vars
<1>4. RoutesByPath' /\ CloseReleasesAll'
  BY DEF BuilderInv, RoutesByPath, CloseReleasesAll, Ended, Worker, vars
<1> QED
  BY <1>1, <1>2, <1>3, <1>4 DEF BuilderInv

LEMMA RegisterStep ==
  ASSUME BuilderInv, NEW s \in Sections, NEW n \in Names, NEW f \in Factories, Register(s, n, f)
  PROVE  BuilderInv'
<1> DEFINE m == NormalizeName(n)
           old == registry[s]
           new == [x \in DOMAIN old \cup {m} |-> IF x = m THEN f ELSE old[x]]
<1>1. /\ Cardinality(accepted) < MaxRegistered /\ f # "nil" /\ m \notin DOMAIN old
      /\ registry' = [registry EXCEPT ![s] = new]
      /\ accepted' = accepted \cup {<<s, m, f>>}
      /\ UNCHANGED <<env, unopenable, document, loader, cfg, phase, sink, open, level, got>>
  BY DEF Register
<1>2. TypeOK /\ RegistryInv /\ TreeInv /\ EnvExpandedOnce /\ RoutesByPath /\ CloseReleasesAll
  BY DEF BuilderInv
<1>3. /\ DOMAIN new = DOMAIN old \cup {m} /\ new[m] = f
      /\ \A x \in DOMAIN old : new[x] = old[x]
  BY <1>1
<1>4. DOMAIN registry = Sections /\ registry'[s] = new /\ DOMAIN registry' = Sections
      /\ \A t \in Sections : t # s => registry'[t] = registry[t]
  BY <1>1, <1>2 DEF RegistryInv
<1>5. IsFiniteSet(accepted') /\ Cardinality(accepted') <= MaxRegistered
  <2>1. IsFiniteSet(accepted)
    BY <1>2 DEF RegistryInv
  <2>2. /\ IsFiniteSet(accepted')
        /\ Cardinality(accepted') = Cardinality(accepted) \/ Cardinality(accepted') = Cardinality(accepted) + 1
    BY <1>1, <2>1, FS_AddElement
  <2>3. Cardinality(accepted) \in Nat /\ MaxRegistered \in Nat
    BY <2>1, FS_CardinalityType, BuilderAssumption
  <2> QED
    BY <1>1, <2>2, <2>3
<1> HIDE DEF m, new
<1>6. ASSUME NEW t \in Sections
      PROVE  /\ BuiltIn[t] \subseteq DOMAIN registry'[t]
             /\ \A x \in DOMAIN registry'[t] :
                  IF x \in BuiltIn[t] THEN registry'[t][x] = x ELSE registry'[t][x] \in Factories \ {"nil"}
  <2>1. /\ BuiltIn[t] \subseteq DOMAIN registry[t]
        /\ \A x \in DOMAIN registry[t] :
             IF x \in BuiltIn[t] THEN registry[t][x] = x ELSE registry[t][x] \in Factories \ {"nil"}
    BY <1>2 DEF RegistryInv
  <2>2. CASE t # s
    BY <1>4, <2>1, <2>2
  <2>3. CASE t = s
    BY <1>1, <1>3, <1>4, <2>1, <2>3
  <2> QED
    BY <2>2, <2>3
<1>7. RegistryInv'
  BY <1>4, <1>5, <1>6 DEF RegistryInv
<1>8. \A t \in Sections : \A x \in DOMAIN registry'[t] :
        registry'[t][x] \in BuiltIn[t] \cup (Factories \ {"nil"})
  BY <1>6
<1>9. TypeOK'
  BY <1>1, <1>2, <1>5, <1>8 DEF TypeOK
<1>10. TreeInv' /\ RoutesByPath' /\ CloseReleasesAll'
  BY <1>1, <1>2 DEF TreeInv, RoutesByPath, CloseReleasesAll, Ended, Worker
<1>11. EnvExpandedOnce'
  BY <1>1, <1>2, ReadOnce
<1> QED
  BY <1>7, <1>9, <1>10, <1>11 DEF BuilderInv

LEMMA LoadStep ==
  ASSUME BuilderInv, NEW d \in DOMAIN Documents, NEW by \in Loaders, Load(d, by)
  PROVE  BuilderInv'
<1>1. /\ phase = "idle" /\ phase' = "loaded" /\ loader' = by /\ cfg' = ConfigOf(d, by)
      /\ UNCHANGED <<registry, accepted, env, unopenable, sink, open, level, got>>
  BY DEF Load
<1>2. TypeOK /\ RegistryInv /\ TreeInv
  BY DEF BuilderInv
<1>3. sink = <<>> /\ got = {} /\ level = {} /\ DOMAIN sink = {}
  BY <1>1, <1>2, NoPlaces DEF TypeOK, TreeInv
<1>4. TypeOK'
  BY <1>1, <1>2, <1>3 DEF TypeOK
<1>5. RegistryInv'
  BY <1>1, <1>2 DEF RegistryInv
<1>6. Placed(cfg')
  BY <1>1, ConfigIs
<1>7. TreeInv' /\ RoutesByPath' /\ CloseReleasesAll'
  BY <1>1, <1>3, <1>6 DEF TreeInv, RoutesByPath, CloseReleasesAll, Ended
<1> QED
  BY <1>4, <1>5, <1>7, LoadExpands DEF BuilderInv

\* What BuildFromConfig returns.
LEMMA BuildIs ==
  ASSUME Placed(cfg), NEW b, b = BuildTop(cfg)
  PROVE  /\ b.ok <=> ProcessorsSound(cfg) /\ \A p \in Used(cfg) : Sound(cfg, p)
         /\ b.open = {p \in Used(cfg) :
                        /\ p \in Good(cfg, Used(cfg)) /\ ProcessorsSound(cfg)
                        /\ Type(cfg, p) \in {"async", "batch", "file"}}
         /\ ~b.ok => b.sink = <<>>
         /\ b.ok => /\ DOMAIN b.sink = Used(cfg)
                    /\ \A p \in Used(cfg) :
                         b.sink[p] = [type |-> IF Nested(Type(cfg, p)) THEN Type(cfg, p)
                                               ELSE registry.sinks[Type(cfg, p)],
                                      min |-> cfg.sinks[p].min]
<1> DEFINE all == BuildAll(Kids(cfg, <<>>), Built(cfg)[Depth - 1])
           U == Used(cfg)
           typed == {"async", "batch", "file"}
           run == [p \in IF all.ok THEN all.made ELSE {} |->
                     [type |-> IF Nested(Type(cfg, p)) THEN Type(cfg, p)
                               ELSE registry.sinks[Type(cfg, p)],
                      min |-> cfg.sinks[p].min]]
<1>1. all = Whole(cfg, U)
  BY BuildTopIs
<1>2. Sinks(cfg, all) = run
  BY DEF Sinks
<1>3. b = IF ProcessorsSound(cfg) THEN [ok |-> all.ok, open |-> all.open, sink |-> Sinks(cfg, all)]
          ELSE [ok |-> FALSE, open |-> {}, sink |-> <<>>]
  BY DEF BuildTop
<1> HIDE DEF all
<1>4. /\ all.ok \in BOOLEAN /\ all.ok <=> \A p \in U : Sound(cfg, p)
      /\ all.open = {p \in Good(cfg, U) : Type(cfg, p) \in typed}
      /\ all.made = U
  BY <1>1 DEF Whole
<1> HIDE DEF U
<1>5. ~all.ok => run = <<>>
  BY NothingIs
<1>6. all.ok => DOMAIN run = U
  BY <1>4
<1>7. all.ok => \A p \in U :
        run[p] = [type |-> IF Nested(Type(cfg, p)) THEN Type(cfg, p) ELSE registry.sinks[Type(cfg, p)],
                  min |-> cfg.sinks[p].min]
  BY <1>4
<1>8. \A p \in Good(cfg, U) : p \in U
  BY DEF Good
<1> HIDE DEF run
<1>9. CASE ProcessorsSound(cfg)
  <2>1. b.ok = all.ok /\ b.open = all.open /\ b.sink = run
    BY <1>2, <1>3, <1>9
  <2>2. b.ok <=> ProcessorsSound(cfg) /\ \A p \in U : Sound(cfg, p)
    <3>1. b.ok <=> \A p \in U : Sound(cfg, p)
      BY <1>4, <2>1
    <3> QED
      BY <1>9, <3>1
  <2>3. b.open = {p \in U : p \in Good(cfg, U) /\ ProcessorsSound(cfg) /\ Type(cfg, p) \in typed}
    BY <1>4, <1>8, <1>9, <2>1
  <2>4. ~b.ok => b.sink = <<>>
    BY <1>5, <2>1
  <2>5. b.ok => /\ DOMAIN b.sink = U
                /\ \A p \in U :
                     b.sink[p] = [type |-> IF Nested(Type(cfg, p)) THEN Type(cfg, p)
                                           ELSE registry.sinks[Type(cfg, p)],
                                  min |-> cfg.sinks[p].min]
    BY <1>6, <1>7, <2>1
  <2> QED
    BY <2>2, <2>3, <2>4, <2>5 DEF U
<1>10. CASE ~ProcessorsSound(cfg)
  <2>1. b.ok = FALSE /\ b.open = {} /\ b.sink = <<>>
    BY <1>3, <1>10
  <2> QED
    BY <1>10, <2>1 DEF U
<1> QED
  BY <1>9, <1>10

\* A name the module has itself stands for itself; no other stands for it.
LEMMA TypeIs ==
  ASSUME RegistryInv, NEW t \in DOMAIN registry.sinks, ~Nested(t)
  PROVE  /\ ~Nested(registry.sinks[t]) /\ (registry.sinks[t] = "nop" <=> t = "nop")
         /\ t = "file" => registry.sinks[t] = "file"
<1>1. "sinks" \in Sections /\ \A f \in Factories : ~Nested(f) /\ f \notin BuiltIn["sinks"]
  BY BuilderAssumption, BuiltInIs
<1>2. IF t \in BuiltIn["sinks"] THEN registry["sinks"][t] = t
                                ELSE registry["sinks"][t] \in Factories \ {"nil"}
  BY <1>1 DEF RegistryInv
<1> QED
  BY <1>1, <1>2, BuiltInIs

LEMMA BuildStep ==
  ASSUME BuilderInv, BuildFromConfig PROVE BuilderInv'
<1> DEFINE b == BuildTop(cfg)
           U == Used(cfg)
<1>1. /\ phase = "loaded" /\ phase' = (IF b.ok THEN "built" ELSE "failed")
      /\ sink' = b.sink /\ open' = b.open
      /\ UNCHANGED <<registry, accepted, env, unopenable, document, loader, cfg, level, got>>
  BY DEF BuildFromConfig
<1>2. TypeOK /\ RegistryInv /\ TreeInv
  BY DEF BuilderInv
<1>3. Placed(cfg)
  BY <1>2 DEF TreeInv
<1> HIDE DEF b
<1>4. /\ b.ok <=> ProcessorsSound(cfg) /\ \A p \in U : Sound(cfg, p)
      /\ b.open \subseteq U /\ \A p \in b.open : Type(cfg, p) \in {"async", "batch", "file"}
      /\ b.ok => \A p \in U : Type(cfg, p) \in {"async", "batch"} => p \in b.open
      /\ ~b.ok => b.sink = <<>>
      /\ b.ok => /\ DOMAIN b.sink = U
                 /\ \A p \in U :
                      b.sink[p] = [type |-> IF Nested(Type(cfg, p)) THEN Type(cfg, p)
                                            ELSE registry.sinks[Type(cfg, p)],
                                   min |-> cfg.sinks[p].min]
  BY <1>3, BuildIs DEF b, Good
<1>5. \A p \in U : p \in DOMAIN cfg.sinks
  BY DEF Used
<1>6. got = {} /\ level = {}
  BY <1>1, <1>2 DEF TypeOK, TreeInv
<1>7. TypeOK'
  <2>1. DOMAIN sink' \subseteq DOMAIN cfg'.sinks
    BY <1>1, <1>4, <1>5, NoPlaces
  <2>2. phase' \in {"idle", "loaded", "failed"} => sink' = <<>> /\ got' = {}
    BY <1>1, <1>4, <1>6
  <2>3. phase' \in {"built", "failed"}
    BY <1>1
  <2> QED
    BY <1>1, <1>2, <2>1, <2>2, <2>3 DEF TypeOK
<1>8. RegistryInv'
  BY <1>1, <1>2 DEF RegistryInv
<1>9. ASSUME b.ok, NEW p \in U
      PROVE  /\ sink'[p].min = cfg.sinks[p].min
             /\ Nested(sink'[p].type) <=> Nested(Type(cfg, p))
             /\ sink'[p].type = "nop" <=> Type(cfg, p) = "nop"
             /\ Type(cfg, p) \in {"async", "batch", "file"} => sink'[p].type # "retry"
             /\ Worker(p)' => Type(cfg, p) \in {"async", "batch"}
  <2>1. /\ sink'[p].min = cfg.sinks[p].min
        /\ sink'[p].type = IF Nested(Type(cfg, p)) THEN Type(cfg, p) ELSE registry.sinks[Type(cfg, p)]
    <3> DEFINE t == IF Nested(Type(cfg, p)) THEN Type(cfg, p) ELSE registry.sinks[Type(cfg, p)]
    <3>1. sink'[p] = [type |-> t, min |-> cfg.sinks[p].min]
      <4> HIDE DEF U
      <4> QED
        BY <1>1, <1>4, <1>9
    <3> HIDE DEF t
    <3>2. sink'[p].min = cfg.sinks[p].min /\ sink'[p].type = t
      BY <3>1
    <3> QED
      BY <3>2 DEF t
  <2>2. Sound(cfg, p)
    BY <1>4, <1>9
  <2>3. CASE Nested(Type(cfg, p))
    BY <2>1, <2>3 DEF Worker
  <2>4. CASE ~Nested(Type(cfg, p))
    <3>1. Type(cfg, p) \in DOMAIN registry.sinks
      BY <2>2, <2>4 DEF Sound, Makes
    <3> DEFINE t == Type(cfg, p)
    <3>2. /\ ~Nested(sink'[p].type) /\ (sink'[p].type = "nop" <=> t = "nop")
          /\ t = "file" => sink'[p].type = "file"
      <4> HIDE DEF t
      <4>1. /\ ~Nested(registry.sinks[t]) /\ (registry.sinks[t] = "nop" <=> t = "nop")
            /\ t = "file" => registry.sinks[t] = "file"
        BY <1>2, <2>4, <3>1, TypeIs DEF t
      <4> QED
        BY <2>1, <2>4, <4>1 DEF t
    <3>3. t \notin {"async", "batch"} /\ ~Worker(p)'
      BY <2>4, <3>2 DEF Worker, Nested, Wrappers
    <3> QED
      BY <2>1, <2>4, <3>2, <3>3
  <2> QED
    BY <2>3, <2>4
<1>10. TreeInv'
  <2>1. phase' \in {"built", "unclosed", "closed"} => b.ok
    BY <1>1
  <2>2. Placed(cfg)' /\ Used(cfg)' = U /\ \A p : Type(cfg, p)' = Type(cfg, p)
    BY <1>1, <1>3
  <2>3. level' = {}
    BY <1>1, <1>6
  <2>4. ASSUME b.ok
        PROVE  /\ DOMAIN sink' = U /\ open' \subseteq DOMAIN sink'
               /\ \A p \in open' : sink'[p].type # "retry"
               /\ \A p \in DOMAIN sink' :
                    /\ sink'[p].min = cfg'.sinks[p].min
                    /\ Nested(sink'[p].type) <=> Nested(Type(cfg, p)')
                    /\ sink'[p].type = "nop" <=> Type(cfg, p)' = "nop"
    BY <1>1, <1>4, <1>9, <2>2, <2>4
  <2> QED
    BY <2>1, <2>2, <2>3, <2>4 DEF TreeInv
<1>11. EnvExpandedOnce' /\ RoutesByPath'
  BY <1>1, <1>6 DEF EnvExpandedOnce, RoutesByPath
<1>12. Ended' = {}
  <2>1. CASE b.ok
    <3>1. \A p \in DOMAIN sink' : Worker(p)' => p \in open'
      BY <1>1, <1>4, <1>9, <2>1
    <3> QED
      BY <3>1 DEF Ended
  <2>2. CASE ~b.ok
    <3>1. DOMAIN sink' = {}
      BY <1>1, <1>4, <2>2, NoPlaces
    <3> QED
      BY <3>1 DEF Ended
  <2> QED
    BY <2>1, <2>2
<1>13. CloseReleasesAll'
  BY <1>1, <1>12 DEF CloseReleasesAll
<1> QED
  BY <1>7, <1>8, <1>10, <1>11, <1>13 DEF BuilderInv

LEMMA LogStep ==
  ASSUME BuilderInv, NEW l \in Levels, Log(l) PROVE BuilderInv'
<1>1. /\ phase = "built" /\ level' = {l} /\ got' = (IF l >= cfg.level THEN Reaches(l) ELSE {})
      /\ UNCHANGED <<registry, accepted, env, unopenable, document, loader, cfg, phase, sink, open>>
  BY DEF Log
<1>2. TypeOK /\ RegistryInv /\ TreeInv /\ EnvExpandedOnce /\ CloseReleasesAll
  BY DEF BuilderInv
<1>3. TypeOK' /\ RegistryInv'
  BY <1>1, <1>2 DEF TypeOK, RegistryInv
<1>4. TreeInv'
  BY <1>1, <1>2 DEF TreeInv
<1>5. EnvExpandedOnce' /\ CloseReleasesAll'
  BY <1>1, <1>2, ReadOnce DEF CloseReleasesAll, Ended, Worker
<1>6. RoutesByPath'
  <2>1. Reaches(l) =
           {p \in Used(cfg) :
              /\ ~Nested(Type(cfg, p)) /\ Type(cfg, p) # "nop"
              /\ \A i \in 1..Len(p) : \A m \in cfg.sinks[SubSeq(p, 1, i)].min : l >= m}
    BY <1>1, <1>2, ReachesIs DEF TreeInv
  <2>2. got' = {p \in Used(cfg) :
                  /\ l >= cfg.level /\ ~Nested(Type(cfg, p)) /\ Type(cfg, p) # "nop"
                  /\ \A i \in 1..Len(p) : \A m \in cfg.sinks[SubSeq(p, 1, i)].min : l >= m}
    BY <1>1, <2>1
  <2> QED
    BY <1>1, <2>2 DEF RoutesByPath
<1> QED
  BY <1>3, <1>4, <1>5, <1>6 DEF BuilderInv

LEMMA CloseStep ==
  ASSUME BuilderInv, Close PROVE BuilderInv'
<1>1. /\ phase \in {"built", "unclosed", "closed"}
      /\ UNCHANGED <<registry, accepted, env, unopenable, document, loader, cfg, sink, level, got>>
  BY DEF Close
<1>2. TypeOK /\ RegistryInv /\ TreeInv /\ RoutesByPath /\ CloseReleasesAll
  BY DEF BuilderInv
<1>3. PICK late \in {{}} \cup {Late(p) : p \in DOMAIN sink} : \E some \in SUBSET MayGiveUp(late) :
        LET gaveUp == WithoutAttempt(late) \cup some
            closed == Closes(gaveUp)
        IN /\ open' = open \ closed
           /\ phase' = IF \E p \in gaveUp : Len(p) > 1 => Front(p) \in closed
                         THEN "unclosed" ELSE "closed"
  BY DEF Close
<1>4. PICK some \in SUBSET MayGiveUp(late) :
        LET gaveUp == WithoutAttempt(late) \cup some
            closed == Closes(gaveUp)
        IN /\ open' = open \ closed
           /\ phase' = IF \E p \in gaveUp : Len(p) > 1 => Front(p) \in closed
                         THEN "unclosed" ELSE "closed"
  BY <1>3
<1> DEFINE gaveUp == WithoutAttempt(late) \cup some
           closed == Closes(gaveUp)
           asked(r) == Len(r) > 1 => Front(r) \in closed
<1>5. /\ open' = open \ closed
      /\ phase' = IF \E r \in gaveUp : asked(r) THEN "unclosed" ELSE "closed"
  BY <1>4
<1>6. /\ Placed(cfg) /\ DOMAIN sink = Used(cfg) /\ open \subseteq DOMAIN sink
      /\ \A p \in open : sink[p].type # "retry"
  BY <1>1, <1>2 DEF TreeInv
\* A sink that gave up stands below no worker.
<1>7. ASSUME NEW r \in gaveUp
      PROVE  /\ \A q \in DOMAIN sink : Worker(q) => ~IsStrictPrefix(q, r)
             /\ sink[r].type = "retry" \/ (r \in open /\ Worker(r))
  <2>1. r \in late /\ (sink[r].type = "retry" \/ (r \in open /\ Worker(r)))
    BY <1>4 DEF WithoutAttempt, MayGiveUp
  <2> QED
    BY <2>1 DEF Late
<1> HIDE DEF gaveUp
<1>8. ASSUME NEW p \in open, p \notin closed
      PROVE  \E n \in 1..Len(p) :
               /\ SubSeq(p, 1, n) \in gaveUp /\ SubSeq(p, 1, n) \in DOMAIN sink
               /\ asked(SubSeq(p, 1, n)) /\ p \in Seq(Nat)
  <2>1. p \in DOMAIN sink /\ p \in Seq(Nat)
    BY <1>6, UsedPlaced
  <2>2. PICK n \in 1..Len(p) :
          /\ SubSeq(p, 1, n) \in DOMAIN sink /\ SubSeq(p, 1, n) \in gaveUp \cup Ended
          /\ asked(SubSeq(p, 1, n))
    BY <1>6, <1>8, <2>1, Cut
  <2>3. SubSeq(p, 1, n) \notin Ended
    <3>1. SubSeq(p, 1, n) = p \/ IsStrictPrefix(SubSeq(p, 1, n), p)
      BY <2>1, PrefixesOf
    <3>2. \A q \in Ended : q \notin open /\ ~IsStrictPrefix(q, p)
      BY <1>2 DEF CloseReleasesAll, Ended
    <3> QED
      BY <3>1, <3>2
  <2> QED
    BY <2>1, <2>2, <2>3
<1>9. Ended' = {p \in DOMAIN sink : Worker(p) /\ p \notin open'}
  BY <1>1 DEF Ended, Worker
<1>10. ASSUME NEW q \in Ended', NEW p \in open', IsStrictPrefix(q, p) PROVE FALSE
  <2>1. p \in open /\ p \notin closed /\ q \in DOMAIN sink /\ Worker(q) /\ q \notin open'
    BY <1>5, <1>9
  <2>2. q \in open
    BY <1>2, <1>10, <2>1 DEF CloseReleasesAll, Ended
  <2>3. q \in closed /\ q \in Seq(Nat)
    BY <1>5, <1>6, <2>1, <2>2, UsedPlaced
  <2>4. PICK n \in 1..Len(p) : SubSeq(p, 1, n) \in gaveUp /\ p \in Seq(Nat)
    BY <1>8, <2>1
  <2>5. \A i \in 1..Len(q) : SubSeq(q, 1, i) \notin gaveUp
    BY <1>6, <2>3, ClosesIs
  <2>6. IsStrictPrefix(q, SubSeq(p, 1, n)) \/ (n \in 1..Len(q) /\ SubSeq(q, 1, n) = SubSeq(p, 1, n))
    <3>1. p \in Seq(Nat) /\ q \in Seq(Nat) /\ IsStrictPrefix(q, p)
      BY <1>10, <2>3, <2>4
    <3> QED
      BY <3>1, BelowPrefix
  <2> QED
    BY <1>7, <2>1, <2>4, <2>5, <2>6
<1>11. phase' = "closed" => open' = {}
  <2>1. SUFFICES ASSUME phase' = "closed", NEW p \in open' PROVE FALSE
    OBVIOUS
  <2>2. p \in open /\ p \notin closed
    BY <1>5
  <2>3. \E r \in gaveUp : asked(r)
    <3> HIDE DEF asked
    <3> QED
      BY <1>8, <2>2
  <2> QED
    BY <1>5, <2>1, <2>3
<1>12. ASSUME NEW p \in open'
       PROVE  \/ \E q \in DOMAIN sink : sink[q].type = "retry" /\ IsStrictPrefix(q, p)
              \/ \E q \in open' : Worker(q) /\ IsPrefix(q, p)
  <2>1. p \in open /\ p \notin closed /\ sink[p].type # "retry"
    BY <1>5, <1>6
  <2>2. PICK n \in 1..Len(p) :
          SubSeq(p, 1, n) \in gaveUp /\ SubSeq(p, 1, n) \in DOMAIN sink /\ p \in Seq(Nat)
    BY <1>8, <2>1
  <2> DEFINE r == SubSeq(p, 1, n)
  <2>3. (r = p \/ IsStrictPrefix(r, p)) /\ IsPrefix(r, p)
    BY <2>2, PrefixesOf
  <2> HIDE DEF r
  <2>4. r \in gaveUp /\ r \in DOMAIN sink
    BY <2>2 DEF r
  <2>5. CASE sink[r].type = "retry"
    BY <2>1, <2>3, <2>4, <2>5
  <2>6. CASE r \in open /\ Worker(r)
    <3>1. Len(r) \in 1..Len(r) /\ SubSeq(r, 1, Len(r)) = r
      BY <1>6, <2>4, UsedPlaced
    <3>2. r \notin closed
      <4>1. SUFFICES ASSUME r \in closed PROVE FALSE
        OBVIOUS
      <4>2. \A i \in 1..Len(r) : SubSeq(r, 1, i) \notin gaveUp \cup Ended
        BY <1>6, <4>1, ClosesIs
      <4> QED
        BY <2>4, <3>1, <4>2
    <3> QED
      BY <1>5, <2>3, <2>6, <3>2
  <2> QED
    BY <1>7, <2>4, <2>5, <2>6
<1>13. CloseReleasesAll'
  <2>1. \A p : Worker(p)' <=> Worker(p)
    BY <1>1 DEF Worker
  <2> QED
    BY <1>1, <1>10, <1>11, <1>12, <2>1 DEF CloseReleasesAll
<1>14. phase' \in {"unclosed", "closed"}
  BY <1>5
<1>15. TypeOK' /\ RegistryInv' /\ TreeInv'
  <2>1. TypeOK' /\ RegistryInv'
    BY <1>1, <1>2, <1>14 DEF TypeOK, RegistryInv
  <2>2. open' \subseteq open
    BY <1>5
  <2>3. TreeInv'
    BY <1>1, <1>2, <1>14, <2>2 DEF TreeInv
  <2> QED
    BY <2>1, <2>3
<1>16. EnvExpandedOnce' /\ RoutesByPath'
  BY <1>1, <1>2, <1>14 DEF EnvExpandedOnce, RoutesByPath
<1> QED
  BY <1>13, <1>15, <1>16 DEF BuilderInv

LEMMA BuilderInductive ==
  ASSUME BuilderInv, [Next]_vars PROVE BuilderInv'
BY BuilderStutter, RegisterStep, LoadStep, BuildStep, LogStep, CloseStep DEF Next

\* The registry keeps the module's own names, the tree that runs is the one that
\* is configured, and the invariants hold that the runs check.
THEOREM BuilderInvariant == Spec => []BuilderInv
<1>1. Init => BuilderInv
  BY BuilderStarts
<1>2. BuilderInv /\ [Next]_vars => BuilderInv'
  BY BuilderInductive
<1> QED
  BY <1>1, <1>2, PTL DEF Spec

\* In every state the variables of SinkBuilder have their types; only what was
\* built has a tree, and the tree has no sink that is not configured.
THEOREM BuilderTypeCorrect == Spec => []TypeOK
<1>1. BuilderInv => TypeOK
  BY DEF BuilderInv
<1> QED
  BY <1>1, BuilderInvariant, PTL

\* LoadConfigJSON and LoadConfigYAML expand the references of a document wherever
\* they stand, at any depth, and none twice; the program's own Config stays.
THEOREM EnvExpandedOnceCorrect == Spec => []EnvExpandedOnce
<1>1. BuilderInv => EnvExpandedOnce
  BY DEF BuilderInv
<1> QED
  BY <1>1, BuilderInvariant, PTL

\* In a tree that BuildFromConfig built, of whatever shape, an event reaches the
\* leaves below level filters that all let it through, and no other sink.
THEOREM RoutesByPathCorrect == Spec => []RoutesByPath
<1>1. BuilderInv => RoutesByPath
  BY DEF BuilderInv
<1> QED
  BY <1>1, BuilderInvariant, PTL

\* Whenever no sink gives up the Close of a logger that was built, it leaves no file
\* open and no worker running; when one does, what stays open stands below a
\* retrying sink or a worker that still runs, and never below one that has ended,
\* after any number of Closes and in a tree of any shape.
THEOREM CloseReleasesAllCorrect == Spec => []CloseReleasesAll
<1>1. BuilderInv => CloseReleasesAll
  BY DEF BuilderInv
<1> QED
  BY <1>1, BuilderInvariant, PTL

\* The step that BuildOutcome is about.
LEMMA BuildOutcomeStep ==
  ASSUME BuilderInv, [Next]_vars, phase = "loaded", phase' # "loaded"
  PROVE  LET fine == {p \in Used(cfg) : /\ ProcessorsSound(cfg) /\ Sound(cfg, p)
                                        /\ \A q \in Used(cfg) : Ahead(q, p) => Sound(cfg, q)}
         IN /\ phase' = "built" <=> ProcessorsSound(cfg) /\ fine = Used(cfg)
            /\ open' = {p \in fine : Type(cfg, p) \in {"async", "batch", "file"}}
<1> DEFINE U == Used(cfg)
           b == BuildTop(cfg)
           fine == {p \in U : /\ ProcessorsSound(cfg) /\ Sound(cfg, p)
                              /\ \A q \in U : Ahead(q, p) => Sound(cfg, q)}
<1>1. BuildFromConfig
  BY DEF Next, vars, Register, Load, Log, Close
<1>2. phase' = (IF b.ok THEN "built" ELSE "failed") /\ open' = b.open
  BY <1>1 DEF BuildFromConfig
<1> HIDE DEF b
<1>3. Placed(cfg)
  BY DEF BuilderInv, TreeInv
<1>4. /\ b.ok <=> ProcessorsSound(cfg) /\ \A p \in U : Sound(cfg, p)
      /\ b.open = {p \in U : /\ p \in Good(cfg, U) /\ ProcessorsSound(cfg)
                             /\ Type(cfg, p) \in {"async", "batch", "file"}}
  BY <1>3, BuildIs DEF b
<1> HIDE DEF U
<1>5. \A p : p \in fine <=> p \in U /\ p \in Good(cfg, U) /\ ProcessorsSound(cfg)
  BY DEF Good
<1>6. ProcessorsSound(cfg) => (fine = U <=> \A p \in U : Sound(cfg, p))
  OBVIOUS
<1> HIDE DEF fine
<1>7. phase' = "built" <=> ProcessorsSound(cfg) /\ fine = U
  BY <1>2, <1>4, <1>6
<1>8. open' = {p \in fine : Type(cfg, p) \in {"async", "batch", "file"}}
  BY <1>2, <1>4, <1>5
<1> QED
  BY <1>7, <1>8 DEF fine, U

\* BuildFromConfig succeeds exactly if nothing is wrong with any sink that counts
\* nor with a processor, and what is open after it belongs to the sinks before
\* the first that is wrong.
THEOREM BuildOutcomeCorrect == Spec => BuildOutcome
<1>1. BuilderInv /\ [Next]_vars =>
        [phase = "loaded" /\ phase' # "loaded" =>
           LET fine == {p \in Used(cfg) : /\ ProcessorsSound(cfg) /\ Sound(cfg, p)
                                          /\ \A q \in Used(cfg) : Ahead(q, p) => Sound(cfg, q)}
           IN /\ phase' = "built" <=> ProcessorsSound(cfg) /\ fine = Used(cfg)
              /\ open' = {p \in fine : Type(cfg, p) \in {"async", "batch", "file"}}]_vars
  BY BuildOutcomeStep
<1> QED
  BY <1>1, BuilderInvariant, PTL DEF Spec, BuildOutcome

-----------------------------------------------------------------------------
(* The circuit breaker. *)

LEMMA Constants ==
  /\ FailureThreshold \in Nat /\ FailureThreshold > 0
  /\ OpenTimeout \in Nat /\ OpenTimeout > 0
BY BreakerAssumption

\* The threshold is what ties the count to the state; the stale writes tie
\* what is in progress to the trip.
BreakerInv == BreakerTypeOK /\ ClosedBelowThreshold /\ OpenAdmitsNothing

LEMMA BreakerStarts == BreakerInit => BreakerInv
BY Constants DEF BreakerInit, BreakerInv, BreakerTypeOK, ClosedBelowThreshold, OpenAdmitsNothing

LEMMA BreakerStep == BreakerInv /\ [BreakerNext]_cvars => BreakerInv'
<1> SUFFICES ASSUME BreakerInv, [BreakerNext]_cvars PROVE BreakerInv'
  OBVIOUS
<1> USE Constants DEF BreakerInv, BreakerTypeOK, ClosedBelowThreshold
<1>1. ASSUME NEW w \in Writers, Admit(w) PROVE BreakerInv'
  <2>1. BreakerTypeOK' /\ ClosedBelowThreshold' /\ state' # "open"
    BY <1>1 DEF Admit
  <2> QED
    BY <2>1 DEF OpenAdmitsNothing
<1>2. ASSUME NEW w \in Writers, NextWrites(w) PROVE BreakerInv'
  <2>1. PICK result \in {"ok", "failed", "idle"} :
          /\ pc' = [pc EXCEPT ![w] = result]
          /\ stale' = IF result = "idle" THEN stale \ {w} ELSE stale
    BY <1>2 DEF NextWrites
  <2>2. pc[w] = "writing" /\ UNCHANGED <<state, failures, remaining, healthy>>
    BY <1>2 DEF NextWrites
  <2>3. BreakerTypeOK' /\ ClosedBelowThreshold'
    BY <2>1, <2>2
  <2>4. OpenAdmitsNothing'
    BY <2>1, <2>2 DEF OpenAdmitsNothing, InProgress
  <2> QED
    BY <2>3, <2>4
<1>3. ASSUME NEW w \in Writers, OnSuccess(w) PROVE BreakerInv'
  <2>1. BreakerTypeOK' /\ ClosedBelowThreshold' /\ state' # "open"
    BY <1>3 DEF OnSuccess, Settle
  <2> QED
    BY <2>1 DEF OpenAdmitsNothing
<1>4. ASSUME NEW w \in Writers, OnFailure(w) PROVE BreakerInv'
  <2>1. pc' = [pc EXCEPT ![w] = "idle"] /\ healthy' = healthy
    BY <1>4 DEF OnFailure, Settle
  <2>2. CASE StartWindow(w)
    <3>1. /\ state' = "open" /\ remaining' = OpenTimeout
          /\ stale' = InProgress \ {w}
      BY <2>2 DEF StartWindow
    <3>2. failures' = FailureThreshold
      BY <1>4, <3>1 DEF OnFailure
    <3>3. InProgress' = InProgress \ {w}
      BY <2>1 DEF InProgress
    <3>4. OpenAdmitsNothing'
      BY <3>1, <3>3 DEF OpenAdmitsNothing
    <3>5. BreakerTypeOK' /\ ClosedBelowThreshold'
      BY <2>1, <3>1, <3>2 DEF InProgress
    <3> QED
      BY <3>4, <3>5
  <2>3. CASE ~StartWindow(w)
    <3>1. /\ state = "closed" /\ state' = "closed" /\ remaining' = remaining
          /\ failures' = failures + 1 /\ failures + 1 < FailureThreshold
          /\ stale' = stale \ {w}
      BY <1>4, <2>3 DEF OnFailure
    <3>2. pc' \in [Writers -> {"idle", "writing", "ok", "failed"}]
      BY <2>1
    <3>3. failures' \in 0..FailureThreshold /\ failures' < FailureThreshold
      BY <3>1
    <3>4. BreakerTypeOK' /\ ClosedBelowThreshold'
      BY <2>1, <3>1, <3>2, <3>3
    <3>5. OpenAdmitsNothing'
      BY <3>1 DEF OpenAdmitsNothing
    <3> QED
      BY <3>4, <3>5
  <2> QED
    BY <2>2, <2>3
<1>5. ASSUME Tick \/ HealthChanges \/ UNCHANGED cvars PROVE BreakerInv'
  <2>1. state' = state /\ failures' = failures /\ pc' = pc /\ stale' = stale
    BY <1>5 DEF Tick, HealthChanges, cvars
  <2>2. BreakerTypeOK' /\ ClosedBelowThreshold'
    <3>1. remaining' \in 0..OpenTimeout
      BY <1>5 DEF Tick, HealthChanges, cvars
    <3>2. healthy' \in BOOLEAN
      <4> HIDE Constants
      <4> QED
        BY <1>5, ZenonT(30) DEF Tick, HealthChanges, cvars
    <3> QED
      BY <2>1, <3>1, <3>2
  <2>3. OpenAdmitsNothing'
    BY <2>1 DEF OpenAdmitsNothing, InProgress
  <2> QED
    BY <2>2, <2>3
<1> QED
  BY <1>1, <1>2, <1>3, <1>4, <1>5 DEF BreakerNext, Write

\* Every reachable state is well typed.
THEOREM BreakerTypeCorrect == BreakerSpec => []BreakerTypeOK
<1>1. BreakerInv => BreakerTypeOK
  BY DEF BreakerInv
<1> QED
  BY <1>1, BreakerStarts, BreakerStep, PTL DEF BreakerSpec

\* The state and the count of failures agree, however many writers there are
\* and in whatever order their outcomes arrive.
THEOREM ClosedBelowThresholdCorrect == BreakerSpec => []ClosedBelowThreshold
<1>1. BreakerInv => ClosedBelowThreshold
  BY DEF BreakerInv
<1> QED
  BY <1>1, BreakerStarts, BreakerStep, PTL DEF BreakerSpec

\* An open circuit admits nothing: the writes in progress are older than the trip.
THEOREM OpenAdmitsNothingCorrect == BreakerSpec => []OpenAdmitsNothing
<1>1. BreakerInv => OpenAdmitsNothing
  BY DEF BreakerInv
<1> QED
  BY <1>1, BreakerStarts, BreakerStep, PTL DEF BreakerSpec

\* Only a write that was in progress when the window began cuts it short.
THEOREM EarlyCloseIsStaleCorrect == BreakerSpec => EarlyCloseIsStale
<1>1. ASSUME BreakerInv, [BreakerNext]_cvars, state = "open", state' # "open", remaining > 0
      PROVE  \E w \in stale : pc[w] = "ok" /\ pc'[w] = "idle"
  <2>1. PICK w \in Writers : OnSuccess(w)
    BY <1>1, Constants DEF BreakerNext, Write, Admit, NextWrites, OnFailure, StartWindow,
       Tick, HealthChanges, cvars, BreakerInv, BreakerTypeOK
  <2>2. pc[w] = "ok" /\ pc'[w] = "idle"
    BY <1>1, <2>1 DEF OnSuccess, Settle, BreakerInv, BreakerTypeOK
  <2>3. w \in stale
    BY <1>1, <2>2 DEF BreakerInv, OpenAdmitsNothing, InProgress
  <2> QED
    BY <2>2, <2>3
<1>2. BreakerInv /\ [BreakerNext]_cvars
        => (state = "open" /\ state' # "open" /\ remaining > 0
              => \E w \in stale : pc[w] = "ok" /\ pc'[w] = "idle")
  BY <1>1
<1> QED
  BY <1>2, BreakerStarts, BreakerStep, PTL DEF BreakerSpec, EarlyCloseIsStale

-----------------------------------------------------------------------------
(* A single writer keeps to the window: none of its writes is in progress   *)
(* while the circuit is open, so nothing can close the circuit early.       *)

SoloInv ==
  /\ BreakerTypeOK
  /\ state # "open" => remaining = 0
  /\ state = "open" => \A w \in Writers : pc[w] = "idle"

LEMMA SoloStep ==
  ASSUME \A v, w \in Writers : v = w
  PROVE  BreakerInv /\ SoloInv /\ [BreakerNext]_cvars => SoloInv'
<1> SUFFICES ASSUME BreakerInv, SoloInv, [BreakerNext]_cvars PROVE SoloInv'
  OBVIOUS
<1>1. BreakerTypeOK'
  BY BreakerStep DEF BreakerInv
<1> USE Constants DEF SoloInv, BreakerTypeOK
<1>2. ASSUME NEW w \in Writers, Admit(w) PROVE SoloInv'
  BY <1>1, <1>2 DEF Admit
<1>3. ASSUME NEW w \in Writers, NextWrites(w) PROVE SoloInv'
  BY <1>1, <1>3 DEF NextWrites
<1>4. ASSUME NEW w \in Writers, OnSuccess(w) PROVE SoloInv'
  BY <1>1, <1>4 DEF OnSuccess
<1>5. ASSUME NEW w \in Writers, OnFailure(w) PROVE SoloInv'
  <2>1. state # "open" /\ remaining = 0
    BY <1>5 DEF OnFailure
  <2>2. \A v \in Writers : pc'[v] = "idle"
    BY <1>5 DEF OnFailure, Settle
  <2>3. state' = "open" \/ (state' = state /\ remaining' = remaining)
    BY <1>5, <2>1 DEF OnFailure, StartWindow
  <2> QED
    BY <1>1, <2>1, <2>2, <2>3
<1>6. ASSUME Tick \/ HealthChanges \/ UNCHANGED cvars PROVE SoloInv'
  BY <1>1, <1>6 DEF Tick, HealthChanges, cvars
<1> QED
  BY <1>2, <1>3, <1>4, <1>5, <1>6 DEF BreakerNext, Write

\* With one writer, no write starts on the next sink before the window is over;
\* with two this fails (a stale success closes the circuit).
THEOREM SoloWindowRespected ==
  ASSUME \A v, w \in Writers : v = w
  PROVE  BreakerSpec => WindowRespected
<1>1. BreakerInit => SoloInv
  BY Constants DEF BreakerInit, SoloInv, BreakerTypeOK
<1>2. BreakerInv /\ SoloInv /\ [BreakerNext]_cvars => SoloInv'
  BY SoloStep
<1>3. SoloInv /\ [BreakerNext]_cvars =>
        \A w \in Writers : pc[w] = "idle" /\ pc'[w] = "writing" => remaining = 0
  <2> SUFFICES ASSUME SoloInv, [BreakerNext]_cvars, NEW w \in Writers,
                      pc[w] = "idle", pc'[w] = "writing"
               PROVE  remaining = 0
    OBVIOUS
  <2>1. Admit(w)
    BY DEF BreakerNext, Write, Admit, NextWrites, OnSuccess, OnFailure, Settle, Tick,
           HealthChanges, cvars, SoloInv, BreakerTypeOK
  <2> QED
    BY <2>1 DEF Admit, SoloInv
<1> QED
  BY <1>1, <1>2, <1>3, BreakerStarts, BreakerStep, PTL DEF BreakerSpec, WindowRespected
=============================================================================
