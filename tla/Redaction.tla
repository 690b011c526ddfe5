----------------------------- MODULE Redaction -----------------------------
(***************************************************************************)
(* The redaction processor's walk through the value of a field, and what   *)
(* it should have done, told from the paths to the leaves of the value.    *)
(*                                                                         *)
(* A value is a leaf, a map or a list, or a container of a type that the   *)
(* walk does not know ("typed", such as a map[string]string or a struct);  *)
(* a slice of Fields is a map here.                                        *)
(***************************************************************************)
EXTENDS Naturals, Sequences

CONSTANTS
  Keys,             \* the options' keys
  Trimmed, Lowered, \* keys in another spelling, with what TrimSpace and ToLower make of them
  Nesting           \* values: what the ones at a place of it hold is ahead of them

Depth   == Len(Nesting)
Samples == UNION {Nesting[d] : d \in DOMAIN Nesting}

\* Values are finite: a container holds only what is less deep.
ASSUME NestingAssumption ==
  /\ Nesting \in Seq({Nesting[d] : d \in DOMAIN Nesting})
  /\ \A d \in DOMAIN Nesting : \A v \in Nesting[d] :
       v.kind \in {"map", "list"} =>
         /\ v = [kind |-> v.kind, items |-> [k \in DOMAIN v.items |-> v.items[k]]]
         /\ v.kind = "list" => DOMAIN v.items \subseteq Nat \ {0}
         /\ \A k \in DOMAIN v.items : \E c \in 1..d - 1 : v.items[k] \in Nesting[c]

Trim(k)  == IF k \in DOMAIN Trimmed THEN Trimmed[k] ELSE k
Lower(k) == IF k \in DOMAIN Lowered THEN Lowered[k] ELSE k

Mask == [kind |-> "mask", is |-> ""]

KeySet(caseInsensitive) ==
  {IF caseInsensitive THEN Lower(Trim(k)) ELSE Trim(k) : k \in Keys} \ {""}

\* Unless the case is ignored the result of TrimSpace is thrown away.
ShouldRedact(caseInsensitive, key) ==
  (IF caseInsensitive THEN Lower(Trim(key)) ELSE key) \in KeySet(caseInsensitive)

\* redactNested, and redactValue for the items of a map: below is what becomes of
\* the values one level down.
RedactNested(ci, v, below) ==
  CASE v.kind = "map"  -> [v EXCEPT !.items =
                             [k \in DOMAIN @ |-> IF ShouldRedact(ci, k) THEN Mask ELSE below[@[k]]]]
    [] v.kind = "list" -> [v EXCEPT !.items = [i \in DOMAIN @ |-> below[@[i]]]]
    [] OTHER           -> v

\* What becomes of values when their first d levels are redacted.
Walk(ci) ==
  LET walk[d \in 0..Depth] ==
        [v \in Samples |-> IF d = 0 THEN v ELSE RedactNested(ci, v, walk[d - 1])]
  IN walk

RedactValue(ci, key, v) ==
  IF ShouldRedact(ci, key) THEN Mask ELSE Walk(ci)[Depth][v]

-----------------------------------------------------------------------------
HasItems(v) == v.kind \in {"map", "list"} /\ DOMAIN v.items # {}

\* A step into a value: a key of a map or a place in a list.
Step(kind, k) == [key |-> IF kind = "map" THEN k ELSE "", place |-> IF kind = "list" THEN k ELSE 0]

Into(x) ==
  IF HasItems(x.at)
    THEN {[path |-> Append(x.path, Step(x.at.kind, k)), at |-> x.at.items[k]] : k \in DOMAIN x.at.items}
    ELSE {x}

\* What there is behind n steps into a value or at the end of fewer, with the path
\* that leads to it; the first step is the key that the value stands under.
Behind(key, v) ==
  LET behind[n \in 0..Depth] ==
        IF n = 0 THEN {[path |-> <<Step("map", key)>>, at |-> v]}
                 ELSE UNION {Into(x) : x \in behind[n - 1]}
  IN behind

Leaves(key, v) == Behind(key, v)[Depth]

Sensitive(ci, step) == step.place = 0 /\ ShouldRedact(ci, step.key)

\* The part of a path up to its first sensitive key, and the mask there; or the
\* leaf as it was.
Covered(ci, x) ==
  IF \E i \in DOMAIN x.path : Sensitive(ci, x.path[i])
    THEN LET first == CHOOSE i \in DOMAIN x.path :
                        /\ Sensitive(ci, x.path[i])
                        /\ \A j \in 1..i - 1 : ~Sensitive(ci, x.path[j])
         IN [path |-> SubSeq(x.path, 1, first), at |-> Mask]
    ELSE x

\* Whatever the depth, every leaf below a sensitive key is gone and every other
\* one is as it was; only what a container of another type holds is not looked at.
RedactsByPath ==
  \A key \in Keys \cup DOMAIN Trimmed \cup DOMAIN Lowered \cup {"plain"}, ci \in BOOLEAN :
    \A v \in Samples :
      Leaves(key, RedactValue(ci, key, v)) = {Covered(ci, x) : x \in Leaves(key, v)}
=============================================================================
