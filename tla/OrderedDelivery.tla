--------------------------- MODULE OrderedDelivery ---------------------------
(***************************************************************************)
(* What a queueing sink promises of the events it accepts, with no queue,  *)
(* no callers' program counters and no control jobs: it delivers them in   *)
(* the order of acceptance, each once; closing it seals the stream at some *)
(* point, what was accepted up to the seal is delivered before the sink    *)
(* shuts, and what is accepted behind the seal never is.                   *)
(***************************************************************************)
EXTENDS Naturals, Sequences, FiniteSets, SequencesExt

CONSTANT Event

VARIABLES
  accepted,   \* the events the sink took, in order
  delivered,  \* the events it has handed on, in order
  seal,       \* {} while open, else {k}: the events up to k are to be delivered
  shut        \* nothing will be delivered any more

vars == <<accepted, delivered, seal, shut>>

Limit == IF seal = {} THEN Len(accepted) ELSE CHOOSE k \in seal : TRUE

TypeOK ==
  /\ accepted \in Seq(Event)
  /\ delivered \in Seq(Event) /\ IsPrefix(delivered, accepted)
  /\ seal \in SUBSET (Len(delivered)..Len(accepted)) /\ Cardinality(seal) <= 1
  /\ shut \in BOOLEAN

Init == accepted = <<>> /\ delivered = <<>> /\ seal = {} /\ shut = FALSE

Accept ==
  /\ \E e \in Event : e \notin ToSet(accepted) /\ accepted' = Append(accepted, e)
  /\ UNCHANGED <<delivered, seal, shut>>

\* Hand on the next events, one or a batch of them.
Deliver ==
  /\ ~shut
  /\ \E k \in Len(delivered) + 1 .. Limit : delivered' = SubSeq(accepted, 1, k)
  /\ UNCHANGED <<accepted, seal, shut>>

Seal ==
  /\ seal = {}
  /\ seal' = {Len(accepted)}
  /\ UNCHANGED <<accepted, delivered, shut>>

Shut ==
  /\ seal = {Len(delivered)}
  /\ shut' = TRUE
  /\ UNCHANGED <<accepted, delivered, seal>>

Next == Accept \/ Deliver \/ Seal \/ Shut

Spec == Init /\ [][Next]_vars

\* The deliveries keep up: again and again nothing that may be delivered is
\* waiting, so what is accepted is delivered unless a seal comes before it.
Progress == []<>(Len(delivered) >= Limit)

\* A sealed sink shuts.
Shuts == seal # {} ~> shut

=============================================================================
