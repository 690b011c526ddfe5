--------------------------- MODULE MCLogPipeline ---------------------------
(* Small instances of the pipeline for TLC: a fan-out over a child that takes *)
(* everything and one that takes errors only; every second debug event.       *)
EXTENDS LogPipeline, TLC

CONSTANTS m3, m1, m2

\* Two messages at the level that is sampled, one that is not, and one that is no level.
MCLogged == {<<0, m1>>, <<0, m2>>, <<3, m3>>, <<5, m3>>}
MCMinLevel == <<0, 3>>
MCSampling == (0 :> 2) @@ (1 :> 0) @@ (2 :> 1)
TimedRecovery == <<"timing", "recover">>
\* A Snapshot changes nothing for the goroutines.  It is taken beside the calls of two
\* of them, and followed to its last load, for what it has returned stays as it is.
BesideSnapshot == loaded > 0 => loaded < 4 /\ \E g \in Goroutines : call[g].n = 0
\* The two sampled messages may be exchanged.
Symmetry == Permutations(Goroutines) \cup Permutations({m1, m2})
=============================================================================
