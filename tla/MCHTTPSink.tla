----------------------------- MODULE MCHTTPSink -----------------------------
(* Small instances of HTTPSink for TLC. *)
EXTENDS HTTPSink

CONSTANTS c1, w

\* The first write of c1 and the second event of the first batch.
SpoiltEvents == {WriteOf(c1, 1), <<w, 1, 2>>}
=============================================================================
