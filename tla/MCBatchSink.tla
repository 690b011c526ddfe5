----------------------------- MODULE MCBatchSink -----------------------------
(* Small instances of BatchSink for TLC. *)
EXTENDS BatchSink
=============================================================================
