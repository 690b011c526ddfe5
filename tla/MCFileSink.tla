----------------------------- MODULE MCFileSink -----------------------------
(* Small instances of FileSink for TLC. *)
EXTENDS FileSink
=============================================================================
