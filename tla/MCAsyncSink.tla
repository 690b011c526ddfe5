----------------------------- MODULE MCAsyncSink -----------------------------
(* Small instances of AsyncSink for TLC. *)
EXTENDS AsyncSink
=============================================================================
