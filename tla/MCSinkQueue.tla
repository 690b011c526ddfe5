----------------------------- MODULE MCSinkQueue -----------------------------
(* Small instances of the queue protocol for TLC. *)
EXTENDS SinkQueue
=============================================================================
