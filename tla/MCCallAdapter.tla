---------------------------- MODULE MCCallAdapter --------------------------
(* Instance of CallAdapter for TLC. *)
EXTENDS CallAdapter

CONSTANTS p1, huge, none, m1, bad

MCPayloads == {p1, huge}
MCTooLong == {huge}
MCMetadata == {none, m1, bad}
MCInvalid == {bad}
============================================================================
