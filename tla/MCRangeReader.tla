---------------------------- MODULE MCRangeReader ----------------------------
(* A small instance of RangeReader for TLC. *)
EXTENDS RangeReader
=============================================================================
