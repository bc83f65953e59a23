------------------------------ MODULE MCDaemon ------------------------------
(* A small instance of Daemon for TLC. *)
EXTENDS Daemon

CONSTANTS d1, d2, t1, t2

(* Ids of different lengths *)
TwoPids == [d \in {d1, d2} |-> IF d = d1 THEN <<1, 1>> ELSE <<2>>]
=============================================================================
