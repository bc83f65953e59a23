-------------------------------- MODULE Stream --------------------------------
(***************************************************************************)
(* What the decoder is promised of a streamed track (Read and Seek over    *)
(* RangeReader, daemon/src/range_reader.rs): a file of Length bytes with a *)
(* cursor.  A read yields bytes from the cursor on and moves it past them, *)
(* reports the end only at the end, unless the connection was lost, and    *)
(* may fail; a seek moves the cursor and yields nothing.                   *)
(***************************************************************************)
EXTENDS Integers

CONSTANTS Length, MaxRead, Top

VARIABLES
  cursor,   (* the byte the next read begins with              *)
  got,      (* the outcome of the last read or seek            *)
  lost      (* the connection has ended before the file did    *)

streamVars == <<cursor, got, lost>>

Outcome(kind, from, count) == [kind |-> kind, from |-> from, count |-> count]

Failed == Outcome("error", 0, 0)
Ended  == Outcome("end", 0, 0)
Sought == Outcome("sought", 0, 0)

Init == cursor = 0 /\ got = Sought /\ lost = FALSE

Yield ==
  \E count \in 1..MaxRead :
    /\ cursor + count <= Length
    /\ got' = Outcome("bytes", cursor, count)
    /\ cursor' = cursor + count
    /\ UNCHANGED lost

End == (cursor >= Length \/ lost) /\ got' = Ended /\ UNCHANGED cursor

Fail == got' = Failed /\ UNCHANGED cursor

Move == cursor' \in 0..Top /\ got' = Sought

Connection == UNCHANGED <<cursor, got>>

Next == Yield \/ End \/ Fail \/ Move \/ Connection

Spec == Init /\ [][Next]_streamVars
=============================================================================
