----------------------------- MODULE Filtering -----------------------------
(***************************************************************************)
(* A list without the elements that fail a test, in the order they stand   *)
(* in: iter().filter(..).collect().  What passes the test is a set, so     *)
(* that what the filter does to lists of every length can be proved        *)
(* (FilteringProofs).                                                      *)
(***************************************************************************)
EXTENDS Integers, Sequences

Filtered(list, Passing) ==
  LET kept[n \in 0..Len(list)] ==
        IF n = 0 THEN <<>>
        ELSE IF list[n] \in Passing THEN Append(kept[n - 1], list[n]) ELSE kept[n - 1]
  IN  kept[Len(list)]
=============================================================================
