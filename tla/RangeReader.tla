----------------------------- MODULE RangeReader -----------------------------
(***************************************************************************)
(* A file behind HTTP, read and sought in by the audio decoder             *)
(* (daemon/src/range_reader.rs).  A seek only drops the connection; the    *)
(* next read asks for the rest of the file from where it is to go on, and  *)
(* throws away what comes before if the server sends the whole file.       *)
(*                                                                         *)
(* Byte k of the file is the number k.  read is a loop, so it is taken     *)
(* step by step: opening, skipping chunk by chunk, delivering.  The server *)
(* and the network choose each answer and each chunk, and may end a body   *)
(* early.                                                                  *)
(***************************************************************************)
EXTENDS Integers

CONSTANTS
  Length,     (* bytes in the file                                            *)
  MaxRead,    (* bound: the bytes a caller asks for at once                   *)
  Chunk,      (* bytes thrown away at once, 8192 in the code                  *)
  Top,        (* the largest u64                                              *)
  Unknown,    (* None, for a length not learned yet                           *)
  NoBody      (* None, for no open response                                   *)

ASSUME RangeReaderAssumption ==
  /\ Length \in Nat /\ MaxRead \in Nat \ {0} /\ Chunk \in Nat \ {0}
  /\ Top \in Nat /\ Length <= Top
  /\ Unknown \notin Nat
  /\ NoBody \notin [at : Nat, open : BOOLEAN]

VARIABLES
  pos,           (* the byte the next read is to begin with                   *)
  len,           (* the length of the file, if known                          *)
  body,          (* the open response: the byte it is at, and whether it goes on *)
  pending_skip,  (* bytes of it still to be thrown away                       *)
  want,          (* bytes the read in progress may return, 0 with none        *)
  got            (* the outcome of the last read or seek                      *)

vars == <<pos, len, body, pending_skip, want, got>>

Outcome(kind, from, count) == [kind |-> kind, from |-> from, count |-> count]

Failed == Outcome("error", 0, 0)
Ended  == Outcome("end", 0, 0)
Sought == Outcome("sought", 0, 0)

Body(at) == [at |-> at, open |-> TRUE]

MinOf(a, b) == IF a < b THEN a ELSE b

Init ==
  /\ pos = 0 /\ len = Unknown /\ body = NoBody /\ pending_skip = 0
  /\ want = 0 /\ got = Sought

Returns(outcome) == got' = outcome /\ want' = 0

-----------------------------------------------------------------------------
(* read *)

StartRead ==
  /\ want = 0
  /\ want' \in 1..MaxRead
  /\ UNCHANGED <<pos, len, body, pending_skip, got>>

(* Slip: the last byte's number is taken for the number of bytes *)
Total_last_byte == {Unknown, Length - 1}

(* What Content-Range or Content-Length says, if it is there and a number *)
Total == {Unknown, Length}

Learn == len' \in IF len = Unknown THEN Total ELSE {len}

(* Slip: the bytes before pos are taken for those from pos on *)
Opened_unskipped(status) ==
  /\ pending_skip' = 0
  /\ body' = Body(IF status = 206 THEN pos ELSE 0)

(* 206 goes on at pos, 200 begins at the beginning *)
Opened(status) ==
  /\ pending_skip' = IF status = 206 THEN 0 ELSE pos
  /\ body' = Body(IF status = 206 THEN pos ELSE 0)

ensure_open ==
  /\ want > 0 /\ body = NoBody
  /\ \/ /\ Learn
        /\ \E status \in {200, 206} : Opened(status)
        /\ UNCHANGED <<pos, want, got>>
     \/ /\ Returns(Failed)
        /\ UNCHANGED <<pos, len, body, pending_skip>>

Reading == want > 0 /\ body # NoBody

(* The bytes the body still has to give *)
Left == IF body.open /\ body.at < Length THEN Length - body.at ELSE 0

Advance(count) == body' = [body EXCEPT !.at = @ + count]

SkipChunk ==
  /\ Reading /\ pending_skip > 0
  /\ \E count \in 1..MinOf(MinOf(pending_skip, Chunk), Left) :
       /\ Advance(count)
       /\ pending_skip' = pending_skip - count
  /\ UNCHANGED <<pos, len, want, got>>

(* Slip: an exhausted body is asked again *)
SkipEnds_asks_again ==
  /\ Reading /\ pending_skip > 0 /\ Left = 0
  /\ UNCHANGED vars

(* Shorter than expected: the end, with the exhausted body kept *)
SkipEnds ==
  /\ Reading /\ pending_skip > 0 /\ Left = 0
  /\ pending_skip' = 0
  /\ Returns(Ended)
  /\ UNCHANGED <<pos, len, body>>

Deliver ==
  /\ Reading /\ pending_skip = 0
  /\ \E count \in 1..MinOf(want, Left) :
       /\ Returns(Outcome("bytes", body.at, count))
       /\ Advance(count)
       /\ pos' = pos + count
  /\ UNCHANGED <<len, pending_skip>>

(* The next read asks anew *)
DeliverEnds ==
  /\ Reading /\ pending_skip = 0 /\ Left = 0
  /\ body' = NoBody
  /\ Returns(Ended)
  /\ UNCHANGED <<pos, len, pending_skip>>

(* The body reports an error instead: what is left of it is left there *)
BodyFails ==
  /\ Reading
  /\ Returns(Failed)
  /\ UNCHANGED <<pos, len, body, pending_skip>>

(* The connection ends, with no error the reader could tell from the end *)
Lose ==
  /\ body # NoBody /\ body.open
  /\ body' = [body EXCEPT !.open = FALSE]
  /\ UNCHANGED <<pos, len, pending_skip, want, got>>

-----------------------------------------------------------------------------
(* seek *)

(* Slip: the number of bytes still to be thrown away is kept *)
MoveTo_keeps_skip(target) ==
  /\ IF target = pos THEN UNCHANGED body ELSE body' = NoBody
  /\ pos' = target
  /\ got' = Sought
  /\ UNCHANGED <<len, pending_skip, want>>

(* To where it is already, a seek keeps the connection *)
MoveTo(target) ==
  /\ IF target = pos THEN UNCHANGED <<body, pending_skip>>
     ELSE body' = NoBody /\ pending_skip' = 0
  /\ pos' = target
  /\ got' = Sought
  /\ UNCHANGED <<len, want>>

Refuse == got' = Failed /\ UNCHANGED <<pos, len, body, pending_skip, want>>

(* Start, Current and End; an offset out of bounds is refused *)
SeekFrom(base, delta) == IF base + delta \in 0..Top THEN MoveTo(base + delta) ELSE Refuse

Deltas == -(Top + 1)..(Top + 1)

Seek ==
  /\ want = 0
  /\ \/ \E target \in 0..Top : MoveTo(target)
     \/ \E delta \in Deltas : SeekFrom(pos, delta)
     \/ len # Unknown /\ \E delta \in Deltas : SeekFrom(len, delta)
     \/ len = Unknown /\ Refuse

-----------------------------------------------------------------------------
Read == ensure_open \/ SkipChunk \/ SkipEnds \/ Deliver \/ DeliverEnds

Next == StartRead \/ Read \/ BodyFails \/ Lose \/ Seek

Spec == Init /\ [][Next]_vars

(* The network answers or ends in the end; that it fails is not counted on *)
LiveSpec == Spec /\ WF_vars(Read)

-----------------------------------------------------------------------------
(* Properties *)

Bodies == [at : 0..Top, open : BOOLEAN] \cup {NoBody}

(* Every field keeps its type; a length that was learned is the file's.     *)
TypeOK ==
  /\ pos \in 0..Top
  /\ len \in {Unknown, Length}
  /\ body \in Bodies
  /\ pending_skip \in 0..Top
  /\ want \in 0..MaxRead
  /\ got \in [kind : {"bytes", "end", "error", "sought"}, from : 0..Top, count : 0..MaxRead]

(* Whatever reads, skips, errors and seeks came before, the open response   *)
(* is just as far from pos as there are bytes left to throw away, unless it *)
(* is exhausted: no byte is ever returned for another one, whichever of the *)
(* two ways the server answers.                                             *)
BodyInStep ==
  /\ body # NoBody =>
       \/ body.at + pending_skip = pos
       \/ pending_skip = 0 /\ Left = 0 /\ body.at < pos
  /\ body = NoBody => pending_skip = 0

(* A read returns in the end, also from a file shorter than where a seek     *)
(* went. ("treat as EOF rather than looping forever", range_reader.rs)       *)
EveryReadReturns == (want > 0) ~> (want = 0)

Promise == INSTANCE Stream WITH
  cursor <- pos,
  lost   <- body # NoBody /\ ~body.open

(* The reader is a file with a cursor: it yields the bytes at the cursor in *)
(* order, none twice and none left out, and reports the end only there or   *)
(* after a lost connection.                                                 *)
ImplementsStream == Promise!Spec
=============================================================================
