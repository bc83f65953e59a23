-------------------------- MODULE RangeReaderProofs --------------------------
(***************************************************************************)
(* For a file of any length, read in pieces of any size: the open response *)
(* stays in step with the position, and the reader implements Stream.      *)
(***************************************************************************)
EXTENDS RangeReader, TLAPS

ReaderInv == TypeOK /\ BodyInStep

-----------------------------------------------------------------------------
(* The open response as the proofs see it: where it is, and what it has left *)
LEMMA BodyFacts ==
  ASSUME TypeOK, body # NoBody
  PROVE  /\ body.at \in 0..Top /\ body.open \in BOOLEAN
         /\ Left \in Nat
         /\ body.at + Left <= Length \/ Left = 0
         /\ Left = 0 => ~body.open \/ body.at >= Length
BY RangeReaderAssumption DEF TypeOK, Bodies, Left

LEMMA InitHolds == Init => ReaderInv
BY RangeReaderAssumption DEF Init, ReaderInv, TypeOK, BodyInStep, Bodies, Outcome, Sought

(* A response just asked for is in step whichever way the server answers    *)
(* (ensure_open).                                                           *)
LEMMA OpenKeeps ==
  ASSUME ReaderInv, ensure_open
  PROVE  ReaderInv'
<1> USE RangeReaderAssumption DEF ReaderInv, TypeOK, BodyInStep, Bodies
<1>1. CASE Returns(Failed) /\ UNCHANGED <<pos, len, body, pending_skip>>
  BY <1>1 DEF Returns, Failed, Outcome, Left
<1>2. ASSUME NEW status \in {200, 206}, Learn, Opened(status), UNCHANGED <<pos, want, got>>
      PROVE  ReaderInv'
  <2>1. len' \in {Unknown, Length}
    BY <1>2 DEF Learn, Total
  <2>2. body' \in Bodies /\ body' # NoBody /\ body'.at + pending_skip' = pos'
        /\ pending_skip' \in 0..Top
    <3>1. PICK at \in 0..Top : body' = [at |-> at, open |-> TRUE] /\ at + pending_skip' = pos
                               /\ pending_skip' \in 0..Top
      <4> DEFINE start == IF status = 206 THEN pos ELSE 0
      <4>1. start \in 0..Top /\ body' = [at |-> start, open |-> TRUE]
        BY <1>2 DEF Opened, Body
      <4>2. start + pending_skip' = pos /\ pending_skip' \in 0..Top
        BY <1>2 DEF Opened
      <4> HIDE DEF start
      <4> QED
        BY <4>1, <4>2
    <3>2. body' \in Bodies /\ body' \in [at : Nat, open : BOOLEAN] /\ body'.at = at
      BY <3>1
    <3> QED
      BY <1>2, <3>1, <3>2
  <2> QED
    BY <1>2, <2>1, <2>2
<1> QED
  BY <1>1, <1>2 DEF ensure_open

(* Skipping, delivering and failing advance both sides by the same count.   *)
LEMMA ReadKeeps ==
  ASSUME ReaderInv, SkipChunk \/ SkipEnds \/ Deliver \/ DeliverEnds \/ BodyFails
  PROVE  ReaderInv'
<1>0. Reading /\ body # NoBody /\ TypeOK /\ BodyInStep
  BY DEF ReaderInv, SkipChunk, SkipEnds, Deliver, DeliverEnds, BodyFails, Reading
<1>1. /\ body.at \in 0..Top /\ body.open \in BOOLEAN
      /\ body = [at |-> body.at, open |-> body.open]
      /\ Left \in Nat
      /\ body.at + Left <= Length \/ Left = 0
  BY <1>0, BodyFacts DEF TypeOK, Bodies
<1>2. CASE SkipChunk
  <2>1. PICK count \in 1..MinOf(MinOf(pending_skip, Chunk), Left) :
          Advance(count) /\ pending_skip' = pending_skip - count
    BY <1>2 DEF SkipChunk
  <2>2. count \in Nat /\ count <= pending_skip /\ count <= Left /\ count > 0
    BY <1>0, <1>1, <2>1, RangeReaderAssumption DEF MinOf, TypeOK
  <2>3. body' = [at |-> body.at + count, open |-> body.open]
    BY <1>1, <2>1 DEF Advance
  <2>4. body.at + count \in 0..Top /\ body.at + pending_skip = pos
    BY <1>0, <1>1, <1>2, <2>2, RangeReaderAssumption DEF BodyInStep, SkipChunk
  <2>5. body' \in Bodies /\ body' # NoBody /\ body'.at + pending_skip' = pos'
        /\ pending_skip' \in 0..Top
    BY <1>0, <1>1, <1>2, <2>1, <2>2, <2>3, <2>4, RangeReaderAssumption
       DEF Bodies, SkipChunk, TypeOK
  <2> QED
    BY <1>0, <1>2, <2>5 DEF SkipChunk, ReaderInv, TypeOK, BodyInStep
<1>3. CASE SkipEnds
  <2>1. body.at < pos
    BY <1>0, <1>1, <1>3, RangeReaderAssumption DEF SkipEnds, BodyInStep, TypeOK
  <2> QED
    BY <1>0, <1>3, <2>1, RangeReaderAssumption
       DEF SkipEnds, ReaderInv, TypeOK, BodyInStep, Left, Returns, Ended, Outcome
<1>4. CASE Deliver
  <2>1. PICK count \in 1..MinOf(want, Left) :
          /\ Returns(Outcome("bytes", body.at, count))
          /\ Advance(count) /\ pos' = pos + count
    BY <1>4 DEF Deliver
  <2>2. count \in 1..MaxRead /\ count <= Left /\ body.at = pos /\ pending_skip = 0
    BY <1>0, <1>1, <1>4, <2>1, RangeReaderAssumption DEF MinOf, TypeOK, BodyInStep, Deliver
  <2>3. body' = [at |-> pos + count, open |-> body.open] /\ pos + count \in 0..Top
    BY <1>0, <1>1, <2>1, <2>2, RangeReaderAssumption DEF Advance, TypeOK
  <2>4. /\ body' \in Bodies /\ body' # NoBody
        /\ body'.at + pending_skip' = pos' /\ pending_skip' = 0
    BY <1>1, <1>4, <2>1, <2>2, <2>3, RangeReaderAssumption DEF Bodies, Deliver
  <2>5. want' \in 0..MaxRead /\ got' \in [kind : {"bytes", "end", "error", "sought"},
                                          from : 0..Top, count : 0..MaxRead]
    BY <1>1, <2>1, <2>2, RangeReaderAssumption DEF Returns, Outcome
  <2> QED
    BY <1>0, <1>4, <2>1, <2>3, <2>4, <2>5, RangeReaderAssumption
       DEF Deliver, ReaderInv, TypeOK, BodyInStep
<1>5. CASE DeliverEnds
  BY <1>0, <1>5, RangeReaderAssumption
     DEF DeliverEnds, ReaderInv, TypeOK, BodyInStep, Bodies, Returns, Ended, Outcome
<1>6. CASE BodyFails
  BY <1>0, <1>6, RangeReaderAssumption
     DEF BodyFails, ReaderInv, TypeOK, BodyInStep, Left, Returns, Failed, Outcome
<1> QED
  BY <1>2, <1>3, <1>4, <1>5, <1>6

(* A seek to elsewhere forgets the response and what was to be skipped of   *)
(* it; one to the same place forgets neither.                               *)
LEMMA MoveKeeps ==
  ASSUME ReaderInv, NEW target \in 0..Top, MoveTo(target)
  PROVE  ReaderInv'
BY RangeReaderAssumption
   DEF ReaderInv, TypeOK, BodyInStep, Bodies, MoveTo, Left, Sought, Outcome

LEMMA SeekMovesOrRefuses ==
  ASSUME TypeOK, Seek
  PROVE  (\E target \in 0..Top : MoveTo(target)) \/ Refuse
BY DEF Seek, SeekFrom

LEMMA StepKeeps ==
  ASSUME ReaderInv, [Next]_vars
  PROVE  ReaderInv'
<1>1. CASE StartRead
  BY <1>1, RangeReaderAssumption DEF StartRead, ReaderInv, TypeOK, BodyInStep, Left
<1>2. CASE Lose
  <2>1. body # NoBody /\ TypeOK /\ BodyInStep
    BY <1>2 DEF Lose, ReaderInv
  <2>2. body.at \in 0..Top /\ body' = [at |-> body.at, open |-> FALSE] /\ body' # NoBody
    <3>1. body.at \in 0..Top /\ body \in [at : 0..Top, open : BOOLEAN]
      BY <2>1 DEF TypeOK, Bodies
    <3>2. body' = [at |-> body.at, open |-> FALSE]
      BY <1>2, <3>1 DEF Lose
    <3>3. body' \in [at : Nat, open : BOOLEAN]
      BY <3>1, <3>2, RangeReaderAssumption
    <3> QED
      BY <3>1, <3>2, <3>3, RangeReaderAssumption
  <2>3. body' \in Bodies /\ Left' = 0
    BY <2>2 DEF Bodies, Left
  <2> QED
    BY <1>2, <2>1, <2>2, <2>3 DEF Lose, ReaderInv, TypeOK, BodyInStep
<1>3. CASE Seek
  <2>1. CASE Refuse
    BY <2>1, RangeReaderAssumption
       DEF Refuse, ReaderInv, TypeOK, BodyInStep, Left, Failed, Outcome
  <2> QED
    BY <1>3, <2>1, SeekMovesOrRefuses, MoveKeeps DEF ReaderInv
<1>4. CASE UNCHANGED vars
  BY <1>4 DEF vars, ReaderInv, TypeOK, BodyInStep, Left
<1> QED
  BY <1>1, <1>2, <1>3, <1>4, OpenKeeps, ReadKeeps DEF Next, Read

-----------------------------------------------------------------------------
THEOREM ReaderSafety == Spec => []ReaderInv
<1>1. ReaderInv /\ [Next]_vars => ReaderInv'
  BY StepKeeps
<1> QED
  BY <1>1, InitHolds, PTL DEF Spec

(* Every field keeps its type, for every file and every size of read.       *)
THEOREM ReaderTypes == Spec => []TypeOK
<1>1. ReaderInv => TypeOK
  BY DEF ReaderInv
<1> QED
  BY <1>1, ReaderSafety, PTL

(* The response is as far from pos as there are bytes left to throw away    *)
(* (BodyInStep), whatever reads, errors and seeks came before.              *)
THEOREM ReaderInStep == Spec => []BodyInStep
<1>1. ReaderInv => BodyInStep
  BY DEF ReaderInv
<1> QED
  BY <1>1, ReaderSafety, PTL

-----------------------------------------------------------------------------
(* Refinement *)

(* The end is reported only at the end or after a lost connection.          *)
LEMMA EndIsEnd ==
  ASSUME ReaderInv, Reading, Left = 0
  PROVE  pos >= Length \/ (body # NoBody /\ ~body.open)
<1>1. body # NoBody /\ (~body.open \/ body.at >= Length)
  BY BodyFacts DEF Reading, ReaderInv
<1>2. body.at <= pos
  BY <1>1, BodyFacts, RangeReaderAssumption DEF ReaderInv, BodyInStep, TypeOK
<1> QED
  BY <1>1, <1>2, BodyFacts, RangeReaderAssumption DEF ReaderInv, TypeOK

LEMMA StepRefines ==
  ASSUME ReaderInv, [Next]_vars
  PROVE  [Promise!Next]_Promise!streamVars
<1> USE DEF Promise!Next
<1>1. CASE StartRead \/ SkipChunk \/ Lose
  BY <1>1 DEF StartRead, SkipChunk, Lose, Promise!Connection
<1>2. CASE ensure_open
  <2>1. CASE UNCHANGED <<pos, got>>
    BY <2>1 DEF Promise!Connection
  <2>2. CASE Returns(Failed) /\ UNCHANGED pos
    BY <2>2 DEF Returns, Failed, Outcome, Promise!Fail, Promise!Failed, Promise!Outcome
  <2> QED
    BY <1>2, <2>1, <2>2 DEF ensure_open
<1>3. CASE SkipEnds \/ DeliverEnds
  <2>1. pos >= Length \/ (body # NoBody /\ ~body.open)
    BY <1>3, EndIsEnd DEF SkipEnds, DeliverEnds
  <2> QED
    BY <1>3, <2>1 DEF SkipEnds, DeliverEnds, Returns, Ended, Outcome, Promise!End, Promise!Ended,
                      Promise!Outcome
<1>4. CASE Deliver
  <2>1. PICK count \in 1..MinOf(want, Left) :
          /\ Returns(Outcome("bytes", body.at, count))
          /\ Advance(count) /\ pos' = pos + count
    BY <1>4 DEF Deliver
  <2>2. body # NoBody /\ pending_skip = 0 /\ TypeOK /\ BodyInStep
    BY <1>4 DEF Deliver, Reading, ReaderInv
  <2>3. Left \in Nat /\ (body.at + Left <= Length \/ Left = 0) /\ body.at \in 0..Top
    BY <2>2, BodyFacts
  <2>4. count \in 1..MaxRead /\ count <= Left /\ Left # 0
    BY <2>1, <2>2, <2>3, RangeReaderAssumption DEF MinOf, TypeOK
  <2>5. body.at = pos
    BY <2>2, <2>3, <2>4, RangeReaderAssumption DEF BodyInStep, TypeOK
  <2>6. pos + count <= Length
    BY <2>3, <2>4, <2>5, RangeReaderAssumption
  <2>7. body' # NoBody /\ body'.open = body.open
    BY <2>1, <2>2, <2>3, RangeReaderAssumption DEF Advance, TypeOK, Bodies
  <2> QED
    BY <2>1, <2>2, <2>4, <2>5, <2>6, <2>7
       DEF Returns, Outcome, Promise!Yield, Promise!Outcome
<1>5. CASE BodyFails
  BY <1>5 DEF BodyFails, Returns, Failed, Outcome, Promise!Fail, Promise!Failed, Promise!Outcome
<1>6. CASE Seek
  <2>1. CASE Refuse
    BY <2>1 DEF Refuse, Failed, Outcome, Promise!Fail, Promise!Failed, Promise!Outcome
  <2>2. ASSUME NEW target \in 0..Top, MoveTo(target)
        PROVE  Promise!Move
    BY <2>2 DEF MoveTo, Sought, Outcome, Promise!Move, Promise!Sought, Promise!Outcome
  <2> QED
    BY <1>6, <2>1, <2>2, SeekMovesOrRefuses DEF ReaderInv
<1>7. CASE UNCHANGED vars
  BY <1>7 DEF vars, Promise!streamVars
<1> QED
  BY <1>1, <1>2, <1>3, <1>4, <1>5, <1>6, <1>7 DEF Next, Read

(* Over either kind of server the reader is a file with a cursor            *)
(* (ImplementsStream): no byte is returned twice, left out or taken for     *)
(* another, for any file, any sizes of reads and chunks, any seeks, errors  *)
(* and lost connections.                                                    *)
THEOREM ReaderImplementsStream == Spec => ImplementsStream
<1>1. Init => Promise!Init
  BY DEF Init, Sought, Outcome, Promise!Init, Promise!Sought, Promise!Outcome
<1>2. ReaderInv /\ [Next]_vars => [Promise!Next]_Promise!streamVars
  BY StepRefines
<1> QED
  BY <1>1, <1>2, ReaderSafety, PTL DEF Spec, ImplementsStream, Promise!Spec
=============================================================================
