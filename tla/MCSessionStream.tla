-------------------------- MODULE MCSessionStream --------------------------
(* Instances of SessionStream: batches of unequal size, the third larger    *)
(* than the byte cap of 2 used below.                                      *)
EXTENDS SessionStream

MCMessages == [seq \in 1..MaxSeq |-> seq]
MCBytes == [seq \in 1..MaxSeq |-> IF seq = 3 THEN 3 ELSE 1]
=============================================================================
