--------------------------- MODULE SessionDelivery ---------------------------
(***************************************************************************)
(* What a resumable download promises its caller, whatever happens to the  *)
(* connections underneath: the batches of the plan are handed over once    *)
(* each and in order, a download that has ended stays ended, and a         *)
(* completed one reports the message total of the whole plan.              *)
(***************************************************************************)
EXTENDS Integers

CONSTANTS MaxSeq,   \* batches of the plan
          Messages  \* messages in each batch

VARIABLES cursor,    \* last batch handed over
          received,  \* messages handed over
          eos,       \* how the download ended
          total      \* total_messages_sent of the Eos it ended with

vars == <<cursor, received, eos, total>>

(* Messages in the batches up to n.                                        *)
Cum[n \in 0..MaxSeq] == IF n = 0 THEN 0 ELSE Cum[n - 1] + Messages[n]

Open == eos = "open"

Init ==
    /\ cursor = 0
    /\ received = 0
    /\ eos = "open"
    /\ total = 0

Deliver ==
    /\ Open
    /\ cursor < MaxSeq
    /\ cursor' = cursor + 1
    /\ received' = received + Messages[cursor + 1]
    /\ UNCHANGED <<eos, total>>

Complete ==
    /\ Open
    /\ eos' = "Complete"
    /\ total' = Cum[MaxSeq]
    /\ UNCHANGED <<cursor, received>>

(* The download ends otherwise.  A sink that refuses a message leaves the  *)
(* batch it was given counted as the last one, with the messages before.   *)
Fail ==
    /\ Open
    /\ eos' \in {"Cancelled", "Error", "Unset"}
    /\ \/ UNCHANGED <<cursor, received>>
       \/ /\ cursor < MaxSeq
          /\ cursor' = cursor + 1
          /\ received' - received \in 0..(Messages[cursor + 1] - 1)
    /\ UNCHANGED total

Next == Deliver \/ Complete \/ Fail

Spec == Init /\ [][Next]_vars
=============================================================================
