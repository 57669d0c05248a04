----------------------------- MODULE PinnedStore -----------------------------
(***************************************************************************)
(* What the session file cache promises the processes that load from it:   *)
(* one artifact, replaced or removed only while nobody has it pinned, and  *)
(* pinned only while it is readable.                                       *)
(***************************************************************************)
EXTENDS Naturals

CONSTANT Procs

VARIABLES artifact,  \* the generation published last and what is at its path
          pins       \* references each process holds to it

Readable == artifact.content \in {"whole", "short"}
Unpinned == \A p \in Procs : pins[p] = 0

Init ==
    /\ artifact \in [gen : {0}, content : {"absent", "whole", "damaged"}]
    /\ pins = [p \in Procs |-> 0]

Publish ==
    /\ Unpinned
    /\ artifact' = [gen |-> artifact.gen + 1, content |-> "whole"]
    /\ UNCHANGED pins

Remove ==
    /\ Unpinned
    /\ artifact' = [artifact EXCEPT !.content = "absent"]
    /\ UNCHANGED pins

Pin(p) ==
    /\ Readable
    /\ pins' = [pins EXCEPT ![p] = @ + 1]
    /\ UNCHANGED artifact

(* The process ends, and its references with it.                           *)
Drop(p) ==
    /\ pins' = [pins EXCEPT ![p] = 0]
    /\ UNCHANGED artifact

Next == Publish \/ Remove \/ \E p \in Procs : Pin(p) \/ Drop(p)

Spec == Init /\ [][Next]_<<artifact, pins>>
=============================================================================
