----------------------------- MODULE MCTopicPull -----------------------------
(* TopicPull for TLC: two topics; each scenario is a mode of the worker    *)
(* with its own small budget of fetches, cancels and faults.               *)
EXTENDS TopicPull

CONSTANTS t1, t2

MCTopics == {t1, t2}

Scenario(rt, sv, f, c, x) ==
    [runtime |-> rt, save |-> sv, fetches |-> f, cancels |-> c, faults |-> x]

MCScenarios ==
    {Scenario(rt, sv, 2, 1, 1) : rt \in BOOLEAN, sv \in BOOLEAN}
        \union {Scenario(rt, TRUE, 1, 2, 1) : rt \in BOOLEAN}
=============================================================================
