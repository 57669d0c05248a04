---------------------------- MODULE MCBrowseGate ----------------------------
(* Two servers: srvA is rebuilt twice (a file moves, a site goes away),     *)
(* srvB shares a customer and a file with it.  Files 3 and 4 shorten to the *)
(* same name, and so do 1 and 5.                                           *)
EXTENDS BrowseGate, TLC

CONSTANTS srvA, srvB, acme, beta, north, south, rob1, rob2

p1 == [c |-> acme, s |-> north, r |-> rob1]
p2 == [c |-> acme, s |-> south, r |-> rob1]
p3 == [c |-> acme, s |-> south, r |-> rob2]
q1 == [c |-> beta, s |-> north, r |-> rob1]
MCPath == {p1, p2, p3, q1}
MCPathOf == 1 :> p1 @@ 2 :> p1 @@ 3 :> p1 @@ 4 :> p1 @@ 5 :> p1 @@ 6 :> p2 @@ 7 :> p2
MCShortOf == 1 :> 1 @@ 2 :> 2 @@ 3 :> 3 @@ 4 :> 3 @@ 5 :> 1 @@ 6 :> 6 @@ 7 :> 7
MCSourceOf == [f \in 1..7 |-> IF f \in {1, 6} THEN "x" ELSE "y"]
MCVocab == srvA :> <<{p1, p2, p3}, {p1, p2}, {p2}>> @@ srvB :> <<{p1, q1}>>
MCFiles == srvA :> <<{1, 2, 3, 4, 6}, {1, 2, 5, 6, 7}, {6, 7}>> @@ srvB :> <<{1, 2}>>
Kinds == {"connect", "refresh", "pick", "sort", "filter", "select", "tag", "rebuild", "drop", "fail"}
Start(last, before, src, spent) ==
    [last |-> last, legacy |-> before, source |-> src,
     budget |-> [k \in Kinds |-> IF k \in DOMAIN spent THEN spent[k] ELSE 0]]
Before(site) == [c |-> acme, s |-> site, r |-> None]
MCSettings ==
    {Start(srvB, NoPick, None, "connect" :> 1 @@ "pick" :> 2 @@ "fail" :> 1),
     Start(srvA, Before(north), "z", "connect" :> 1 @@ "pick" :> 1 @@ "rebuild" :> 2),
     Start(srvA, Before(north), None, "select" :> 1 @@ "tag" :> 1 @@ "rebuild" :> 1 @@ "filter" :> 1 @@ "fail" :> 1),
     Start(srvA, Before(north), None, "select" :> 1 @@ "drop" :> 1 @@ "refresh" :> 1 @@ "connect" :> 1),
     Start(srvA, Before(south), None, "sort" :> 1 @@ "pick" :> 1 @@ "rebuild" :> 1 @@ "tag" :> 1 @@ "select" :> 1)}
TwoServers == {Start(srvB, Before(north), None, "select" :> 2 @@ "connect" :> 1 @@ "pick" :> 1)}
=============================================================================
