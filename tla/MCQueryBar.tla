------------------------------ MODULE MCQueryBar ------------------------------
(* TLC instance of QueryBar: a text key and a numeric one, rows with and    *)
(* without each.                                                           *)
EXTENDS QueryBar

MCRows == {row \in [Keys -> Values \cup {Missing}] :
              row["robot"] \notin Numbers /\ row["speed"] \notin Words}

Clause(k, op, v) == <<Key(k), Op(op), v>>
MCPieces == {Clause("robot", "==", Quoted("arm")), Clause("speed", "~=", Bare("1")),
             <<Quoted("cart")>>, <<Bare("2")>>, <<Key("robot")>>, <<Op("==")>>,
             <<And>>, <<Or>>, <<Not>>, <<Open>>, <<Close>>}
=============================================================================
