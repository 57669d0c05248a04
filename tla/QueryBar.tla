------------------------------- MODULE QueryBar -------------------------------
(***************************************************************************)
(* The metadata query of the panel: the text the user edits, the parser    *)
(* that expands the shorthand, the Lua engine that decides which rows stay *)
(* visible, and the Key / Op / Value dropdowns that rewrite the text at    *)
(* the caret.  Sources: query/ast.h, query.h, engine.h, edit.h,            *)
(* complete.h, query_filter.h and the query handlers of                    *)
(* mcap_cloud_dialog.cpp.                                                  *)
(*                                                                         *)
(* The text is its sequence of tokens, blanks between them.  A Value token *)
(* is a quoted string or a bare number; a metadata value is text.  The     *)
(* caret touches a token, or stands in the blanks after one.  Lua itself   *)
(* is not of this repository: LuaParse and LuaValue are its grammar and    *)
(* semantics over these tokens.                                            *)
(***************************************************************************)
EXTENDS Integers, Sequences, SequencesExt, FiniteSets

CONSTANTS Keys,      \* the schema: canonical metadata keys
          Numbers,   \* metadata values that read as numbers
          Words,     \* metadata values that do not
          Rows,      \* the listed rows: functions Keys -> value or Missing
          Pieces,    \* what the user types or pastes at the end of the text
          MaxEdits,  \* bound: edits of the text
          MaxMoves   \* bound: the length of a text the caret is moved in

Missing == ""
Operators == {"==", "~="}
Values == Numbers \cup Words

ASSUME QueryConstants ==
    /\ Missing \notin Values /\ Numbers \cap Words = {}
    /\ Rows \subseteq [Keys -> Values \cup {Missing}]
    /\ MaxEdits \in Nat /\ MaxMoves \in Nat

VARIABLES text,   \* state_.query_text, as the Lexer splits it
          caret,  \* state_.query_cursor: [on, at]
          edits   \* edits so far

vars == <<text, caret, edits>>

Tok(type, t) == [type |-> type, t |-> t, quoted |-> FALSE]
Key(k) == Tok("Key", k)
Op(op) == Tok("Operator", op)
Quoted(v) == [type |-> "Value", t |-> v, quoted |-> TRUE]
Bare(n) == Tok("Value", n)
And == Tok("And", "and")
Or == Tok("Or", "or")
Not == Tok("Not", "not")
Open == Tok("OpenParen", "(")
Close == Tok("CloseParen", ")")

TypeAt(s, i) == IF i \in DOMAIN s THEN s[i].type ELSE "none"

-----------------------------------------------------------------------------
(* The parser.  A parse function returns the tree (or Null), the next      *)
(* position, and the key and operator remembered for the shorthand.        *)

Null == [node |-> "Null"]
Compare(k, op, v) == [node |-> "Compare", toks |-> <<k, op, v>>]
Partial(k, op) == [node |-> "Partial", toks |-> <<k, op>>]
KeyExpr(k) == [node |-> "Key", toks |-> <<k>>]
Binary(l, c, r) == [node |-> "Binary", left |-> l, conn |-> c, right |-> r]
NotExpr(e) == [node |-> "Not", of |-> e]
Group(e) == [node |-> "Group", of |-> e]

Result(e, pos, last) == [e |-> e, pos |-> pos, last |-> last]
NoLast == <<>>

RECURSIVE parse_or(_, _, _), parse_primary(_, _, _), parse_unary(_, _, _)
RECURSIVE Chain(_, _, _, _)

(* The loop of parse_or and parse_and: operands joined by the connective,  *)
(* ended by an operand that is missing.                                    *)
Operand(s, conn, pos, last) ==
    IF conn = "Or" THEN Chain(s, "And", parse_unary(s, pos, last), FALSE)
    ELSE parse_unary(s, pos, last)

(* Mutant of Chain: a connective without an operand is given back.         *)
ChainGivesBack(s, conn, left, broken) ==
    IF left.e = Null \/ TypeAt(s, left.pos) # conn THEN left
    ELSE LET right == Operand(s, conn, left.pos + 1, left.last) IN
         IF right.e = Null THEN left
         ELSE Chain(s, conn, Result(Binary(left.e, s[left.pos], right.e),
                                    right.pos, right.last), FALSE)

Chain(s, conn, left, broken) ==
    IF broken \/ left.e = Null \/ TypeAt(s, left.pos) # conn THEN left
    ELSE LET right == Operand(s, conn, left.pos + 1, left.last) IN
         Chain(s, conn,
               Result(IF right.e = Null THEN left.e
                      ELSE Binary(left.e, s[left.pos], right.e),
                      right.pos, right.last),
               right.e = Null)

parse_or(s, pos, last) == Chain(s, "Or", Operand(s, "Or", pos, last), FALSE)

parse_unary(s, pos, last) ==
    IF TypeAt(s, pos) # "Not" THEN parse_primary(s, pos, last)
    ELSE LET operand == parse_unary(s, pos + 1, last) IN
         [operand EXCEPT !.e = IF @ = Null THEN Null ELSE NotExpr(@)]

GroupEnds(s, inner) ==
    IF TypeAt(s, inner.pos) = "CloseParen"
    THEN Result(Group(inner.e), inner.pos + 1, inner.last)
    ELSE inner

(* The key and operator of a clause, remembered for the shorthand.         *)
SeenFirst(s, pos, last) == IF last = NoLast THEN <<s[pos], s[pos + 1]>> ELSE last
Seen(s, pos, last) == <<s[pos], s[pos + 1]>>

(* A value on its own inherits the key and operator seen last.             *)
parse_primary(s, pos, last) ==
    LET type == TypeAt(s, pos) IN
    CASE type = "none" -> Result(Null, pos, last)
      [] type = "OpenParen" -> GroupEnds(s, parse_or(s, pos + 1, last))
      [] type = "Value" /\ last # NoLast ->
            Result(Compare(last[1], last[2], s[pos]), pos + 1, last)
      [] type = "Key" /\ TypeAt(s, pos + 1) # "Operator" ->
            Result(KeyExpr(s[pos]), pos + 1, last)
      [] type = "Key" /\ TypeAt(s, pos + 1) = "Operator" ->
            LET seen == Seen(s, pos, last) IN
            IF TypeAt(s, pos + 2) = "Value"
            THEN Result(Compare(s[pos], s[pos + 1], s[pos + 2]), pos + 3, seen)
            ELSE Result(Partial(s[pos], s[pos + 1]), pos + 2, seen)
      [] OTHER -> Result(Null, pos + 1, last)

RECURSIVE check_complete(_)
check_complete(e) ==
    CASE e.node = "Compare" -> TRUE
      [] e.node = "Binary" -> check_complete(e.left) /\ check_complete(e.right)
      [] e.node \in {"Not", "Group"} -> check_complete(e.of)
      [] OTHER -> FALSE

RECURSIVE serialize(_)
serialize(e) ==
    CASE e.node = "Null" -> <<>>
      [] e.node = "Binary" -> serialize(e.left) \o <<e.conn>> \o serialize(e.right)
      [] e.node = "Not" -> <<Not>> \o serialize(e.of)
      [] e.node = "Group" -> <<Open>> \o serialize(e.of) \o <<Close>>
      [] OTHER -> e.toks

(* Parser::parse and the constructor of Query: the expansion of a complete *)
(* parse, otherwise the source as it is.                                   *)
Query(s) ==
    LET r == parse_or(s, 1, NoLast)
        leftover == r.pos <= Len(s)
        complete == ~leftover /\ check_complete(r.e) IN
    [ast |-> r.e, complete |-> complete, leftover |-> leftover,
     lua |-> IF complete THEN serialize(r.e) ELSE s]

(* expand(): the same expansion on the token list, a connective and a bare *)
(* value at a time; fewer than four tokens are left alone.                 *)
RECURSIVE ExpandFrom(_, _, _)
ExpandFrom(s, i, last) ==
    CASE i > Len(s) -> <<>>
      [] TypeAt(s, i) = "Key" /\ TypeAt(s, i + 1) = "Operator" ->
            <<s[i], s[i + 1]>> \o ExpandFrom(s, i + 2, <<s[i], s[i + 1]>>)
      [] /\ TypeAt(s, i) \in {"And", "Or"} /\ TypeAt(s, i + 1) = "Value"
         /\ last # NoLast ->
            <<s[i]>> \o last \o <<s[i + 1]>> \o ExpandFrom(s, i + 2, last)
      [] OTHER -> <<s[i]>> \o ExpandFrom(s, i + 1, last)

expand(s) == IF Len(s) < 4 THEN s ELSE ExpandFrom(s, 1, NoLast)

-----------------------------------------------------------------------------
(* Lua: or, and, comparison, not, in the order they bind; a string or an   *)
(* argument list after a name or a parenthesis is a call.                  *)

Bad == [node |-> "Bad"]

RECURSIVE LuaExp(_, _, _), LuaRest(_, _, _), LuaSuffix(_, _, _)

Level == <<{"Or"}, {"And"}, {"Operator"}>>

LuaAtom(s, pos) ==
    LET type == TypeAt(s, pos) IN
    CASE type = "Key" ->
            LuaSuffix(s, [node |-> "Name", tok |-> s[pos]], pos + 1)
      [] type = "Value" ->
            Result([node |-> "Literal", tok |-> s[pos]], pos + 1, NoLast)
      [] type = "OpenParen" ->
            LET inner == LuaExp(s, 1, pos + 1) IN
            IF inner.e # Bad /\ TypeAt(s, inner.pos) = "CloseParen"
            THEN LuaSuffix(s, inner.e, inner.pos + 1)
            ELSE Result(Bad, pos, NoLast)
      [] OTHER -> Result(Bad, pos, NoLast)

LuaSuffix(s, e, pos) ==
    LET call == [node |-> "Call"] IN
    CASE TypeAt(s, pos) = "Value" /\ s[pos].quoted -> LuaSuffix(s, call, pos + 1)
      [] TypeAt(s, pos) = "OpenParen" ->
            IF TypeAt(s, pos + 1) = "CloseParen" THEN LuaSuffix(s, call, pos + 2)
            ELSE LET arg == LuaExp(s, 1, pos + 1) IN
                 IF arg.e # Bad /\ TypeAt(s, arg.pos) = "CloseParen"
                 THEN LuaSuffix(s, call, arg.pos + 1)
                 ELSE Result(Bad, pos, NoLast)
      [] OTHER -> Result(e, pos, NoLast)

LuaExp(s, level, pos) ==
    IF level <= Len(Level) THEN LuaRest(s, level, LuaExp(s, level + 1, pos))
    ELSE IF TypeAt(s, pos) = "Not"
         THEN LET e == LuaExp(s, level, pos + 1) IN
              [e EXCEPT !.e = IF @ = Bad THEN Bad ELSE NotExpr(@)]
         ELSE LuaAtom(s, pos)

LuaRest(s, level, left) ==
    IF left.e = Bad \/ TypeAt(s, left.pos) \notin Level[level] THEN left
    ELSE LET right == LuaExp(s, level + 1, left.pos + 1) IN
         LuaRest(s, level,
                 Result(IF right.e = Bad THEN Bad
                        ELSE Binary(left.e, s[left.pos], right.e),
                        right.pos, NoLast))

(* The chunk "return (" .. lua .. ")".                                     *)
LuaParse(lua) ==
    LET chunk == <<Open>> \o lua \o <<Close>>
        r == LuaExp(chunk, 1, 1) IN
    IF r.pos = Len(chunk) + 1 THEN r.e ELSE Bad

Val(kind, v) == [kind |-> kind, v |-> v]
Nil == Val("nil", "")
Bool(b) == Val("boolean", IF b THEN "true" ELSE "false")
Raised == Val("error", "")

truthy(v) == v \notin {Nil, Raised, Bool(FALSE)}

(* Engine::set: a value that reads as a number becomes one.                *)
GlobalText(row, k) ==
    IF row[k] = Missing THEN Nil ELSE Val("string", row[k])
Global(row, k) ==
    IF row[k] = Missing THEN Nil
    ELSE Val(IF row[k] \in Numbers THEN "number" ELSE "string", row[k])

RECURSIVE LuaValue(_, _)
LuaValue(e, row) ==
    CASE e.node = "Name" -> Global(row, e.tok.t)
      [] e.node = "Literal" ->
            Val(IF e.tok.quoted THEN "string" ELSE "number", e.tok.t)
      [] e.node = "Call" -> Raised
      [] e.node = "Not" ->
            LET v == LuaValue(e.of, row) IN
            IF v = Raised THEN v ELSE Bool(~truthy(v))
      [] e.node = "Binary" ->
            LET l == LuaValue(e.left, row)
                r == LuaValue(e.right, row)
                type == e.conn.type IN
            CASE l = Raised -> l
              [] type = "Or" /\ truthy(l) -> l
              [] type = "And" /\ ~truthy(l) -> l
              [] type \in {"Or", "And"} \/ r = Raised -> r
              [] OTHER -> Bool((l = r) <=> e.conn.t = "==")

(* Engine::validate gates the query: one Lua cannot read hides no row.     *)
computeVisibleSequences(s) ==
    LET chunk == LuaParse(Query(s).lua) IN
    IF s = <<>> \/ chunk = Bad THEN Rows
    ELSE {row \in Rows : truthy(LuaValue(chunk, row))}

-----------------------------------------------------------------------------
(* The assist: what the caret's place calls for, and the dropdowns.        *)

On(i) == [on |-> TRUE, at |-> i]
Blank(i) == [on |-> FALSE, at |-> i]
Carets(s) == {On(i) : i \in DOMAIN s} \cup {Blank(i) : i \in 0..Len(s)}

(* After the token the caret touches (the override of analyze).            *)
ExpectAfter(type) ==
    CASE type = "Key" -> "Operator"
      [] type = "Operator" -> "Value"
      [] type \in {"Value", "CloseParen"} -> "Connective"
      [] OTHER -> "Key"

(* complete(), on the tokens before the blanks the caret is in.            *)
ExpectHere(s, i) ==
    LET type == TypeAt(s, i) IN
    CASE i = 0 -> "Any"
      [] type \in {"And", "Or", "Not", "OpenParen"} -> "Key"
      [] type = "Operator" -> "Value"
      [] \/ type \in {"Key", "Value"} /\ i >= 3 /\ TypeAt(s, i - 1) = "Operator"
         \/ type = "CloseParen" -> "Connective"
      [] type = "Key" /\ ~(i >= 3 /\ TypeAt(s, i - 1) = "Operator") -> "Operator"
      [] OTHER -> "Key"

Expect(s, c) == IF c.on THEN ExpectAfter(TypeAt(s, c.at)) ELSE ExpectHere(s, c.at)

(* context_key, as the place of the operator it stands before.             *)
OperatorAt(s, c) ==
    CASE TypeAt(s, c.at) = "Operator" -> c.at
      [] TypeAt(s, c.at) = "Value" /\ c.on -> c.at - 1
      [] OTHER -> 0

schemaValues(s, c) ==
    LET op == OperatorAt(s, c) IN
    IF TypeAt(s, op) = "Operator" /\ TypeAt(s, op - 1) = "Key"
    THEN {row[s[op - 1].t] : row \in Rows} \ {Missing}
    ELSE {}

Inserted(type) ==
    CASE type = "Key" -> {"Key", "Any", "Connective"}
      [] type = "Operator" -> {"Operator"}
      [] type = "Value" -> {"Value"}

ActionByBlanks(s, c, type) ==
    CASE c.on /\ TypeAt(s, c.at) = type -> "Replace"
      [] ExpectHere(s, c.at) \in Inserted("Key") /\ ~(c.on /\ TypeAt(s, c.at) = type) -> "Insert"
      [] OTHER -> "Disabled"
Action(s, c, type) ==
    CASE c.on /\ TypeAt(s, c.at) = type -> "Replace"
      [] Expect(s, c) \in Inserted(type) /\ ~(c.on /\ TypeAt(s, c.at) = type) -> "Insert"
      [] OTHER -> "Disabled"

(* A word lands as a Value only in quotes; a number is inserted bare.      *)
quoteAlways(v) == Quoted(v)
quoteValueForQuery(v) == IF v \in Numbers THEN Bare(v) ELSE Quoted(v)

applyCompletion(action, item) ==
    /\ text' = IF action = "Replace" THEN [text EXCEPT ![caret.at] = item]
               ELSE InsertAt(text, caret.at + 1, item)
    /\ caret' \in
         CASE action = "Replace" /\ caret.at < Len(text) -> {caret}
           [] action = "Replace" /\ caret.at = Len(text) -> {caret, Blank(caret.at)}
           [] action = "Insert" /\ (caret.on \/ caret.at = Len(text)) ->
                 {Blank(caret.at + 1)}
           [] OTHER -> {Blank(caret.at + 1), On(caret.at + 2)}

-----------------------------------------------------------------------------
Init == text = <<>> /\ caret = Blank(0) /\ edits = 0

Edit == edits < MaxEdits /\ edits' = edits + 1

(* onCodeChangedWithCursor: the editor reports its text and its caret.     *)
onCodeChanged(code) ==
    /\ Edit
    /\ text' = code
    /\ caret' \in {On(Len(code)), Blank(Len(code))} \cap Carets(code)

caretMoves ==
    /\ Len(text) <= MaxMoves
    /\ caret' \in Carets(text)
    /\ UNCHANGED <<text, edits>>

(* onIndexChanged of keyCombo, opCombo and valCombo.                       *)
pick(type, item) ==
    /\ Edit
    /\ Action(text, caret, type) # "Disabled"
    /\ applyCompletion(Action(text, caret, type), item)

pickKey(k) == pick("Key", Key(k))
pickOp(op) == pick("Operator", Op(op))
pickValue(v) == pick("Value", quoteValueForQuery(v))

Next ==
    \/ \E piece \in Pieces : onCodeChanged(text \o piece)
    \/ text # <<>> /\ onCodeChanged(Front(text))
    \/ caretMoves
    \/ \E k \in Keys : pickKey(k)
    \/ \E op \in Operators : pickOp(op)
    \/ \E v \in schemaValues(text, caret) : pickValue(v)

Spec == Init /\ [][Next]_vars

-----------------------------------------------------------------------------
(* The caret is a place of the text, whatever the dropdowns rewrote.       *)
TypeOK == caret \in Carets(text) /\ edits \in 0..MaxEdits

(* What a clause says of a row: the value is the row's, and a literal that *)
(* is quoted is not a number.                                              *)
Holds(clause, row) ==
    LET same == /\ row[clause[1].t] = clause[3].t
                /\ clause[3].quoted <=> clause[3].t \notin Numbers IN
    same <=> clause[2].t = "=="

RECURSIVE Meaning(_, _)
Meaning(e, row) ==
    CASE e.node = "Compare" -> Holds(e.toks, row)
      [] e.node = "Not" -> ~Meaning(e.of, row)
      [] e.node = "Group" -> Meaning(e.of, row)
      [] e.node = "Binary" /\ e.conn = And ->
            Meaning(e.left, row) /\ Meaning(e.right, row)
      [] e.node = "Binary" /\ e.conn = Or ->
            Meaning(e.left, row) \/ Meaning(e.right, row)

RECURSIVE NotsGrouped(_)
NotsGrouped(e) ==
    CASE e.node = "Not" -> e.of.node \in {"Not", "Group"} /\ NotsGrouped(e.of)
      [] e.node = "Group" -> NotsGrouped(e.of)
      [] e.node = "Binary" -> NotsGrouped(e.left) /\ NotsGrouped(e.right)
      [] OTHER -> TRUE

(* The rows a complete query leaves visible are those its tree is true of: *)
(* the flat text serialize hands to Lua binds as the parser bound it, and  *)
(* Lua compares the values Engine::set gave it as the clause means them.   *)
(* `not' before a bare clause is left out: Lua's not binds tighter than    *)
(* its comparison (see the README).                                        *)
LuaAgreesWithTree ==
    LET q == Query(text) IN
    q.complete /\ NotsGrouped(q.ast) =>
        computeVisibleSequences(text) = {row \in Rows : Meaning(q.ast, row)}

(* The two expansions of the shorthand, the parser's and expand()'s, agree *)
(* on every complete query: a bare value stands for the clause written     *)
(* last before it, across groups and connectives.                          *)
ExpansionsAgree ==
    Query(text).complete => Query(expand(text)).lua = Query(text).lua

(* The parser kept every token, but for a connective at the end.           *)
Kept(s) == Query(s).ast # Null /\ serialize(Query(s).ast) = expand(s)
Whole(s) ==
    \/ s = <<>> \/ Kept(s)
    \/ TypeAt(s, Len(s)) \in {"And", "Or"} /\ Kept(Front(s))

AtEnd == caret.at = Len(text)
AfterClause == TypeAt(text, caret.at) \in {"Value", "CloseParen"}
Picks == \/ \E k \in Keys : ~AfterClause /\ pickKey(k)
         \/ \E op \in Operators : pickOp(op)
         \/ \E v \in schemaValues(text, caret) : pickValue(v)

(* Building with the dropdowns keeps the query readable: a pick at the end *)
(* of the text adds no token the parser is left over with, and one that    *)
(* replaces a token anywhere keeps a complete query complete.  A key       *)
(* picked right after a finished clause is excepted: it is inserted with   *)
(* no connective.                                                          *)
AssistKeepsParse ==
    [][Picks =>
          /\ AtEnd /\ Whole(text) => Kept(text')
          /\ Len(text') = Len(text) => Query(text').complete = Query(text).complete]_vars

(* A value picked for a key finds the rows that have it: what              *)
(* quoteValueForQuery writes is read back by Lua as the value Engine::set  *)
(* stored, for numbers and for words.                                      *)
PickedValueMatches ==
    [][\A v \in schemaValues(text, caret) : pickValue(v) =>
          LET i == IF Len(text') = Len(text) THEN caret.at ELSE caret.at + 1
              clause == SubSeq(text', i - 2, i) IN
          computeVisibleSequences(clause) =
              {row \in Rows : row[clause[1].t] = v <=> clause[2].t = "=="}]_vars

(* Going on to a next clause changes no row: after a complete query the    *)
(* connective, and the parentheses and nots that may follow it, leave the  *)
(* rows as they were until a key or a value is typed.                      *)
ConnectiveKeepsRows == \A n \in DOMAIN text :
    LET query == SubSeq(text, 1, n) IN
    /\ TypeAt(text, n) = "Value" /\ Query(query).complete
    /\ TypeAt(text, n + 1) \in {"And", "Or"}
    /\ \A i \in n + 2 .. Len(text) : TypeAt(text, i) \in {"Not", "OpenParen"}
    => computeVisibleSequences(text) = computeVisibleSequences(query)

(* A query means one thing, to the tree parser, to both expansions and to  *)
(* Lua, and goes on meaning it while the next clause is begun.             *)
OneMeaning ==
    TypeOK /\ LuaAgreesWithTree /\ ExpansionsAgree /\ ConnectiveKeepsRows
=============================================================================
