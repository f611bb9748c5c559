---------------------------- MODULE ContentFilter ----------------------------
(***************************************************************************)
(* The content-filter predicates of cfilter/cfilter.go: a recursive-descent*)
(* parser over the tokens of an expression, and the evaluation of the      *)
(* closures it builds on a sample's JSON payload.                          *)
(*                                                                         *)
(* An expression is a sequence of tokens: "x" and "y" are field names, "n" *)
(* a number literal, "s" a quoted string, "p0" and "p1" the placeholders   *)
(* %0 and %1, and the rest are the language's own words.  What splits the  *)
(* characters into tokens is left out.  A closure is the tree it closes    *)
(* over, and a value is its type and its rank within the type.             *)
(***************************************************************************)
EXTENDS Integers, Sequences, SequencesExt, FiniteSets

CONSTANTS Words,      \* the token runs an expression is typed from
          MaxWords,   \* bound: the words of one expression
          Literal,    \* the value of "n" and of "s"
          Params,     \* the values %0, %1, ... are bound to, in order
          Payloads    \* the payloads a sample may carry: [json, fields]

VARIABLES toks,       \* the expression as typed so far
          typed,      \* how many words that took
          expr,       \* the compiled filter: Pending, Rejected, or a tree
          last        \* the payload last evaluated, and the verdict

cvars == <<toks, typed, expr, last>>

Pending == [node |-> "pending"]
Rejected == [node |-> "error"]
NoVerdict == [verdict |-> "none"]

Operators == {"=", "<>", ">", ">=", "<", "<="}
Fields == {"x", "y"}
Placeholders == {"p0", "p1"}

-----------------------------------------------------------------------------
(* Parsing.  Every parse function returns the tree and the position it     *)
(* stopped at; an error carries no position worth reading.                 *)

peek(s, pos) == IF pos <= Len(s) THEN s[pos] ELSE "EOF"

Failed == [tree |-> Rejected, pos |-> 0]

Ok(r) == r.tree # Rejected

(* A placeholder outside the bound parameters is an error, as is any token *)
(* that is not an operand.                                                 *)
parseOperand(s, pos) ==
  LET t == peek(s, pos)
      index == IF t = "p0" THEN 1 ELSE 2
      read(leaf) == [tree |-> leaf, pos |-> pos + 1]
  IN CASE t \in Fields -> read([node |-> "field", name |-> t])
       [] t \in {"n", "s"} -> read([node |-> "value", value |-> Literal[t]])
       [] t \in Placeholders /\ index <= Len(Params) ->
            read([node |-> "value", value |-> Params[index]])
       [] OTHER -> Failed

parseComparison(s, pos) ==
  LET left == parseOperand(s, pos)
      op == peek(s, left.pos)
      right == parseOperand(s, left.pos + 1)
  IN IF Ok(left) /\ op \in Operators /\ Ok(right)
     THEN [tree |-> [node |-> "compare", op |-> op, l |-> left.tree, r |-> right.tree],
           pos |-> right.pos]
     ELSE Failed

RECURSIVE parseOr(_, _), parseAnd(_, _), parseUnary(_, _), More(_, _, _)

\* (a bug for the checks: NOT takes the whole expression that follows)
parseUnaryLoose(s, pos) ==
  CASE peek(s, pos) = "NOT" ->
         LET inner == parseAnd(s, pos + 1)
         IN IF Ok(inner) THEN [tree |-> [node |-> "not", l |-> inner.tree], pos |-> inner.pos]
                         ELSE Failed
    [] peek(s, pos) = "(" ->
         LET inner == parseOr(s, pos + 1)
         IN IF Ok(inner) /\ peek(s, inner.pos) = ")"
            THEN [inner EXCEPT !.pos = @ + 1] ELSE Failed
    [] OTHER -> parseComparison(s, pos)

(* NOT takes the next unary only, so it binds tighter than AND and OR.     *)
parseUnary(s, pos) ==
  CASE peek(s, pos) = "NOT" ->
         LET inner == parseUnary(s, pos + 1)
         IN IF Ok(inner) THEN [tree |-> [node |-> "not", l |-> inner.tree], pos |-> inner.pos]
                         ELSE Failed
    [] peek(s, pos) = "(" ->
         LET inner == parseOr(s, pos + 1)
         IN IF Ok(inner) /\ peek(s, inner.pos) = ")"
            THEN [inner EXCEPT !.pos = @ + 1] ELSE Failed
    [] OTHER -> parseComparison(s, pos)

(* The loop both levels share: while the next token is the level's word,   *)
(* parse one more operand of the level and join it on the left.            *)
More(s, word, left) ==
  LET right == IF word = "OR" THEN parseAnd(s, left.pos + 1) ELSE parseUnary(s, left.pos + 1)
      join == [tree |-> [node |-> word, l |-> left.tree, r |-> right.tree], pos |-> right.pos]
  IN IF peek(s, left.pos) # word THEN left
     ELSE IF Ok(right) THEN More(s, word, join) ELSE Failed

parseAnd(s, pos) ==
  LET left == parseUnary(s, pos) IN IF Ok(left) THEN More(s, "AND", left) ELSE Failed

parseOr(s, pos) ==
  LET left == parseAnd(s, pos) IN IF Ok(left) THEN More(s, "OR", left) ELSE Failed

\* (a bug for the checks: tokens left over are not an error)
ParsePrefix(s) ==
  LET r == parseOr(s, 1) IN IF Ok(r) THEN r.tree ELSE Rejected

(* Parse: every token must have been consumed.                             *)
Parse(s) ==
  LET r == parseOr(s, 1) IN IF Ok(r) /\ r.pos = Len(s) + 1 THEN r.tree ELSE Rejected

-----------------------------------------------------------------------------
(* Evaluation.                                                             *)

(* A parameter whose text is a number compares as a number.                *)
normalizeParam(v) ==
  IF v.type = "param"
  THEN IF v.numeric THEN [type |-> "num", rank |-> v.rank] ELSE [type |-> "str", rank |-> v.rank]
  ELSE v

compareOrdered(l, r, op) ==
  CASE op = "=" -> l = r
    [] op = "<>" -> l # r
    [] op = ">" -> l > r
    [] op = ">=" -> l >= r
    [] op = "<" -> l < r
    [] op = "<=" -> l <= r

(* Only two numbers or two strings compare: anything else is FALSE for     *)
(* every operator, <> included.                                            *)
Comparable(l, r) == l.type = r.type /\ l.type \in {"num", "str"}

compare(lv, rv, op) ==
  LET l == normalizeParam(lv)
      r == normalizeParam(rv)
  IN Comparable(l, r) /\ compareOrdered(l.rank, r.rank, op)

(* The operands of a comparison: a field the payload lacks is not present. *)
Present(tree, fields) == tree.node = "value" \/ tree.name \in DOMAIN fields
Resolve(tree, fields) == IF tree.node = "value" THEN tree.value ELSE fields[tree.name]

RECURSIVE eval(_, _)
eval(tree, fields) ==
  CASE tree.node = "OR" -> eval(tree.l, fields) \/ eval(tree.r, fields)
    [] tree.node = "AND" -> eval(tree.l, fields) /\ eval(tree.r, fields)
    [] tree.node = "not" -> ~eval(tree.l, fields)
    [] tree.node = "compare" ->
         /\ Present(tree.l, fields)
         /\ Present(tree.r, fields)
         /\ compare(Resolve(tree.l, fields), Resolve(tree.r, fields), tree.op)

(* Expr.Eval: a payload that does not decode into an object is FALSE.  A   *)
(* JSON null does decode, into a map with no fields.                       *)
Eval(tree, payload) ==
  payload.json \in {"object", "null"} /\ eval(tree, payload.fields)

-----------------------------------------------------------------------------

Init ==
  /\ toks = <<>>
  /\ typed = 0
  /\ expr = Pending
  /\ last = NoVerdict

(* The application writes its expression.                                  *)
Type(w) ==
  /\ expr = Pending
  /\ typed < MaxWords
  /\ toks' = toks \o w
  /\ typed' = typed + 1
  /\ UNCHANGED <<expr, last>>

(* NewFilteredSubscriber, or a writer that learns a reader's filter.       *)
Compile ==
  /\ expr = Pending
  /\ expr' = Parse(toks)
  /\ UNCHANGED <<toks, typed, last>>

(* A sample meets the filter.                                              *)
Deliver(payload) ==
  /\ expr \notin {Pending, Rejected}
  /\ last' = [verdict |-> IF Eval(expr, payload) THEN "pass" ELSE "drop", payload |-> payload]
  /\ UNCHANGED <<toks, typed, expr>>

Next ==
  \/ \E w \in Words : Type(w)
  \/ Compile
  \/ \E payload \in Payloads : Deliver(payload)

Spec == Init /\ [][Next]_cvars

-----------------------------------------------------------------------------
(* The grammar of the package comment as a reference: a predicate is split *)
(* at its last OR outside parentheses, failing that at its last AND, then  *)
(* a leading NOT is taken off, then the parentheses, and what is left must *)
(* be a comparison.                                                        *)

Depth(s, i) ==
  Cardinality({j \in 1..i : s[j] = "("}) - Cardinality({j \in 1..i : s[j] = ")"})

Splits(s, word) == {i \in 2..(Len(s) - 1) : s[i] = word /\ Depth(s, i) = 0}

LastOf(S) == CHOOSE i \in S : \A j \in S : j <= i

(* What a comparison is between: the grammar's "field op value | value op  *)
(* field", and what parseComparison takes.                                 *)
GrammarPairs == {<<"field", "value">>, <<"value", "field">>}
AnyPair == {"field", "value"} \X {"field", "value"}

RECURSIVE Means(_, _, _)

(* What the reference says of s on a payload: "error" if the grammar with  *)
(* those pairs does not derive it; "void" if a comparison that decides it  *)
(* cannot be made; else "pass" or "drop".                                  *)
Means(s, fields, pairs) ==
  LET both(word) ==
        LET i == LastOf(Splits(s, word))
            of == {Means(SubSeq(s, 1, i - 1), fields, pairs),
                   Means(SubSeq(s, i + 1, Len(s)), fields, pairs)}
        IN CASE "error" \in of -> "error"
             [] "error" \notin of /\ (of = {"pass"} \/ (word = "OR" /\ "pass" \in of)) -> "pass"
             [] OTHER -> IF "void" \in of THEN "void" ELSE "drop"
      inner == Means(SubSeq(s, 2, Len(s)), fields, pairs)
      value(t) == normalizeParam(CASE t \in Fields -> fields[t]
                                   [] t \in {"n", "s"} -> Literal[t]
                                   [] OTHER -> Params[IF t = "p0" THEN 1 ELSE 2])
      known(t) == t \notin Fields \/ t \in DOMAIN fields
      kind(t) == CASE t \in Fields -> "field"
                   [] \/ t \in {"n", "s"}
                      \/ t = "p0" /\ Len(Params) >= 1
                      \/ t = "p1" /\ Len(Params) >= 2 -> "value"
                   [] OTHER -> "none"
  IN CASE Splits(s, "OR") # {} -> both("OR")
       [] Splits(s, "OR") = {} /\ Splits(s, "AND") # {} -> both("AND")
       [] Splits(s, "OR") = {} /\ Splits(s, "AND") = {} ->
            IF Len(s) > 1 /\ s[1] = "NOT"
            THEN CASE inner = "pass" -> "drop" [] inner = "drop" -> "pass" [] OTHER -> inner
            ELSE IF Len(s) > 2 /\ s[1] = "(" /\ s[Len(s)] = ")"
                    /\ \A i \in 1..(Len(s) - 1) : Depth(s, i) > 0
            THEN Means(SubSeq(s, 2, Len(s) - 1), fields, pairs)
            ELSE IF Len(s) = 3 /\ s[2] \in Operators /\ <<kind(s[1]), kind(s[3])>> \in pairs
            THEN IF ~known(s[1]) \/ ~known(s[3]) THEN "void"
                 ELSE IF value(s[1]).type # value(s[3]).type \/ value(s[1]).type \notin {"num", "str"}
                 THEN "void"
                 ELSE IF compareOrdered(value(s[1]).rank, value(s[3]).rank, s[2]) THEN "pass" ELSE "drop"
            ELSE "error"

-----------------------------------------------------------------------------

(* The variables hold values of their types.                               *)
FilterTypeOK ==
  /\ typed \in 0..MaxWords
  /\ expr.node \in {"pending", "error", "OR", "AND", "not", "compare"}
  /\ last.verdict \in {"none", "pass", "drop"}

(* Parse accepts exactly the expressions of the package's grammar with    *)
(* comparisons of any two operands: the descent through parseOr, parseAnd  *)
(* and parseUnary, with its leftover-token check, rejects what the grammar *)
(* cannot derive and nothing else.                                         *)
GrammarAccepted ==
  expr # Pending => (expr = Rejected) = (Means(toks, <<>>, AnyPair) = "error")

(* "comparison = field op value | value op field" (the package comment):   *)
(* Parse accepts no other.                                                 *)
(* The code does not keep this: README.md says where it differs.           *)
GrammarOnly ==
  expr \notin {Pending, Rejected} => Means(toks, <<>>, GrammarPairs) # "error"

Meaning == Means(toks, last.payload.fields, GrammarPairs)

(* An expression of the grammar, read with NOT tightest and OR loosest,    *)
(* passes a sample exactly when it is true of its fields.  A payload that  *)
(* does not decode never passes; nor, where nothing is negated, one on     *)
(* which a comparison that decides cannot be made: a field is absent, of   *)
(* another type, or the payload is null.                                   *)
VerdictRight ==
  (last # NoVerdict /\ Meaning # "error") =>
    /\ last.payload.json = "bad" => last.verdict = "drop"
    /\ last.payload.json # "bad" /\ Meaning # "void" => last.verdict = Meaning
    /\ Meaning = "void" /\ "NOT" \notin Range(toks) => last.verdict = "drop"

(* "make that comparison - and therefore the whole predicate, unless       *)
(* satisfied by an unrelated OR branch - evaluate false" (the package      *)
(* comment, and REQ-CFILT-005): only what is true of the fields passes.    *)
(* The code does not keep this: README.md says where it differs.           *)
FailsClosed == (last.verdict = "pass" /\ Meaning # "error") => Meaning = "pass"
=============================================================================
