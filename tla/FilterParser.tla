----------------------------- MODULE FilterParser -----------------------------
(***************************************************************************)
(* The parser of filter expressions (internal/filter/parser.go): recursive *)
(* descent with one token of lookahead, written as the machine that the    *)
(* calls of the parse functions make.  "at" is the place in them, "stack"  *)
(* the calls that wait for an operand, innermost last.                     *)
(*                                                                         *)
(* The tokens of an expression are chosen when the lexer is asked for      *)
(* them, so a behaviour is the parse of some expression of at most MaxLen  *)
(* tokens, and all of them are explored.                                   *)
(***************************************************************************)
EXTENDS Naturals, Sequences

CONSTANTS
  Tokens,     \* the tokens expressions are made of
  MaxLen      \* bound on their number; the parser holds two from the start

\* Identifiers: a plain name; sum, avg, min, max, count; rate, irate, increase,
\* per_second, per_minute, per_hour; histogram_quantile; label_join and
\* label_replace.  All of them are names where the parser wants a metric.
Idents == {"name", "agg", "func", "quantile", "labels"}

\* "by" is by or without; "op" an arithmetic operator; "eof" the end of the
\* input, or a character the lexer does not know.
AllTokens == Idents \cup {"num", "str", "by", "op", "eof", "=", ",",
                          "(", ")", "[", "]", "{", "}"}

\* What a list of plain names is made of.
ListTokens == {"(", "name", ","}

ASSUME TokensAssumption == "eof" \in Tokens /\ Tokens \subseteq AllTokens
ASSUME MaxLenAssumption == MaxLen \in Nat /\ MaxLen >= 2

VARIABLES
  cur, peek,  \* Parser.curToken, Parser.peekToken
  read,       \* the tokens before cur, at most MaxLen; of those in a list only
              \* the ListTokens are told apart, "eof" stands for the others
  at,         \* the step of the parse functions, "accepted" or "refused"
  stack,      \* the calls waiting for the operand being parsed
  nodes       \* the nodes of the syntax tree, operands before operators

vars == <<cur, peek, read, at, stack, nodes>>

\* The calls that wait: for a parenthesis, or to make a node of this kind.
Operators == {"aggregate", "function", "quantile"}
Lists     == {"group", "labels"}
Calls     == {"paren"} \cup Operators \cup Lists
Nodes     == {"metric", "range"} \cup Operators \cup Lists

Steps == {"expression", "grouping", "argument", "quantileOpen", "quantileValue",
          "quantileComma", "listOpen", "list", "listItem", "selector", "suffix",
          "duration", "unit", "rangeClose", "return", "accepted", "refused"}

TypeOK ==
  /\ cur \in Tokens /\ peek \in Tokens
  /\ read \in Seq(Tokens)
  /\ at \in Steps
  /\ stack \in Seq(Calls)
  /\ nodes \in Seq(Nodes)

\* NewParser; Parse refuses an empty expression.
Init ==
  /\ cur \in Tokens /\ peek \in Tokens
  /\ read = <<>>
  /\ at = IF cur = "eof" THEN "refused" ELSE "expression"
  /\ stack = <<>>
  /\ nodes = <<>>

------------------------------------------------------------------------------
\* nextToken, recording the token left behind as t: the lexer has one more token,
\* or is at the end.
NextToken(t) ==
  /\ cur' = peek
  /\ peek' \in IF Len(read) + 2 < MaxLen THEN Tokens ELSE {"eof"}
  /\ read' = IF Len(read) < MaxLen THEN Append(read, t) ELSE read

\* Go on to a step with the next token, in a list, or with the same one.
Eat(step) == at' = step /\ NextToken(cur)
EatItem(step) == at' = step /\ NextToken(IF cur \in ListTokens THEN cur ELSE "eof")
Stay(step) == at' = step /\ UNCHANGED <<cur, peek, read>>
Refuse == Stay("refused") /\ UNCHANGED <<stack, nodes>>

Call(c) == stack' = Append(stack, c) /\ UNCHANGED nodes
Make(n) == nodes' = Append(nodes, n)
Same == UNCHANGED <<stack, nodes>>

Top == stack[Len(stack)]
Rest == SubSeq(stack, 1, Len(stack) - 1)

------------------------------------------------------------------------------
\* parseAggregation: an identifier with a meaning, or a selector.
Expression ==
  /\ at = "expression"
  /\ \/ cur = "agg" /\ Eat("grouping") /\ Call("aggregate")
     \/ cur = "func" /\ Eat("argument") /\ Call("function")
     \/ cur = "quantile" /\ Eat("quantileOpen") /\ Call("quantile")
     \/ cur = "labels" /\ Eat("listOpen") /\ Call("labels")
     \/ cur \notin Idents \ {"name"} /\ Stay("selector") /\ Same

\* parseAggregationOperator, after the operator.
Grouping ==
  /\ at = "grouping"
  /\ IF cur = "by"
     THEN Eat("listOpen") /\ stack' = Append(Rest, "group") /\ UNCHANGED nodes
     ELSE Stay("selector") /\ Same

\* Mutant of Argument: the parenthesis is read here and not with the operand.
ArgumentEats ==
  /\ at = "argument"
  /\ IF cur = "(" THEN Eat("selector") /\ Same ELSE Refuse

\* parseRateFunction and parseNormalizationFunction, after the name.
Argument ==
  /\ at = "argument"
  /\ IF cur = "(" THEN Stay("selector") /\ Same ELSE Refuse

\* parseHistogramQuantile, after the name.  Nothing reads its closing
\* parenthesis.
QuantileOpen ==
  /\ at = "quantileOpen"
  /\ IF cur = "(" /\ peek # "," THEN Eat("quantileValue") /\ Same ELSE Refuse

QuantileValue ==
  /\ at = "quantileValue"
  /\ IF cur = "num" /\ peek = "," THEN Eat("quantileComma") /\ Same ELSE Refuse

QuantileComma == at = "quantileComma" /\ Eat("selector") /\ Same

------------------------------------------------------------------------------
(* The arguments of a label function, and parseLabelList.                  *)

ListOpen ==
  /\ at = "listOpen"
  /\ IF cur = "(" THEN Stay("list") /\ Same ELSE Refuse

\* The parenthesis that ends the list becomes the current token, and is the one
\* the operand starts at.
ListClose == at = "list" /\ peek = ")" /\ EatItem("selector") /\ Same

\* Mutant of ListNext: an item that is not an identifier is not read.
ListNextIdent ==
  /\ at = "list" /\ peek # ")"
  /\ IF peek \in Idents THEN EatItem("listItem") ELSE Stay("listItem")
  /\ Same

ListNext == at = "list" /\ peek # ")" /\ EatItem("listItem") /\ Same

ListItem ==
  /\ at = "listItem"
  /\ IF peek = "," THEN EatItem("list") ELSE Stay("list")
  /\ Same

------------------------------------------------------------------------------
(* parseRangeSelector.                                                     *)

Selector ==
  /\ at = "selector"
  /\ \/ cur = "(" /\ Eat("expression") /\ Call("paren")
     \/ cur \in Idents /\ Eat("suffix") /\ Make("metric") /\ UNCHANGED stack
     \/ cur \notin Idents \cup {"("} /\ Refuse

\* parseLabelMatchers starts at the brace itself and wants a label name there, so
\* it always fails.
LabelMatchers == cur \notin Idents /\ Refuse

\* Label matchers; a range; or the end of the operand.
Suffix ==
  /\ at = "suffix"
  /\ \/ cur = "{" /\ LabelMatchers
     \/ cur = "[" /\ Eat("duration") /\ Same
     \/ cur \notin {"{", "["} /\ Stay("return") /\ Same

\* parseDuration: a number, and an optional unit, for which any name will do.
Duration ==
  /\ at = "duration"
  /\ IF cur = "num" THEN Eat("unit") /\ Same ELSE Refuse

\* Mutant of Unit: a number without a unit is refused.
UnitNeeded ==
  /\ at = "unit"
  /\ IF cur \in Idents THEN Eat("rangeClose") /\ Same ELSE Refuse

Unit ==
  /\ at = "unit"
  /\ IF cur \in Idents THEN Eat("rangeClose") ELSE Stay("rangeClose")
  /\ Same

RangeClose ==
  /\ at = "rangeClose"
  /\ IF cur = "]" THEN Eat("return") /\ Make("range") /\ UNCHANGED stack ELSE Refuse

\* An operand is complete: the parse is over, whatever follows, or the call
\* that waits for the operand goes on.
Accept == at = "return" /\ stack = <<>> /\ Stay("accepted") /\ Same

ReturnToParen ==
  /\ at = "return" /\ stack # <<>> /\ Top = "paren"
  /\ IF cur = ")" THEN Eat("suffix") /\ stack' = Rest /\ UNCHANGED nodes ELSE Refuse

\* Mutant of ReturnToOperator: a parenthesis makes a node too.
ReturnToAny ==
  /\ at = "return" /\ stack # <<>>
  /\ Stay("return") /\ Make(Top) /\ stack' = Rest

ReturnToOperator ==
  /\ at = "return" /\ stack # <<>> /\ Top # "paren"
  /\ Stay("return") /\ Make(Top) /\ stack' = Rest

------------------------------------------------------------------------------
Next ==
  \/ Expression \/ Grouping \/ Argument
  \/ QuantileOpen \/ QuantileValue \/ QuantileComma
  \/ ListOpen \/ ListClose \/ ListNext \/ ListItem
  \/ Selector \/ Suffix \/ Duration \/ Unit \/ RangeClose
  \/ Accept \/ ReturnToParen \/ ReturnToOperator

Spec == Init /\ [][Next]_vars

\* The parse is one goroutine's loop: it runs.
FairSpec == Spec /\ WF_vars(Next)

------------------------------------------------------------------------------
(* A grammar to compare with: the expressions the code is meant to take,   *)
(* but for lists and matchers, and with a quantile left open.  A sentence  *)
(* is its text and the nodes it makes.                                     *)

Sentence(text, made) == [text |-> text, nodes |-> made]
Units == {<<>>} \cup {<<i>> : i \in Idents}

Metrics == {Sentence(<<i>>, <<"metric">>) : i \in Idents}
Ranged(S) ==
  S \cup {Sentence(s.text \o <<"[", "num">> \o u \o <<"]">>, Append(s.nodes, "range")) :
            s \in S, u \in Units}
Prefixed(tokens, S, node) == {Sentence(tokens \o s.text, Append(s.nodes, node)) : s \in S}
Parenthesised(S) == {Sentence(<<"(">> \o s.text \o <<")">>, s.nodes) : s \in S}
Short(S) == {s \in S : Len(s.text) <= MaxLen}

ExpressionsOver(operands) ==
  Short({s \in operands : Head(s.text) \in {"name", "("}}
        \cup Prefixed(<<"agg">>, operands, "aggregate")
        \cup Prefixed(<<"func">>, {s \in operands : Head(s.text) = "("}, "function")
        \cup Prefixed(<<"quantile", "(", "num", ",">>, operands, "quantile"))

\* The operands with at most d parentheses around each other.
Operands[d \in Nat] ==
  IF d = 0 THEN Ranged(Metrics)
  ELSE Ranged(Metrics \cup Parenthesised(ExpressionsOver(Operands[d - 1])))

Sentences == ExpressionsOver(Operands[MaxLen \div 2])
Texts == {s.text : s \in Sentences}
Beginnings == UNION {{SubSeq(t, 1, k) : k \in 0..Len(t)} : t \in Texts}

------------------------------------------------------------------------------
\* The tokens read when a parse is accepted are a sentence of the grammar, and
\* the tree is that sentence's.  It says nothing of the tokens behind them, which
\* the code ignores.
AcceptedIsSentence == at = "accepted" => Sentence(read, nodes) \in Sentences

\* The tokens the parser has seen, up to the end of the input.
Seen == IF cur = "eof" THEN read
        ELSE IF peek = "eof" THEN Append(read, cur)
        ELSE read \o <<cur, peek>>

\* An expression is refused at tokens no sentence has there, or, at the end of
\* the input, because it is not a sentence.  The grammar leaves out lists,
\* matchers and the parenthesis that closes a quantile: what the documentation
\* writes with those is no sentence, and GroupingTaken speaks of one.
RefusedForGood ==
  at = "refused" =>
    IF "eof" \in {cur, peek} THEN Seen \notin Texts ELSE Seen \notin Beginnings

\* A fact about the code that the proofs rest on, and not what the documentation
\* wants (see GroupingTaken): no grouping clause or label function ever becomes
\* part of a tree.
ListsNeverTaken == \A i \in DOMAIN nodes : nodes[i] \notin Lists

\* Why: a list's call is the innermost one, and it never gets an operand, which
\* would have to start at the parenthesis that closes the list.
ListInv ==
  /\ ListsNeverTaken
  /\ \A i \in DOMAIN stack : stack[i] \in Lists =>
       /\ i = Len(stack)
       /\ \/ at \in {"listOpen", "list", "listItem", "refused"}
          \/ at = "selector" /\ cur = ")"

\* sum by (interface) (bytes_sent), an example of the README's.
Grouped == <<"agg", "by", "(", "name", ")", "(", "name", ")">>

\* The README's example is an expression: the parser never refuses at tokens that
\* begin it.  The code does, at the parenthesis that closes the list.
GroupingTaken ==
  at = "refused" /\ "eof" \notin {cur, peek} => Seen # SubSeq(Grouped, 1, Len(Seen))

\* Every parse ends, except that of a list whose closing parenthesis is
\* missing: that one reads the end of the input forever.
ParsesEnd ==
  \/ <>(at \in {"accepted", "refused"})
  \/ <>[](at \in {"list", "listItem"} /\ cur = "eof")

==============================================================================
