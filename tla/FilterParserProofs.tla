-------------------------- MODULE FilterParserProofs --------------------------
(***************************************************************************)
(* Theorems about FilterParser, for any vocabulary and any bound on the    *)
(* length of an expression.                                                *)
(***************************************************************************)
EXTENDS FilterGrammarProofs

TokensOK == cur \in Tokens /\ peek \in Tokens /\ read \in Seq(Tokens)

\* Moving on, or staying, leaves tokens.
LEMMA TokensStep ==
  ASSUME TypeOK, NEW step,
         Eat(step) \/ EatItem(step) \/ Stay(step)
  PROVE  TokensOK' /\ at' = step
<1>1. ASSUME NEW t \in Tokens, NextToken(t)
      PROVE  TokensOK'
  BY <1>1, TokensAssumption DEF NextToken, TokensOK, TypeOK
<1>2. CASE Eat(step)
  BY <1>1, <1>2 DEF Eat, TypeOK
<1>3. CASE EatItem(step)
  BY <1>1, <1>3, TokensAssumption DEF EatItem, TypeOK
<1>4. CASE Stay(step)
  BY <1>4 DEF Stay, TokensOK, TypeOK
<1> QED
  BY <1>2, <1>3, <1>4

\* The calls below the innermost one.
LEMMA RestProperties ==
  ASSUME TypeOK
  PROVE  /\ Rest \in Seq(Calls)
         /\ \A i \in DOMAIN Rest : i \in DOMAIN stack /\ Rest[i] = stack[i]
<1>1. PICK n \in Nat : Len(stack) = n /\ DOMAIN stack = 1..n
  BY DEF TypeOK
<1>2. \A i \in 1..(n - 1) : stack[i] \in Calls
  BY <1>1 DEF TypeOK
<1>3. Rest = SubSeq(stack, 1, n - 1)
  BY <1>1 DEF Rest
<1>4. /\ Rest \in Seq(Calls)
      /\ Len(Rest) = IF 1 <= n - 1 THEN n - 1 - 1 + 1 ELSE 0
      /\ \A i \in 1..(n - 1 - 1 + 1) : Rest[i] = stack[1 + i - 1]
  BY <1>2, <1>3, SubSeqProperties
<1>5. DOMAIN Rest = 1..Len(Rest)
  BY <1>4
<1>6. DOMAIN Rest \subseteq 1..(n - 1)
  BY <1>4, <1>5
<1>7. \A i \in 1..(n - 1) : i \in DOMAIN stack /\ Rest[i] = stack[i]
  BY <1>1, <1>4
<1> QED
  BY <1>4, <1>6, <1>7

\* Every variable keeps its type through every step.
LEMMA TypeStep ==
  ASSUME TypeOK, [Next]_vars
  PROVE  TypeOK'
<1>1. CASE UNCHANGED vars
  BY <1>1 DEF TypeOK, vars
<1>2. ASSUME TokensOK', at' \in Steps, stack' \in Seq(Calls), nodes' \in Seq(Nodes)
      PROVE  TypeOK'
  BY <1>2 DEF TokensOK, TypeOK
<1>3. stack \in Seq(Calls) /\ nodes \in Seq(Nodes)
  BY DEF TypeOK
<1>4. ASSUME Refuse PROVE TypeOK'
  BY <1>2, <1>3, <1>4, TokensStep DEF Refuse, Steps
<1>5. ASSUME Same, NEW step \in Steps, Eat(step) \/ EatItem(step) \/ Stay(step)
      PROVE  TypeOK'
  BY <1>2, <1>3, <1>5, TokensStep DEF Same
<1>6. ASSUME NEW c \in Calls, Call(c), NEW step \in Steps, Eat(step)
      PROVE  TypeOK'
  BY <1>2, <1>3, <1>6, TokensStep DEF Call
<1>7. ASSUME NEW n \in Nodes, Make(n), stack' \in Seq(Calls),
             NEW step \in Steps, Eat(step) \/ Stay(step)
      PROVE  TypeOK'
  BY <1>2, <1>3, <1>7, TokensStep DEF Make
<1>8. CASE Expression
  BY <1>5, <1>6, <1>8 DEF Expression, Calls, Operators, Lists, Steps
<1>9. CASE Grouping
  <2>1. CASE Stay("selector") /\ Same
    BY <1>5, <2>1 DEF Steps
  <2>2. CASE Eat("listOpen") /\ stack' = Append(Rest, "group") /\ UNCHANGED nodes
    <3>1. stack' \in Seq(Calls)
      BY <2>2, RestProperties DEF Calls, Lists
    <3> QED
      BY <1>2, <1>3, <2>2, <3>1, TokensStep DEF Steps
  <2> QED
    BY <1>9, <2>1, <2>2 DEF Grouping
<1>10. CASE Argument \/ QuantileOpen \/ QuantileValue \/ QuantileComma
  BY <1>4, <1>5, <1>10
  DEF Argument, QuantileOpen, QuantileValue, QuantileComma, Steps
<1>11. CASE ListOpen \/ ListClose \/ ListNext \/ ListItem
  BY <1>4, <1>5, <1>11 DEF ListOpen, ListClose, ListNext, ListItem, Steps
<1>12. CASE Selector
  BY <1>3, <1>4, <1>6, <1>7, <1>12 DEF Selector, Calls, Nodes, Steps
<1>13. CASE Suffix \/ Duration \/ Unit
  BY <1>4, <1>5, <1>13 DEF Suffix, LabelMatchers, Duration, Unit, Steps
<1>14. CASE RangeClose
  BY <1>3, <1>4, <1>7, <1>14 DEF RangeClose, Nodes, Steps
<1>15. CASE Accept
  BY <1>5, <1>15 DEF Accept, Steps
<1>16. CASE ReturnToParen
  <2>1. CASE Refuse
    BY <1>4, <2>1
  <2>2. CASE Eat("suffix") /\ stack' = Rest /\ UNCHANGED nodes
    BY <1>2, <1>3, <2>2, RestProperties, TokensStep DEF Steps
  <2> QED
    BY <1>16, <2>1, <2>2 DEF ReturnToParen
<1>17. CASE ReturnToOperator
  <2>1. Top \in Nodes
    BY <1>3, <1>17 DEF ReturnToOperator, Top, Calls, Nodes
  <2> QED
    BY <1>7, <1>17, <2>1, RestProperties DEF ReturnToOperator, Steps
<1> QED
  BY <1>1, <1>8, <1>9, <1>10, <1>11, <1>12, <1>13, <1>14, <1>15, <1>16, <1>17
  DEF Next

\* Through every step of every parse the parser stays within its types: it is at
\* a step of the parse functions with two tokens, the calls that wait are calls,
\* and only a call that makes a node makes one.
THEOREM TypeCorrect == Spec => []TypeOK
<1>1. Init => TypeOK
  BY DEF Init, TypeOK, Steps
<1> QED
  BY <1>1, TypeStep, PTL DEF Spec

------------------------------------------------------------------------------
NoList == \A i \in DOMAIN stack : stack[i] \notin Lists

\* Outside the steps of a list, and at any operand that does not start at a
\* closing parenthesis, no list waits.
LEMMA NoListWaits ==
  ASSUME TypeOK, ListInv,
         at \notin {"listOpen", "list", "listItem", "refused"},
         at = "selector" => cur # ")"
  PROVE  NoList
BY DEF ListInv, NoList

\* No step lets a list get its operand.
LEMMA ListStep ==
  ASSUME TypeOK, ListInv, [Next]_vars
  PROVE  ListInv'
<1>1. CASE UNCHANGED vars
  BY <1>1 DEF ListInv, ListsNeverTaken, vars
<1>2. stack \in Seq(Calls) /\ nodes \in Seq(Nodes) /\ ListsNeverTaken
  BY DEF TypeOK, ListInv
<1>3. ASSUME NoList', ListsNeverTaken'
      PROVE  ListInv'
  BY <1>3 DEF ListInv, NoList
<1>4. ASSUME Refuse PROVE ListInv'
  BY <1>4 DEF Refuse, Stay, ListInv, ListsNeverTaken
<1>5. ASSUME NoList, Same PROVE ListInv'
  BY <1>2, <1>3, <1>5 DEF Same, NoList, ListsNeverTaken
<1>6. ASSUME NoList, NEW c \in Calls \ Lists, Call(c) PROVE ListInv'
  <2>1. NoList'
    BY <1>2, <1>6 DEF Call, NoList
  <2> QED
    BY <1>3, <1>6, <2>1, <1>2 DEF Call, ListsNeverTaken
<1>7. ASSUME NEW c \in Lists, NoList, TokensOK', at' = "listOpen",
             NEW s \in Seq(Calls), \A i \in DOMAIN s : s[i] \notin Lists,
             stack' = Append(s, c), UNCHANGED nodes
      PROVE  ListInv'
  <2>1. \A i \in DOMAIN stack' : stack'[i] \in Lists => i = Len(stack')
    BY <1>7
  <2> QED
    BY <1>2, <1>7, <2>1 DEF ListInv, ListsNeverTaken
<1>8. ASSUME NoList, NEW n \in Nodes \ Lists, Make(n), NoList'
      PROVE  ListInv'
  <2>1. ListsNeverTaken'
    BY <1>2, <1>8 DEF Make, ListsNeverTaken
  <2> QED
    BY <1>3, <1>8, <2>1
<1>9. CASE Expression
  <2>1. NoList
    BY <1>9, NoListWaits DEF Expression
  <2>2. CASE Eat("listOpen") /\ Call("labels")
    BY <1>2, <1>7, <2>1, <2>2, TokensStep DEF Call, NoList, Lists
  <2> QED
    BY <1>5, <1>6, <1>9, <2>1, <2>2 DEF Expression, Calls, Operators, Lists
<1>10. CASE Grouping
  <2>1. NoList
    BY <1>10, NoListWaits DEF Grouping
  <2>2. CASE Eat("listOpen") /\ stack' = Append(Rest, "group") /\ UNCHANGED nodes
    BY <1>7, <2>1, <2>2, RestProperties, TokensStep DEF NoList, Lists
  <2> QED
    BY <1>5, <1>10, <2>1, <2>2 DEF Grouping
<1>11. CASE Argument \/ QuantileOpen \/ QuantileValue \/ QuantileComma
  <2>1. NoList
    BY <1>11, NoListWaits
    DEF Argument, QuantileOpen, QuantileValue, QuantileComma
  <2> QED
    BY <1>4, <1>5, <1>11, <2>1
    DEF Argument, QuantileOpen, QuantileValue, QuantileComma
<1>12. CASE ListOpen \/ ListNext \/ ListItem
  <2>1. CASE Refuse
    BY <1>4, <2>1
  <2>2. CASE Same /\ at' \in {"list", "listItem"}
    BY <2>2 DEF Same, ListInv, ListsNeverTaken
  <2> QED
    BY <1>12, <2>1, <2>2
    DEF ListOpen, ListNext, ListItem, Eat, EatItem, Stay
<1>13. CASE ListClose
  <2>1. Same /\ at' = "selector" /\ cur' = ")"
    BY <1>13 DEF ListClose, EatItem, NextToken
  <2> QED
    BY <2>1 DEF Same, ListInv, ListsNeverTaken
<1>14. CASE Selector
  <2>1. CASE cur = ")"
    BY <1>4, <1>14, <2>1 DEF Selector, Idents
  <2>2. CASE cur # ")"
    <3>1. NoList
      BY <1>14, <2>2, NoListWaits DEF Selector
    <3>2. CASE Make("metric") /\ UNCHANGED stack
      BY <1>8, <3>1, <3>2 DEF NoList, Nodes, Operators, Lists
    <3> QED
      BY <1>4, <1>6, <1>14, <3>1, <3>2 DEF Selector, Calls, Lists
  <2> QED
    BY <2>1, <2>2
<1>15. CASE Suffix \/ Duration \/ Unit \/ Accept
  <2>1. NoList
    BY <1>15, NoListWaits DEF Suffix, LabelMatchers, Duration, Unit, Accept
  <2> QED
    BY <1>4, <1>5, <1>15, <2>1 DEF Suffix, LabelMatchers, Duration, Unit, Accept
<1>16. CASE RangeClose
  <2>1. NoList
    BY <1>16, NoListWaits DEF RangeClose
  <2>2. CASE Make("range") /\ UNCHANGED stack
    BY <1>8, <2>1, <2>2 DEF NoList, Nodes, Operators, Lists
  <2> QED
    BY <1>4, <1>16, <2>2 DEF RangeClose
<1>17. CASE ReturnToParen
  <2>1. NoList
    BY <1>17, NoListWaits DEF ReturnToParen
  <2>2. CASE stack' = Rest /\ UNCHANGED nodes
    BY <1>2, <1>3, <2>1, <2>2, RestProperties DEF NoList, ListsNeverTaken
  <2> QED
    BY <1>4, <1>17, <2>2 DEF ReturnToParen
<1>18. CASE ReturnToOperator
  <2>1. NoList
    BY <1>18, NoListWaits DEF ReturnToOperator
  <2>2. Top \in Nodes \ Lists
    BY <1>2, <1>18, <2>1 DEF ReturnToOperator, Top, NoList, Calls, Nodes
  <2>3. NoList'
    BY <1>18, <2>1, RestProperties DEF ReturnToOperator, NoList
  <2> QED
    BY <1>8, <1>18, <2>1, <2>2, <2>3 DEF ReturnToOperator
<1> QED
  BY <1>1, <1>9, <1>10, <1>11, <1>12, <1>13, <1>14, <1>15, <1>16, <1>17, <1>18
  DEF Next

\* No expression with a grouping clause or a label function is ever parsed into
\* a tree that has it: the operand would have to start at the parenthesis that
\* closes the list, and no operand starts there.
THEOREM ListsStayOut == Spec => []ListsNeverTaken
<1>1. Init => ListInv
  BY DEF Init, ListInv, ListsNeverTaken
<1>2. ListInv => ListsNeverTaken
  BY DEF ListInv
<1> QED
  BY <1>1, <1>2, ListStep, TypeCorrect, PTL DEF Spec

------------------------------------------------------------------------------
(* What the parser reads.                                                  *)

\* The steps of parseLabelList.
ListSteps == {"listOpen", "list", "listItem"}

\* As long as there is a token to read, there is room to record it.
RoomInv ==
  /\ Len(read) <= MaxLen
  /\ cur # "eof" => Len(read) < MaxLen
  /\ peek # "eof" => Len(read) + 1 < MaxLen

\* A list is read for the innermost call; the comma before a quantile's operand
\* has been looked at.
CallInv ==
  /\ at \in ListSteps => stack # <<>> /\ Top \in Lists
  /\ at = "quantileComma" => cur = ","

\* Eating a token there is appends it to what was read.
LEMMA NextTokenReads ==
  ASSUME TypeOK, RoomInv, NEW t \in Tokens, NextToken(t)
  PROVE  /\ RoomInv'
         /\ cur # "eof" => read' = read \o <<t>>
         /\ read' = read \/ read' = read \o <<t>>
         /\ cur' = peek
<1>1. /\ Len(read) \in Nat /\ read \in Seq(Tokens)
      /\ Append(read, t) = read \o <<t>> /\ Len(Append(read, t)) = Len(read) + 1
  BY AppendIsConcat, AppendProperties, LenProperties DEF TypeOK
<1>2. RoomInv'
  <2>1. CASE Len(read) < MaxLen
    <3>1. Len(read') = Len(read) + 1
      BY <1>1, <2>1 DEF NextToken
    <3>2. cur' # "eof" => Len(read) + 1 < MaxLen
      BY DEF RoomInv, NextToken
    <3>3. peek' # "eof" => Len(read) + 2 < MaxLen
      BY DEF NextToken
    <3> QED
      BY <1>1, <2>1, <3>1, <3>2, <3>3, MaxLenAssumption DEF RoomInv
  <2>2. CASE ~(Len(read) < MaxLen)
    <3>1. read' = read /\ peek = "eof" /\ cur' = "eof" /\ peek' = "eof"
      BY <1>1, <2>2, MaxLenAssumption DEF RoomInv, NextToken
    <3> QED
      BY <3>1 DEF RoomInv
  <2> QED
    BY <2>1, <2>2
<1>3. cur # "eof" => read' = read \o <<t>>
  BY <1>1 DEF RoomInv, NextToken
<1>4. read' = read \/ read' = read \o <<t>>
  BY <1>1 DEF NextToken
<1> QED
  BY <1>2, <1>3, <1>4 DEF NextToken

\* Every step reads a token or none.
LEMMA Reads ==
  ASSUME TypeOK, Next
  PROVE  \/ UNCHANGED <<cur, peek, read>>
         \/ \E t \in Tokens : NextToken(t)
<1>1. cur \in Tokens /\ "eof" \in Tokens
  BY TokensAssumption DEF TypeOK
<1>2. ASSUME NEW s, Eat(s) \/ EatItem(s) \/ Stay(s) \/ Refuse
      PROVE  \/ UNCHANGED <<cur, peek, read>>
             \/ \E t \in Tokens : NextToken(t)
  BY <1>1, <1>2 DEF Eat, EatItem, Stay, Refuse
<1>3. \E s : Eat(s) \/ EatItem(s) \/ Stay(s) \/ Refuse
  BY DEF Next, Expression, Grouping, Argument, QuantileOpen, QuantileValue, QuantileComma,
         ListOpen, ListClose, ListNext, ListItem, Selector, LabelMatchers, Suffix, Duration,
         Unit, RangeClose, Accept, ReturnToParen, ReturnToOperator
<1> QED
  BY <1>2, <1>3

\* There is room after every step.
LEMMA RoomStep ==
  ASSUME TypeOK, RoomInv, [Next]_vars
  PROVE  RoomInv'
<1>1. CASE UNCHANGED <<cur, peek, read>>
  BY <1>1 DEF RoomInv
<1>2. CASE \E t \in Tokens : NextToken(t)
  BY <1>2, NextTokenReads
<1> QED
  BY <1>1, <1>2, Reads DEF vars

\* Every step leaves lists to the innermost call, and quantiles at their comma.
LEMMA CallStep ==
  ASSUME TypeOK, CallInv, [Next]_vars
  PROVE  CallInv'
<1>1. CASE UNCHANGED vars
  BY <1>1 DEF CallInv, Top, vars
<1>2. ASSUME at' \notin ListSteps, at' # "quantileComma"
      PROVE  CallInv'
  BY <1>2 DEF CallInv
<1>3. ASSUME NEW c \in Lists, NEW k \in Seq(Calls), stack' = Append(k, c), at' # "quantileComma"
      PROVE  CallInv'
  <2>1. c \in Calls
    BY DEF Calls
  <2>2. Len(stack') = Len(k) + 1 /\ stack'[Len(k) + 1] = c /\ Len(k) \in Nat
    BY <1>3, <2>1, AppendProperties, LenProperties
  <2>3. stack' # <<>> /\ Top' \in Lists
    BY <2>2 DEF Top
  <2> QED
    BY <1>3, <2>3 DEF CallInv
<1>4. ASSUME at \in ListSteps, stack' = stack, at' # "quantileComma"
      PROVE  CallInv'
  BY <1>4 DEF CallInv, Top
<1>5. stack \in Seq(Calls) /\ Rest \in Seq(Calls)
  BY RestProperties DEF TypeOK
<1>6. CASE Expression
  <2>1. CASE cur = "labels" /\ Eat("listOpen") /\ Call("labels")
    BY <1>3, <1>5, <2>1 DEF Eat, Call, Lists
  <2>2. CASE at' \in {"grouping", "argument", "quantileOpen", "selector"}
    BY <1>2, <2>2 DEF ListSteps
  <2> QED
    BY <1>6, <2>1, <2>2 DEF Expression, Eat, Stay
<1>7. CASE Grouping
  <2>1. CASE cur = "by"
    BY <1>3, <1>5, <1>7, <2>1 DEF Grouping, Eat, Lists
  <2>2. CASE cur # "by"
    BY <1>2, <1>7, <2>2 DEF Grouping, Stay, ListSteps
  <2> QED
    BY <2>1, <2>2
<1>8. CASE QuantileValue
  BY <1>8 DEF QuantileValue, Eat, NextToken, Refuse, Stay, CallInv, ListSteps
<1>9. CASE ListOpen \/ ListNext \/ ListItem \/ ListClose
  <2>1. at \in ListSteps /\ stack' = stack
    BY <1>9 DEF ListOpen, ListNext, ListItem, ListClose, ListSteps, Same, Refuse
  <2>2. at' # "quantileComma"
    BY <1>9 DEF ListOpen, ListNext, ListItem, ListClose, EatItem, Stay, Refuse
  <2> QED
    BY <1>4, <2>1, <2>2
<1>10. CASE Argument \/ QuantileOpen \/ QuantileComma \/ Selector \/ Suffix \/ Duration
            \/ Unit \/ RangeClose \/ Accept \/ ReturnToParen \/ ReturnToOperator
  <2>1. at' \in Steps \ (ListSteps \cup {"quantileComma"})
    BY <1>10 DEF Argument, QuantileOpen, QuantileComma, Selector, Suffix, LabelMatchers,
                 Duration, Unit, RangeClose, Accept, ReturnToParen, ReturnToOperator,
                 Eat, Stay, Refuse, ListSteps, Steps
  <2> QED
    BY <1>2, <2>1
<1> QED
  BY <1>1, <1>6, <1>7, <1>8, <1>9, <1>10 DEF Next

------------------------------------------------------------------------------
(* Soundness: whatever may still come completes an expression.             *)

\* What remains to be read and made at a step with the current token c, if z
\* closes the calls: a sentence of the grammar begins with what was read only
\* if this remains.
Remains(a, c, z, s) ==
  \/ a = "expression" /\ \E e \in Expr : s = e ** z
  \/ a = "grouping" /\ \E p \in Opd : s = p ** z
  \/ a = "argument" /\ \E p \in Opd : Head(p.text) = "(" /\ s = p ** z
  \/ a = "selector" /\ \E p \in Opd : Head(p.text) = c /\ s = p ** z
  \/ a = "quantileOpen" /\ \E p \in Opd : s = Tok("(") ** (Tok("num") ** (Tok(",") ** (p ** z)))
  \/ a = "quantileValue" /\ \E p \in Opd : s = Tok("num") ** (Tok(",") ** (p ** z))
  \/ a = "quantileComma" /\ \E p \in Opd : s = Tok(",") ** (p ** z)
  \/ a = "suffix" /\ \E r \in RangePhrases : s = r ** z
  \/ a = "duration" /\ \E u \in Units : s = Tok("num") ** (Say(u) ** (Tok("]") ** (Node("range") ** z)))
  \/ a = "unit" /\ \E u \in Units : s = Say(u) ** (Tok("]") ** (Node("range") ** z))
  \/ a = "rangeClose" /\ s = Tok("]") ** (Node("range") ** z)
  \/ a \in {"return", "accepted"} /\ s = z

\* What was read and made.
Done == Sentence(read, nodes)

\* Whatever remains completes an expression.
SoundInv ==
  \A z \in Closings(stack), s \in Phrase :
    Remains(at, cur, z, s) /\ Len((Done ** s).text) <= MaxLen => Done ** s \in Expr

\* The parser has moved past x, and what remains after it remained before.
LEMMA SoundMove ==
  ASSUME TypeOK, TypeOK', SoundInv, NEW x \in Phrase, Done' = Done ** x,
         \A z \in Closings(stack'), s \in Phrase :
           Remains(at', cur', z, s) /\ Len((Done ** (x ** s)).text) <= MaxLen =>
             \E y \in Closings(stack) : Remains(at, cur, y, x ** s)
  PROVE  SoundInv'
<1>1. Done \in Phrase
  <2>1. read \in Text
    BY TokensAssumption DEF TypeOK, Text
  <2> QED
    BY <2>1, Fields DEF Done, TypeOK
<1> SUFFICES ASSUME NEW z \in Closings(stack'), NEW s \in Phrase,
                    Remains(at', cur', z, s), Len((Done' ** s).text) <= MaxLen
             PROVE  Done' ** s \in Expr
  BY DEF SoundInv
<1>2. (Done ** x) ** s = Done ** (x ** s) /\ x ** s \in Phrase
  BY <1>1, Regrouped, Composed
<1>3. Done' ** s = Done ** (x ** s)
  BY <1>2
<1>4. PICK y \in Closings(stack) : Remains(at, cur, y, x ** s)
  BY <1>3
<1> QED
  BY <1>2, <1>3, <1>4 DEF SoundInv

\* What was done is a phrase.
LEMMA DonePhrase ==
  ASSUME TypeOK
  PROVE  Done \in Phrase /\ read \in Text /\ cur \in AllTokens /\ peek \in AllTokens
<1>1. read \in Text /\ cur \in AllTokens /\ peek \in AllTokens
  BY TokensAssumption DEF TypeOK, Text
<1> QED
  BY <1>1, Fields DEF Done, TypeOK

\* How reading a token and making a node add to it.
LEMMA DoneEat ==
  ASSUME TypeOK, RoomInv, cur # "eof", NEW step, Eat(step)
  PROVE  /\ UNCHANGED nodes => Done' = Done ** Tok(cur)
         /\ \A n \in Nodes : Make(n) => Done' = Done ** (Tok(cur) ** Node(n))
         /\ read' = read \o <<cur>> /\ cur' = peek /\ at' = step
<1>1. read' = read \o <<cur>> /\ cur' = peek /\ at' = step
  BY NextTokenReads DEF Eat, TypeOK
<1>2. nodes \in Seq(Nodes) /\ nodes \o <<>> = nodes
  BY NodesUnit DEF TypeOK
<1>3. ASSUME UNCHANGED nodes
      PROVE  Done' = Done ** Tok(cur)
  <2>1. Done' = Sentence(read \o <<cur>>, nodes \o <<>>)
    BY <1>1, <1>2, <1>3 DEF Done
  <2> QED
    BY <2>1, PhraseFields DEF Done, **, Sentence, Tok
<1>4. ASSUME NEW n \in Nodes, Make(n)
      PROVE  Done' = Done ** (Tok(cur) ** Node(n))
  <2>1. nodes' = nodes \o <<n>>
    BY <1>2, <1>4, NodesUnit DEF Make
  <2>2. Done' = Sentence(read \o <<cur>>, nodes \o <<n>>)
    BY <1>1, <2>1 DEF Done
  <2>3. <<cur>> \o <<>> = <<cur>> /\ <<>> \o <<n>> = <<n>>
    BY DonePhrase, Cons, Concat, NodesUnit
  <2>4. (Tok(cur) ** Node(n)).text = <<cur>> /\ (Tok(cur) ** Node(n)).nodes = <<n>>
    <3>1. /\ (Tok(cur) ** Node(n)).text = Tok(cur).text \o Node(n).text
          /\ (Tok(cur) ** Node(n)).nodes = Tok(cur).nodes \o Node(n).nodes
      BY PhraseFields
    <3>2. /\ Tok(cur).text = <<cur>> /\ Tok(cur).nodes = <<>>
          /\ Node(n).text = <<>> /\ Node(n).nodes = <<n>>
      BY PhraseFields
    <3> QED
      BY <2>3, <3>1, <3>2
  <2> HIDE DEF Tok, Node
  <2>5. Done.text = read /\ Done.nodes = nodes
    BY Fields DEF Done
  <2> QED
    BY <2>2, <2>4, <2>5 DEF **
<1> QED
  BY <1>1, <1>3, <1>4

\* What a step without a token adds to what was done.
LEMMA DoneStay ==
  ASSUME TypeOK, UNCHANGED read
  PROVE  /\ UNCHANGED nodes => Done' = Done ** Empty
         /\ \A n \in Nodes : Make(n) => Done' = Done ** Node(n)
<1>1. Done ** Empty = Done
  BY DonePhrase, Composition
<1>2. ASSUME NEW n \in Nodes, Make(n)
      PROVE  Done' = Done ** Node(n)
  <2>1. nodes' = nodes \o <<n>> /\ read \o <<>> = read
    BY <1>2, NodesUnit, DonePhrase, Concat DEF Make, TypeOK
  <2>2. Done' = Sentence(read \o <<>>, nodes \o <<n>>)
    BY <2>1 DEF Done
  <2> QED
    BY <2>2 DEF Done, **, Sentence, Node
<1>3. UNCHANGED nodes => Done' = Done
  BY DEF Done
<1> QED
  BY <1>1, <1>2, <1>3

\* The two ways to move on without making a node.
LEMMA SoundEat ==
  ASSUME TypeOK, TypeOK', RoomInv, SoundInv, cur # "eof", NEW step, Eat(step), UNCHANGED nodes,
         \A z \in Closings(stack'), s \in Phrase :
           Remains(step, peek, z, s) /\ Len((Done ** (Tok(cur) ** s)).text) <= MaxLen =>
             \E y \in Closings(stack) : Remains(at, cur, y, Tok(cur) ** s)
  PROVE  SoundInv'
<1>1. Done' = Done ** Tok(cur) /\ cur' = peek /\ at' = step
  BY DoneEat
<1>2. Tok(cur) \in Phrase
  BY DonePhrase, Composition
<1> QED
  BY <1>1, <1>2, SoundMove

\* The same without a token.
LEMMA SoundStay ==
  ASSUME TypeOK, TypeOK', SoundInv, NEW step, Stay(step), UNCHANGED nodes,
         \A z \in Closings(stack'), s \in Phrase :
           Remains(step, cur, z, s) /\ Len((Done ** s).text) <= MaxLen =>
             \E y \in Closings(stack) : Remains(at, cur, y, s)
  PROVE  SoundInv'
<1>1. Done' = Done ** Empty /\ cur' = cur /\ at' = step
  BY DoneStay DEF Stay
<1>2. Empty \in Phrase /\ \A s \in Phrase : Empty ** s = s
  BY Composition
<1> QED
  BY <1>1, <1>2, SoundMove

\* Nothing remains in a list, or when an expression is refused.
LEMMA SoundNothing ==
  ASSUME at' \in ListSteps \cup {"refused"}
  PROVE  SoundInv'
BY DEF SoundInv, Remains, ListSteps

\* The stack is its innermost call and the others.
LEMMA TopAndRest ==
  ASSUME TypeOK, stack # <<>>
  PROVE  stack = Append(Rest, Top) /\ Rest \in Seq(Calls) /\ Top \in Calls
<1>1. PICK n \in Nat \ {0} : Len(stack) = n
  BY EmptySeq, LenProperties DEF TypeOK
<1>2. Rest = SubSeq(stack, 1, n - 1) /\ Top = stack[n]
  BY <1>1 DEF Rest, Top
<1>3. Top \in Calls
  BY <1>1, <1>2, ElementOfSeq DEF TypeOK
<1>4. \A i \in 1..(n - 1) : stack[i] \in Calls
  BY <1>1, ElementOfSeq DEF TypeOK
<1>5. Len(Rest) = n - 1 /\ \A i \in 1..(n - 1) : Rest[i] = stack[i]
  <2>1. /\ Len(Rest) = IF 1 <= n - 1 THEN n - 1 - 1 + 1 ELSE 0
        /\ \A i \in 1..(n - 1 - 1 + 1) : Rest[i] = stack[1 + i - 1]
    BY <1>2, <1>4, SubSeqProperties
  <2> QED
    BY <2>1
<1>6. Rest \in Seq(Calls)
  BY RestProperties
<1> DEFINE k == Append(Rest, Top)
<1>7. /\ k \in Seq(Calls) /\ Len(k) = n /\ k[n] = Top
      /\ \A i \in 1..(n - 1) : k[i] = Rest[i]
  BY <1>3, <1>5, <1>6, AppendProperties
<1>8. \A i \in 1..n : k[i] = stack[i]
  BY <1>2, <1>5, <1>7
<1>9. k = stack
  BY <1>1, <1>7, <1>8, SeqEqual DEF TypeOK
<1> QED
  BY <1>3, <1>6, <1>9

\* Nothing closes a list.
LEMMA ListsDontClose ==
  /\ \A k \in Seq(Calls), c \in Lists : Closings(Append(k, c)) = {}
  /\ TypeOK /\ stack # <<>> /\ Top \in Lists => Closings(stack) = {}
<1>1. \A c \in Lists : c \in Calls /\ \A x, y : ~Closes(c, x, y)
  BY DEF Lists, Calls, Operators, Closes
<1>2. \A k \in Seq(Calls), c \in Lists : Closings(Append(k, c)) = {}
  BY <1>1, ClosingsPushed
<1> QED
  BY <1>2, TopAndRest

\* parseAggregation is sound.
LEMMA SoundExpression ==
  ASSUME TypeOK, TypeOK', RoomInv, SoundInv, Expression
  PROVE  SoundInv'
<1>1. Done \in Phrase /\ stack \in Seq(Calls) /\ at = "expression" /\ cur \in AllTokens
  BY DonePhrase DEF TypeOK, Expression
<1>2. \A p \in Opd : p \in Phrase /\ Head(p.text) \in Idents \cup {"("}
  BY OperandHeads
<1>3. \A y \in Closings(stack) : y \in Phrase
  BY DEF Closings
<1>4. /\ Tok("agg") \in Phrase /\ Tok("func") \in Phrase
      /\ Node("aggregate") \in Phrase /\ Node("function") \in Phrase /\ Node("quantile") \in Phrase
  BY PhraseParts, Vocabulary
<1>5. ASSUME NEW c \in Operators, NEW z \in Closings(Append(stack, c))
      PROVE  \E y \in Closings(stack) : z = Node(c) ** y
  <2>1. c \in Calls /\ c # "paren"
    BY DEF Calls, Operators
  <2> QED
    BY <1>1, <2>1, ClosingsPushed DEF Closes
<1>6. CASE cur = "agg" /\ Eat("grouping") /\ Call("aggregate")
  <2> SUFFICES ASSUME NEW z \in Closings(stack'), NEW s \in Phrase,
                      Remains("grouping", peek, z, s),
                      Len((Done ** (Tok(cur) ** s)).text) <= MaxLen
               PROVE  \E y \in Closings(stack) : Remains(at, cur, y, Tok(cur) ** s)
    BY <1>6, SoundEat DEF Call
  <2>1. PICK y \in Closings(stack) : z = Node("aggregate") ** y
    BY <1>5, <1>6 DEF Call, Operators
  <2>2. PICK p \in Opd : s = p ** z
    BY DEF Remains
  <2> DEFINE e == Tok("agg") ** (p ** Node("aggregate"))
  <2>3. e ** y = Tok(cur) ** s
    <3>1. e ** y = Tok("agg") ** (p ** (Node("aggregate") ** y))
      BY <1>2, <1>3, <1>4, RegroupedFour
    <3> QED
      BY <1>6, <2>1, <2>2, <3>1
  <2>4. Expresses(e, p)
    BY DEF Expresses
  <2> HIDE DEF e
  <2>5. e \in Expr
    BY <1>1, <1>3, <2>3, <2>4, ExprMade
  <2> QED
    BY <1>1, <2>3, <2>5 DEF Remains
<1>7. CASE cur = "func" /\ Eat("argument") /\ Call("function")
  <2> SUFFICES ASSUME NEW z \in Closings(stack'), NEW s \in Phrase,
                      Remains("argument", peek, z, s),
                      Len((Done ** (Tok(cur) ** s)).text) <= MaxLen
               PROVE  \E y \in Closings(stack) : Remains(at, cur, y, Tok(cur) ** s)
    BY <1>7, SoundEat DEF Call
  <2>1. PICK y \in Closings(stack) : z = Node("function") ** y
    BY <1>5, <1>7 DEF Call, Operators
  <2>2. PICK p \in Opd : s = p ** z /\ Head(p.text) = "("
    BY DEF Remains
  <2> DEFINE e == Tok("func") ** (p ** Node("function"))
  <2>3. e ** y = Tok(cur) ** s
    <3>1. e ** y = Tok("func") ** (p ** (Node("function") ** y))
      BY <1>2, <1>3, <1>4, RegroupedFour
    <3> QED
      BY <1>7, <2>1, <2>2, <3>1
  <2>4. Expresses(e, p)
    BY <2>2 DEF Expresses
  <2> HIDE DEF e
  <2>5. e \in Expr
    BY <1>1, <1>3, <2>3, <2>4, ExprMade
  <2> QED
    BY <1>1, <2>3, <2>5 DEF Remains
<1>8. CASE cur = "quantile" /\ Eat("quantileOpen") /\ Call("quantile")
  <2> SUFFICES ASSUME NEW z \in Closings(stack'), NEW s \in Phrase,
                      Remains("quantileOpen", peek, z, s),
                      Len((Done ** (Tok(cur) ** s)).text) <= MaxLen
               PROVE  \E y \in Closings(stack) : Remains(at, cur, y, Tok(cur) ** s)
    BY <1>8, SoundEat DEF Call
  <2>1. PICK y \in Closings(stack) : z = Node("quantile") ** y
    BY <1>5, <1>8 DEF Call, Operators
  <2>2. PICK p \in Opd : s = Tok("(") ** (Tok("num") ** (Tok(",") ** (p ** z)))
    BY DEF Remains
  <2> DEFINE e == QuantilePhrase(p)
  <2>3. e ** y = Tok(cur) ** s
    <3>1. e ** y = Tok("quantile") **
             (Tok("(") ** (Tok("num") ** (Tok(",") ** (p ** (Node("quantile") ** y)))))
      BY <1>2, <1>3, QuantileRegrouped
    <3> QED
      BY <1>8, <2>1, <2>2, <3>1
  <2>4. Expresses(e, p)
    BY DEF Expresses
  <2> HIDE DEF e
  <2>5. e \in Expr
    BY <1>1, <1>3, <2>3, <2>4, ExprMade
  <2> QED
    BY <1>1, <2>3, <2>5 DEF Remains
<1>9. CASE cur = "labels" /\ Eat("listOpen")
  BY <1>9, SoundNothing DEF Eat, ListSteps
<1>10. CASE cur \notin Idents \ {"name"} /\ Stay("selector") /\ Same
  <2> SUFFICES ASSUME NEW z \in Closings(stack), NEW s \in Phrase,
                      Remains("selector", cur, z, s), Len((Done ** s).text) <= MaxLen
               PROVE  Remains(at, cur, z, s)
    BY <1>10, SoundStay DEF Same
  <2>1. PICK p \in Opd : Head(p.text) = cur /\ s = p ** z
    BY DEF Remains
  <2>2. Expresses(p, p)
    BY <1>2, <1>10, <2>1 DEF Expresses
  <2>3. p \in Expr
    BY <1>1, <1>3, <2>1, <2>2, ExprMade
  <2> QED
    BY <1>1, <2>1, <2>3 DEF Remains
<1> QED
  BY <1>6, <1>7, <1>8, <1>9, <1>10 DEF Expression

\* parseRangeSelector's operand is read soundly.
LEMMA SoundSelector ==
  ASSUME TypeOK, TypeOK', RoomInv, SoundInv, Selector
  PROVE  SoundInv'
<1>1. Done \in Phrase /\ stack \in Seq(Calls) /\ at = "selector" /\ cur \in AllTokens
  BY DonePhrase DEF TypeOK, Selector
<1>2. \A y \in Closings(stack) : y \in Phrase
  BY DEF Closings
<1>3. RangePhrases \subseteq Phrase /\ Expr \subseteq Phrase
  BY PhraseParts, Grammar
<1>4. CASE cur = "(" /\ Eat("expression") /\ Call("paren")
  <2> SUFFICES ASSUME NEW z \in Closings(stack'), NEW s \in Phrase,
                      Remains("expression", peek, z, s)
               PROVE  \E y \in Closings(stack) : Remains(at, cur, y, Tok(cur) ** s)
    BY <1>4, SoundEat DEF Call
  <2>1. PICK y \in Closings(stack), r \in RangePhrases : z = Tok(")") ** (r ** y)
    <3>1. "paren" \in Calls /\ "paren" \notin Operators
      BY DEF Calls, Operators
    <3>2. \E y \in Closings(stack) : Closes("paren", z, y)
      BY <1>1, <1>4, <3>1, ClosingsPushed DEF Call
    <3> QED
      BY <3>1, <3>2 DEF Closes
  <2>2. PICK e \in Expr : s = e ** z
    BY DEF Remains
  <2> DEFINE p == Tok("(") ** (e ** (Tok(")") ** r))
  <2>3. Tok("(") \in Phrase /\ Tok(")") \in Phrase /\ "(" \in AllTokens
    BY PhraseParts, Vocabulary
  <2>4. p ** y = Tok(cur) ** s
    <3>1. p ** y = Tok("(") ** (e ** (Tok(")") ** (r ** y)))
      BY <1>2, <1>3, <2>3, RegroupedFive
    <3> QED
      BY <1>4, <2>1, <2>2, <3>1
  <2>5. p \in Opd
    BY OperandParts
  <2>6. Head(p.text) = "("
    <3>1. e ** (Tok(")") ** r) \in Phrase
      BY <1>3, <2>3, Composed
    <3> QED
      BY <2>3, <3>1, Starts
  <2> HIDE DEF p
  <2> QED
    BY <1>1, <1>4, <2>4, <2>5, <2>6 DEF Remains
<1>5. CASE cur \in Idents /\ Eat("suffix") /\ Make("metric") /\ UNCHANGED stack
  <2>1. cur # "eof" /\ "metric" \in Nodes
    BY <1>5, Vocabulary DEF Idents
  <2> DEFINE x == Tok(cur) ** Node("metric")
  <2>2. Tok(cur) \in Phrase /\ Node("metric") \in Phrase
    BY <1>1, <2>1, Composition
  <2>3. x \in Phrase /\ Done' = Done ** x /\ at' = "suffix" /\ cur' = peek
    BY <1>5, <2>1, <2>2, Composed, DoneEat
  <2> SUFFICES ASSUME NEW z \in Closings(stack), NEW s \in Phrase,
                      Remains("suffix", peek, z, s)
               PROVE  Remains(at, cur, z, x ** s)
    <3> HIDE DEF x
    <3> QED
      BY <1>5, <2>3, SoundMove
  <2>4. PICK r \in RangePhrases : s = r ** z
    BY DEF Remains
  <2> DEFINE p == Tok(cur) ** (Node("metric") ** r)
  <2>5. x ** s = p ** z
    BY <1>2, <1>3, <2>2, <2>4, RegroupedFive
  <2>6. p \in Opd
    BY <1>5, OperandParts
  <2>7. Head(p.text) = cur
    <3>1. Node("metric") ** r \in Phrase
      BY <1>3, <2>2, Composed
    <3> QED
      BY <1>1, <3>1, Starts
  <2> HIDE DEF p, x
  <2> QED
    BY <1>1, <2>5, <2>6, <2>7 DEF Remains
<1>6. CASE Refuse
  BY <1>6, SoundNothing DEF Refuse, Stay
<1> QED
  BY <1>4, <1>5, <1>6 DEF Selector

\* The range after an operand is read soundly.
LEMMA SoundRange ==
  ASSUME TypeOK, TypeOK', RoomInv, SoundInv, Suffix \/ Duration \/ Unit \/ RangeClose
  PROVE  SoundInv'
<1>1. Done \in Phrase /\ cur \in AllTokens
  BY DonePhrase
<1>2. \A y \in Closings(stack) : y \in Phrase
  BY DEF Closings
<1>3. RangePhrases \subseteq Phrase /\ Empty \in RangePhrases
  BY PhraseParts DEF RangePhrases
<1>4. CASE Refuse
  BY <1>4, SoundNothing DEF Refuse, Stay
<1>5. CASE at = "suffix" /\ cur = "[" /\ Eat("duration") /\ Same
  <2> SUFFICES ASSUME NEW z \in Closings(stack), NEW s \in Phrase,
                      Remains("duration", peek, z, s)
               PROVE  Remains(at, cur, z, Tok(cur) ** s)
    BY <1>5, SoundEat DEF Same
  <2>1. PICK u \in Units : s = Tok("num") ** (Say(u) ** (Tok("]") ** (Node("range") ** z)))
    BY DEF Remains
  <2>2. Tok(cur) ** s = RangePhrase(u) ** z /\ RangePhrase(u) \in RangePhrases
    BY <1>2, <1>5, <2>1, DurationRegrouped DEF RangePhrases
  <2> QED
    BY <1>5, <2>2 DEF Remains
<1>6. CASE at = "suffix" /\ Stay("return") /\ Same
  <2> SUFFICES ASSUME NEW z \in Closings(stack), NEW s \in Phrase, Remains("return", cur, z, s)
               PROVE  Remains(at, cur, z, s)
    BY <1>6, SoundStay DEF Same
  <2>1. s = z /\ Empty ** z = z
    BY <1>2, Composition DEF Remains
  <2> QED
    BY <1>3, <1>6, <2>1 DEF Remains
<1>7. CASE at = "duration" /\ cur = "num" /\ Eat("unit") /\ Same
  <2> SUFFICES ASSUME NEW z \in Closings(stack), NEW s \in Phrase, Remains("unit", peek, z, s)
               PROVE  Remains(at, cur, z, Tok(cur) ** s)
    BY <1>7, SoundEat DEF Same
  <2> QED
    BY <1>7 DEF Remains
<1>8. CASE at = "unit" /\ cur \in Idents /\ Eat("rangeClose") /\ Same
  <2>1. cur # "eof"
    BY <1>8 DEF Idents
  <2> SUFFICES ASSUME NEW z \in Closings(stack), NEW s \in Phrase, Remains("rangeClose", peek, z, s)
               PROVE  Remains(at, cur, z, Tok(cur) ** s)
    BY <1>8, <2>1, SoundEat DEF Same
  <2>2. <<cur>> \in Units /\ Say(<<cur>>) = Tok(cur)
    BY <1>1, <1>8, Said DEF Units
  <2>3. s = Tok("]") ** (Node("range") ** z)
    BY DEF Remains
  <2> QED
    BY <1>8, <2>2, <2>3 DEF Remains
<1>9. CASE at = "unit" /\ Stay("rangeClose") /\ Same
  <2> SUFFICES ASSUME NEW z \in Closings(stack), NEW s \in Phrase, Remains("rangeClose", cur, z, s)
               PROVE  Remains(at, cur, z, s)
    BY <1>9, SoundStay DEF Same
  <2>1. <<>> \in Units /\ Say(<<>>) ** s = s
    BY Said, Composition DEF Units
  <2>2. s = Tok("]") ** (Node("range") ** z)
    BY DEF Remains
  <2> QED
    BY <1>9, <2>1, <2>2 DEF Remains
<1>10. CASE at = "rangeClose" /\ cur = "]" /\ Eat("return") /\ Make("range") /\ UNCHANGED stack
  <2>1. cur # "eof" /\ "range" \in Nodes
    BY <1>10, Vocabulary
  <2> DEFINE x == Tok(cur) ** Node("range")
  <2>2. Tok(cur) \in Phrase /\ Node("range") \in Phrase
    BY <1>1, <2>1, Composition
  <2>3. x \in Phrase /\ Done' = Done ** x /\ at' = "return" /\ cur' = peek
    BY <1>10, <2>1, <2>2, Composed, DoneEat
  <2> SUFFICES ASSUME NEW z \in Closings(stack), NEW s \in Phrase, Remains("return", peek, z, s)
               PROVE  Remains(at, cur, z, x ** s)
    <3> HIDE DEF x
    <3> QED
      BY <1>10, <2>3, SoundMove
  <2>4. x ** s = Tok("]") ** (Node("range") ** z)
    BY <1>2, <1>10, <2>2, Regrouped DEF Remains
  <2> HIDE DEF x
  <2> QED
    BY <1>10, <2>4 DEF Remains
<1> QED
  BY <1>4, <1>5, <1>6, <1>7, <1>8, <1>9, <1>10
  DEF Suffix, LabelMatchers, Duration, Unit, RangeClose, Same

\* An operand is returned soundly.
LEMMA SoundReturn ==
  ASSUME TypeOK, TypeOK', ListInv, RoomInv, SoundInv, Accept \/ ReturnToParen \/ ReturnToOperator
  PROVE  SoundInv'
<1>1. CASE Accept
  <2> SUFFICES ASSUME NEW z \in Closings(stack), NEW s \in Phrase, Remains("accepted", cur, z, s)
               PROVE  Remains(at, cur, z, s)
    BY <1>1, SoundStay DEF Accept, Same
  <2> QED
    BY <1>1 DEF Accept, Remains
<1>2. CASE ReturnToParen
  <2>1. CASE Refuse
    BY <2>1, SoundNothing DEF Refuse, Stay
  <2>2. CASE cur = ")" /\ Eat("suffix") /\ stack' = Rest /\ UNCHANGED nodes
    <3> SUFFICES ASSUME NEW z \in Closings(Rest), NEW s \in Phrase, Remains("suffix", peek, z, s)
                 PROVE  \E y \in Closings(stack) : Remains(at, cur, y, Tok(cur) ** s)
      BY <2>2, SoundEat
    <3>1. PICK r \in RangePhrases : s = r ** z
      BY DEF Remains
    <3>2. Tok(cur) ** s \in Phrase /\ Closes("paren", Tok(cur) ** s, z)
      BY <2>2, <3>1, DonePhrase, Composition DEF Closes
    <3>3. stack = Append(Rest, "paren") /\ Rest \in Seq(Calls) /\ "paren" \in Calls
      BY <1>2, TopAndRest DEF ReturnToParen
    <3>4. Tok(cur) ** s \in Closings(stack)
      BY <3>2, <3>3, ClosingsPushed
    <3> QED
      BY <1>2, <3>4 DEF ReturnToParen, Remains
  <2> QED
    BY <1>2, <2>1, <2>2 DEF ReturnToParen
<1>3. CASE ReturnToOperator
  <2>1. Top \in Calls /\ stack = Append(Rest, Top) /\ Rest \in Seq(Calls)
    BY <1>3, TopAndRest DEF ReturnToOperator
  <2>2. Top \notin Lists
    <3>1. NoList
      BY <1>3, NoListWaits DEF ReturnToOperator
    <3>2. Len(stack) \in DOMAIN stack
      BY <1>3, EmptySeq, LenProperties DEF ReturnToOperator, TypeOK
    <3> QED
      BY <3>1, <3>2 DEF NoList, Top
  <2>3. Top \in Operators /\ Top \in Nodes
    BY <1>3, <2>1, <2>2 DEF ReturnToOperator, Calls, Nodes
  <2> DEFINE x == Node(Top)
  <2>4. x \in Phrase /\ Done' = Done ** x /\ at' = "return" /\ cur' = cur /\ stack' = Rest
    BY <1>3, <2>3, Composition, DoneStay DEF ReturnToOperator, Stay
  <2> SUFFICES ASSUME NEW z \in Closings(Rest), NEW s \in Phrase, Remains("return", cur, z, s)
               PROVE  \E y \in Closings(stack) : Remains(at, cur, y, x ** s)
    <3> HIDE DEF x
    <3> QED
      BY <2>4, SoundMove
  <2>5. s = z
    BY DEF Remains
  <2>6. x ** z \in Phrase /\ Closes(Top, x ** z, z)
    BY <2>3, <2>4, <2>5, Composed DEF Closes
  <2>7. x ** z \in Closings(stack)
    BY <2>1, <2>6, ClosingsPushed
  <2> HIDE DEF x
  <2> QED
    BY <1>3, <2>5, <2>7 DEF ReturnToOperator, Remains
<1> QED
  BY <1>1, <1>2, <1>3

\* What stands before an operand is read soundly.
LEMMA SoundPrefix ==
  ASSUME TypeOK, TypeOK', RoomInv, CallInv, SoundInv,
         Grouping \/ Argument \/ QuantileOpen \/ QuantileValue \/ QuantileComma
  PROVE  SoundInv'
<1>1. CASE Refuse \/ at' = "listOpen"
  BY <1>1, SoundNothing DEF Refuse, Stay, ListSteps
<1>2. CASE at = "grouping" /\ Stay("selector") /\ Same
  <2> SUFFICES ASSUME NEW z \in Closings(stack), NEW s \in Phrase, Remains("selector", cur, z, s)
               PROVE  Remains(at, cur, z, s)
    BY <1>2, SoundStay DEF Same
  <2> QED
    BY <1>2 DEF Remains
<1>3. CASE at = "argument" /\ cur = "(" /\ Stay("selector") /\ Same
  <2> SUFFICES ASSUME NEW z \in Closings(stack), NEW s \in Phrase, Remains("selector", cur, z, s)
               PROVE  Remains(at, cur, z, s)
    BY <1>3, SoundStay DEF Same
  <2> QED
    BY <1>3 DEF Remains
<1>4. CASE at = "quantileOpen" /\ cur = "(" /\ Eat("quantileValue") /\ Same
  <2> SUFFICES ASSUME NEW z \in Closings(stack), NEW s \in Phrase, Remains("quantileValue", peek, z, s)
               PROVE  Remains(at, cur, z, Tok(cur) ** s)
    BY <1>4, SoundEat DEF Same
  <2> QED
    BY <1>4 DEF Remains
<1>5. CASE at = "quantileValue" /\ cur = "num" /\ Eat("quantileComma") /\ Same
  <2> SUFFICES ASSUME NEW z \in Closings(stack), NEW s \in Phrase, Remains("quantileComma", peek, z, s)
               PROVE  Remains(at, cur, z, Tok(cur) ** s)
    BY <1>5, SoundEat DEF Same
  <2> QED
    BY <1>5 DEF Remains
<1>6. CASE QuantileComma
  <2>1. cur = ","
    BY <1>6 DEF CallInv, QuantileComma
  <2> SUFFICES ASSUME NEW z \in Closings(stack), NEW s \in Phrase, Remains("selector", peek, z, s)
               PROVE  Remains(at, cur, z, Tok(cur) ** s)
    BY <1>6, <2>1, SoundEat DEF QuantileComma, Same
  <2> QED
    BY <1>6, <2>1 DEF QuantileComma, Remains
<1> QED
  BY <1>1, <1>2, <1>3, <1>4, <1>5, <1>6
  DEF Grouping, Argument, QuantileOpen, QuantileValue, Eat

\* Every step is sound: nothing remains where a list is read.
LEMMA SoundStep ==
  ASSUME TypeOK, TypeOK', ListInv, RoomInv, CallInv, SoundInv, [Next]_vars
  PROVE  SoundInv'
<1>1. CASE UNCHANGED vars
  <2>1. Done' = Done
    BY <1>1 DEF Done, vars
  <2> QED
    BY <1>1, <2>1 DEF SoundInv, vars
<1>2. CASE ListOpen \/ ListNext \/ ListItem
  <2>1. at' \in ListSteps \cup {"refused"}
    BY <1>2 DEF ListOpen, ListNext, ListItem, EatItem, Stay, Refuse, ListSteps
  <2> QED
    BY <2>1, SoundNothing
<1>3. CASE ListClose
  <2>1. Closings(stack) = {} /\ stack' = stack
    BY <1>3, ListsDontClose DEF CallInv, ListClose, ListSteps, Same
  <2> QED
    BY <2>1 DEF SoundInv
<1> QED
  BY <1>1, <1>2, <1>3, SoundExpression, SoundSelector, SoundRange, SoundReturn, SoundPrefix DEF Next

\* What is accepted has no more to come.
LEMMA AcceptedSound ==
  ASSUME TypeOK, RoomInv, SoundInv, at = "accepted" => stack = <<>>
  PROVE  AcceptedIsSentence
<1> SUFFICES ASSUME at = "accepted" PROVE Done \in Sentences
  BY DEF AcceptedIsSentence, Done
<1>1. Empty \in Closings(stack) /\ Empty \in Phrase /\ Remains(at, cur, Empty, Empty)
  BY ClosingsEmpty, Composition DEF Remains
<1>2. Done ** Empty = Done /\ Done.text = read
  BY DonePhrase, Composition, Fields DEF Done
<1>3. Len(Done.text) <= MaxLen
  BY <1>2 DEF RoomInv
<1>4. Done \in Expr
  BY <1>1, <1>2, <1>3 DEF SoundInv
<1> QED
  BY <1>4, ExprAreSentences

\* Only a parse with no call waiting is accepted.
LEMMA AcceptedStep ==
  ASSUME TypeOK, at = "accepted" => stack = <<>>, [Next]_vars
  PROVE  at' = "accepted" => stack' = <<>>
<1> SUFFICES ASSUME at' = "accepted" PROVE stack' = <<>>
  OBVIOUS
<1>1. CASE UNCHANGED vars
  BY <1>1 DEF vars
<1>2. CASE Accept
  BY <1>2 DEF Accept, Same
<1>3. CASE Next /\ ~Accept
  <2>1. at' # "accepted"
    BY <1>3 DEF Next, Expression, Grouping, Argument, QuantileOpen, QuantileValue, QuantileComma,
         ListOpen, ListClose, ListNext, ListItem, Selector, LabelMatchers, Suffix, Duration,
         Unit, RangeClose, ReturnToParen, ReturnToOperator, Eat, EatItem, Stay, Refuse
  <2> QED
    BY <2>1
<1> QED
  BY <1>1, <1>2, <1>3

\* The parser's invariant: all that is known of its state.
ParseInv == TypeOK /\ ListInv /\ RoomInv /\ CallInv /\ SoundInv /\ (at = "accepted" => stack = <<>>)

\* At the start all of the expression remains.
LEMMA SoundInit ==
  ASSUME Init
  PROVE  RoomInv /\ CallInv /\ SoundInv
<1>1. RoomInv
  <2>1. Len(read) = 0
    BY DEF Init
  <2> QED
    BY <2>1, MaxLenAssumption DEF RoomInv
<1>2. CallInv
  BY DEF Init, CallInv, ListSteps
<1>3. ASSUME at = "expression" PROVE SoundInv
  <2>1. Done = Empty
    BY DEF Init, Done, Empty
  <2> SUFFICES ASSUME NEW z \in Closings(stack), NEW s \in Phrase, Remains(at, cur, z, s)
               PROVE  Done ** s \in Expr
    BY DEF SoundInv
  <2>2. PICK e \in Expr : s = e ** z
    BY <1>3 DEF Remains
  <2>3. z = Empty /\ e \in Phrase
    BY ClosingsEmpty, Grammar DEF Init
  <2>4. s = e /\ Done ** s = s
    BY <2>1, <2>2, <2>3, Composition
  <2> QED
    BY <2>4
<1>4. ASSUME at = "refused" PROVE SoundInv
  <2>1. \A z, s : ~Remains(at, cur, z, s)
    BY <1>4 DEF Remains
  <2> QED
    BY <2>1 DEF SoundInv
<1> QED
  BY <1>1, <1>2, <1>3, <1>4 DEF Init

\* What parser.go accepts is, in every parse, a sentence of the grammar read to its
\* end and no further, and the tree built is that sentence's: for any vocabulary
\* and any length of expression.
THEOREM AcceptedAreSentences == Spec => []AcceptedIsSentence
<1>1. Init => ParseInv
  BY SoundInit DEF Init, ParseInv, ListInv, ListsNeverTaken, TypeOK, Steps
<1>2. ParseInv /\ [Next]_vars => ParseInv'
  BY TypeStep, ListStep, RoomStep, CallStep, SoundStep, AcceptedStep DEF ParseInv
<1>3. ParseInv => AcceptedIsSentence
  BY AcceptedSound DEF ParseInv
<1> QED
  BY <1>1, <1>2, <1>3, PTL DEF Spec

------------------------------------------------------------------------------
(* Completeness: every expression begun like this can still come.          *)

\* The rest of the text, as far as the parser sees it: its current token, and
\* the one after.
Ahead(c, rem) == IF c = "eof" THEN rem = <<>> ELSE \E rest \in Text : rem = <<c>> \o rest

\* The same with the token after.
AheadTwo(c, d, rem) ==
  IF c = "eof" THEN rem = <<>> ELSE \E rest \in Text : rem = <<c>> \o rest /\ Ahead(d, rest)

\* No text begins with what was read.
Lost == \A e \in Expr, rem \in Text : e.text # read \o rem

\* Every text that begins with what was read goes on with what remains.
Live ==
  \A e \in Expr, rem \in Text :
    e.text = read \o rem /\ Ahead(cur, rem) =>
      \E z \in Closings(stack), s \in Phrase : Remains(at, cur, z, s) /\ s.text = rem

\* A parse that no expression begins like has lost for good; the steps of a list
\* are taken only then.  Any other can still go on, unless it has ended: by
\* accepting, or by refusing what the parser sees.
CompleteInv ==
  \/ Lost
  \/ at = "accepted"
  \/ at = "refused" /\ \A e \in Expr, rem \in Text :
                          e.text = read \o rem => ~AheadTwo(cur, peek, rem)
  \/ at \notin ListSteps \cup {"refused", "accepted"} /\ Live

\* What the parser sees of a phrase that starts with a token.
LEMMA AheadToken ==
  ASSUME NEW t \in AllTokens \ {"eof"}, NEW x \in Phrase, NEW c \in AllTokens, NEW d \in AllTokens
  PROVE  /\ Ahead(c, (Tok(t) ** x).text) => c = t
         /\ AheadTwo(c, d, (Tok(t) ** x).text) => c = t /\ Ahead(d, x.text)
         /\ \A rem : AheadTwo(c, d, rem) => Ahead(c, rem)
<1>1. \A rest \in Text : (Tok(t) ** x).text = <<c>> \o rest => c = t /\ x.text = rest
  <2>1. \A a \in AllTokens, rem \in Text : (Tok(t) ** x).text = <<a>> \o rem => a = t /\ x.text = rem
    BY Starts
  <2> QED
    BY <2>1
<1>2. (Tok(t) ** x).text # <<>>
  BY Starts
<1>3. Ahead(c, (Tok(t) ** x).text) => c = t
  BY <1>1, <1>2 DEF Ahead
<1>4. AheadTwo(c, d, (Tok(t) ** x).text) => c = t /\ Ahead(d, x.text)
  BY <1>1, <1>2 DEF AheadTwo
<1>5. \A rem : AheadTwo(c, d, rem) => Ahead(c, rem)
  BY DEF AheadTwo, Ahead
<1> QED
  BY <1>3, <1>4, <1>5

\* What starts a text starts its first part.
LEMMA FirstPart ==
  ASSUME NEW p \in Phrase, p.text # <<>>, NEW z \in Phrase, NEW c \in AllTokens
  PROVE  /\ Ahead(c, (p ** z).text) => c # "eof" /\ Head(p.text) = c
         /\ \A rem \in Text : (p ** z).text = <<c>> \o rem => Head(p.text) = c
<1>1. p.text \in Text /\ z.text \in Text /\ (p ** z).text = p.text \o z.text
  BY Fields, PhraseFields
<1>2. p.text \o z.text # <<>> /\ Head(p.text \o z.text) = Head(p.text)
  <2>1. p.text \o z.text # <<>>
    BY <1>1, Concat
  <2>2. \A a, b \in Text : a # <<>> => \A d \in AllTokens : Head(a \o b) = Head(a)
    BY Cons
  <2> QED
    BY <1>1, <2>1, <2>2
<1>3. \A rem \in Text : Head(<<c>> \o rem) = c
  BY Cons
<1>4. \A rem \in Text : (p ** z).text = <<c>> \o rem => Head(p.text) = c
  BY <1>1, <1>2, <1>3
<1> QED
  BY <1>1, <1>2, <1>4 DEF Ahead

\* No step finds an expression again.
LEMMA LostStep ==
  ASSUME TypeOK, RoomInv, Lost, [Next]_vars
  PROVE  Lost'
<1>1. CASE read' = read
  BY <1>1 DEF Lost
<1>2. ASSUME NEW t \in Tokens, read' = read \o <<t>>
      PROVE  Lost'
  <2> SUFFICES ASSUME NEW e \in Expr, NEW rem \in Text, e.text = read' \o rem
               PROVE  FALSE
    BY DEF Lost
  <2>1. <<t>> \in Text /\ read \in Text
    BY DonePhrase, Cons, TokensAssumption
  <2>2. (read \o <<t>>) \o rem = read \o (<<t>> \o rem)
    BY <2>1, Concat
  <2>3. <<t>> \o rem \in Text
    BY <2>1, Concat
  <2> QED
    BY <1>2, <2>2, <2>3 DEF Lost
<1>3. \/ read' = read
      \/ \E t \in Tokens : read' = read \o <<t>>
  BY Reads, NextTokenReads DEF vars
<1> QED
  BY <1>1, <1>2, <1>3

\* A token read on is one that was ahead.
LEMMA ReadOn ==
  ASSUME TypeOK, RoomInv, cur # "eof", NEW step, Eat(step), NEW rem \in Text
  PROVE  /\ read' \o rem = read \o (<<cur>> \o rem)
         /\ <<cur>> \o rem \in Text /\ Ahead(cur, <<cur>> \o rem)
<1>1. read' = read \o <<cur>>
  BY DoneEat
<1>2. read \in Text /\ <<cur>> \in Text
  BY DonePhrase, Cons
<1>3. (read \o <<cur>>) \o rem = read \o (<<cur>> \o rem)
  BY <1>2, Concat
<1>4. <<cur>> \o rem \in Text
  BY <1>2, Concat
<1> QED
  BY <1>1, <1>3, <1>4 DEF Ahead

\* The ways to move on: past a token, into a list, without one, and to a refusal.
LEMMA LiveEat ==
  ASSUME TypeOK, RoomInv, Live, cur # "eof", NEW step, Eat(step),
         step \notin ListSteps \cup {"refused", "accepted"},
         \A z \in Closings(stack), s \in Phrase, rem \in Text :
           Remains(at, cur, z, s) /\ s.text = <<cur>> \o rem /\ Ahead(peek, rem) =>
             \E y \in Closings(stack'), x \in Phrase : Remains(step, peek, y, x) /\ x.text = rem
  PROVE  CompleteInv'
<1>1. at' = step /\ cur' = peek
  BY DoneEat
<1> SUFFICES ASSUME NEW e \in Expr, NEW rem \in Text, e.text = read' \o rem, Ahead(cur', rem)
             PROVE  \E y \in Closings(stack'), x \in Phrase : Remains(at', cur', y, x) /\ x.text = rem
  BY <1>1 DEF CompleteInv, Live
<1>3. /\ e.text = read \o (<<cur>> \o rem)
      /\ <<cur>> \o rem \in Text /\ Ahead(cur, <<cur>> \o rem)
  <2>1. /\ read' \o rem = read \o (<<cur>> \o rem)
        /\ <<cur>> \o rem \in Text /\ Ahead(cur, <<cur>> \o rem)
    BY ReadOn
  <2> QED
    BY <2>1
<1>2. PICK z \in Closings(stack), s \in Phrase : Remains(at, cur, z, s) /\ s.text = <<cur>> \o rem
  BY <1>3 DEF Live
<1> QED
  BY <1>1, <1>2

\* A token that nothing that remained starts with.
LEMMA LostEat ==
  ASSUME TypeOK, RoomInv, Live, cur # "eof", NEW step, Eat(step),
         \A z \in Closings(stack), s \in Phrase, rem \in Text :
           Remains(at, cur, z, s) => s.text # <<cur>> \o rem
  PROVE  CompleteInv'
<1> SUFFICES ASSUME NEW e \in Expr, NEW rem \in Text, e.text = read' \o rem
             PROVE  FALSE
  BY DEF CompleteInv, Lost
<1>1. /\ e.text = read \o (<<cur>> \o rem)
      /\ <<cur>> \o rem \in Text /\ Ahead(cur, <<cur>> \o rem)
  <2>1. /\ read' \o rem = read \o (<<cur>> \o rem)
        /\ <<cur>> \o rem \in Text /\ Ahead(cur, <<cur>> \o rem)
    BY ReadOn
  <2> QED
    BY <2>1
<1>2. PICK z \in Closings(stack), s \in Phrase : Remains(at, cur, z, s) /\ s.text = <<cur>> \o rem
  BY <1>1 DEF Live
<1> QED
  BY <1>2

\* A step without a token.
LEMMA LiveStay ==
  ASSUME TypeOK, Live, NEW step, Stay(step), step \notin ListSteps \cup {"refused", "accepted"},
         \A z \in Closings(stack), s \in Phrase :
           Remains(at, cur, z, s) /\ Ahead(cur, s.text) =>
             \E y \in Closings(stack'), x \in Phrase : Remains(step, cur, y, x) /\ x.text = s.text
  PROVE  CompleteInv'
<1>1. at' = step /\ cur' = cur /\ read' = read
  BY DEF Stay
<1> SUFFICES ASSUME NEW e \in Expr, NEW rem \in Text, e.text = read' \o rem, Ahead(cur', rem)
             PROVE  \E y \in Closings(stack'), x \in Phrase : Remains(at', cur', y, x) /\ x.text = rem
  BY <1>1 DEF CompleteInv, Live
<1>2. PICK z \in Closings(stack), s \in Phrase : Remains(at, cur, z, s) /\ s.text = rem
  BY <1>1 DEF Live
<1> QED
  BY <1>1, <1>2

\* A refusal at tokens that nothing that remained starts with.
LEMMA LiveRefuse ==
  ASSUME TypeOK, Live, Refuse,
         \A z \in Closings(stack), s \in Phrase :
           Remains(at, cur, z, s) => ~AheadTwo(cur, peek, s.text)
  PROVE  CompleteInv'
<1>1. at' = "refused" /\ cur' = cur /\ peek' = peek /\ read' = read
  BY DEF Refuse, Stay
<1> SUFFICES ASSUME NEW e \in Expr, NEW rem \in Text, e.text = read \o rem, AheadTwo(cur, peek, rem)
             PROVE  FALSE
  BY <1>1 DEF CompleteInv
<1>2. Ahead(cur, rem)
  BY DEF Ahead, AheadTwo
<1> QED
  BY <1>2 DEF Live

\* parseAggregation turns no expression away.
LEMMA CompleteExpression ==
  ASSUME TypeOK, RoomInv, Live, Expression
  PROVE  CompleteInv'
<1>1. stack \in Seq(Calls) /\ at = "expression" /\ cur \in AllTokens /\ peek \in AllTokens
  BY DonePhrase DEF TypeOK, Expression
<1>2. \A p \in Opd : p \in Phrase
  BY OperandHeads
<1>3. \A y \in Closings(stack) : y \in Phrase
  BY DEF Closings
<1>4. /\ Tok("agg") \in Phrase /\ Tok("func") \in Phrase
      /\ Node("aggregate") \in Phrase /\ Node("function") \in Phrase /\ Node("quantile") \in Phrase
      /\ Tok("(") \in Phrase /\ Tok("num") \in Phrase /\ Tok(",") \in Phrase
      /\ {"agg", "func", "quantile"} \subseteq AllTokens
  BY PhraseParts, Vocabulary
<1>5. ASSUME NEW c \in Operators, NEW y \in Closings(stack)
      PROVE  Node(c) ** y \in Phrase /\ Node(c) ** y \in Closings(Append(stack, c))
  <2>1. c \in Calls /\ c # "paren" /\ c \in Nodes
    BY DEF Calls, Operators, Nodes
  <2>2. Node(c) ** y \in Phrase
    BY <1>3, <2>1, Composition
  <2> QED
    BY <1>1, <1>5, <2>1, <2>2, ClosingsPushed DEF Closes
<1>6. ASSUME NEW z \in Closings(stack), NEW s \in Phrase, Remains(at, cur, z, s)
      PROVE  \E e \in Expr : /\ s = e ** z
                             /\ \A rem \in Text : s.text = <<cur>> \o rem => Head(e.text) = cur
                             /\ Ahead(cur, s.text) => cur # "eof" /\ Head(e.text) = cur
  <2>1. PICK e \in Expr : s = e ** z
    BY <1>1, <1>6 DEF Remains
  <2>2. e \in Phrase /\ e.text # <<>> /\ z \in Phrase
    BY <1>3, ExprStarts
  <2> QED
    BY <1>1, <2>1, <2>2, FirstPart
<1>7. CASE cur = "agg" /\ Eat("grouping") /\ Call("aggregate")
  <2> SUFFICES ASSUME NEW z \in Closings(stack), NEW s \in Phrase, NEW rem \in Text,
                      Remains(at, cur, z, s), s.text = <<cur>> \o rem
               PROVE  \E y \in Closings(stack'), x \in Phrase : Remains("grouping", peek, y, x) /\ x.text = rem
    BY <1>7, LiveEat DEF ListSteps
  <2>1. PICK e \in Expr : s = e ** z /\ Head(e.text) = "agg"
    BY <1>6, <1>7
  <2>2. PICK p \in Opd : e = Tok("agg") ** (p ** Node("aggregate"))
    BY <2>1, ExprStarts
  <2> DEFINE y == Node("aggregate") ** z
             x == p ** y
  <2>3. y \in Phrase /\ y \in Closings(stack')
    BY <1>5, <1>7 DEF Call, Operators
  <2>4. x \in Phrase /\ s = Tok("agg") ** x
    <3>1. e ** z = Tok("agg") ** (p ** (Node("aggregate") ** z))
      <4>1. Tok("agg") \in Phrase /\ p \in Phrase /\ Node("aggregate") \in Phrase /\ z \in Phrase
        BY <1>2, <1>3, <1>4
      <4> QED
        BY <2>2, <4>1, RegroupedFour
    <3>2. x \in Phrase
      BY <1>2, <2>3, Composed
    <3> QED
      BY <2>1, <3>1, <3>2
  <2> HIDE DEF y
  <2>5. Remains("grouping", peek, y, x)
    BY DEF Remains
  <2> HIDE DEF x
  <2>6. x.text = rem
    <3>1. (Tok("agg") ** x).text = <<"agg">> \o rem /\ "agg" \in AllTokens /\ x \in Phrase
      BY <1>4, <1>7, <2>4
    <3> QED
      BY <3>1, StartRead
  <2> QED
    BY <2>3, <2>4, <2>5, <2>6
<1>8. CASE cur = "func" /\ Eat("argument") /\ Call("function")
  <2> SUFFICES ASSUME NEW z \in Closings(stack), NEW s \in Phrase, NEW rem \in Text,
                      Remains(at, cur, z, s), s.text = <<cur>> \o rem
               PROVE  \E y \in Closings(stack'), x \in Phrase : Remains("argument", peek, y, x) /\ x.text = rem
    BY <1>8, LiveEat DEF ListSteps
  <2>1. PICK e \in Expr : s = e ** z /\ Head(e.text) = "func"
    BY <1>6, <1>8
  <2>2. PICK p \in Opd : Head(p.text) = "(" /\ e = Tok("func") ** (p ** Node("function"))
    BY <2>1, ExprStarts
  <2> DEFINE y == Node("function") ** z
             x == p ** y
  <2>3. y \in Phrase /\ y \in Closings(stack')
    BY <1>5, <1>8 DEF Call, Operators
  <2>4. x \in Phrase /\ s = Tok("func") ** x
    <3>1. e ** z = Tok("func") ** (p ** (Node("function") ** z))
      <4>1. Tok("func") \in Phrase /\ p \in Phrase /\ Node("function") \in Phrase /\ z \in Phrase
        BY <1>2, <1>3, <1>4
      <4> QED
        BY <2>2, <4>1, RegroupedFour
    <3>2. x \in Phrase
      BY <1>2, <2>3, Composed
    <3> QED
      BY <2>1, <3>1, <3>2
  <2> HIDE DEF y
  <2>5. Remains("argument", peek, y, x)
    BY <2>2 DEF Remains
  <2> HIDE DEF x
  <2>6. x.text = rem
    <3>1. (Tok("func") ** x).text = <<"func">> \o rem /\ "func" \in AllTokens /\ x \in Phrase
      BY <1>4, <1>8, <2>4
    <3> QED
      BY <3>1, StartRead
  <2> QED
    BY <2>3, <2>4, <2>5, <2>6
<1>9. CASE cur = "quantile" /\ Eat("quantileOpen") /\ Call("quantile")
  <2> SUFFICES ASSUME NEW z \in Closings(stack), NEW s \in Phrase, NEW rem \in Text,
                      Remains(at, cur, z, s), s.text = <<cur>> \o rem
               PROVE  \E y \in Closings(stack'), x \in Phrase : Remains("quantileOpen", peek, y, x) /\ x.text = rem
    BY <1>9, LiveEat DEF ListSteps
  <2>1. PICK e \in Expr : s = e ** z /\ Head(e.text) = "quantile"
    BY <1>6, <1>9
  <2>2. PICK p \in Opd : e = QuantilePhrase(p)
    BY <2>1, ExprStarts
  <2> DEFINE y == Node("quantile") ** z
             x == Tok("(") ** (Tok("num") ** (Tok(",") ** (p ** y)))
  <2>3. y \in Phrase /\ y \in Closings(stack')
    BY <1>5, <1>9 DEF Call, Operators
  <2>4. s = Tok("quantile") ** x
    BY <1>2, <1>3, <2>1, <2>2, QuantileRegrouped
  <2> HIDE DEF y
  <2>5. x \in Phrase
    <3>1. p ** y \in Phrase
      BY <1>2, <2>3, Composed
    <3>2. Tok(",") ** (p ** y) \in Phrase
      BY <1>4, <3>1, Composed
    <3>3. Tok("num") ** (Tok(",") ** (p ** y)) \in Phrase
      BY <1>4, <3>2, Composed
    <3> QED
      BY <1>4, <3>3, Composed
  <2>6. Remains("quantileOpen", peek, y, x)
    BY DEF Remains
  <2> HIDE DEF x
  <2>7. x.text = rem
    <3>1. (Tok("quantile") ** x).text = <<"quantile">> \o rem /\ "quantile" \in AllTokens /\ x \in Phrase
      BY <1>4, <1>9, <2>4, <2>5
    <3> QED
      BY <3>1, StartRead
  <2> QED
    BY <2>3, <2>5, <2>6, <2>7
<1>10. CASE cur = "labels" /\ Eat("listOpen")
  <2> SUFFICES ASSUME NEW z \in Closings(stack), NEW s \in Phrase, NEW rem \in Text,
                      Remains(at, cur, z, s), s.text = <<cur>> \o rem
               PROVE  FALSE
    BY <1>10, LostEat
  <2>1. PICK e \in Expr : Head(e.text) = "labels"
    BY <1>6, <1>10
  <2> QED
    BY <2>1, ExprStarts
<1>11. CASE cur \notin Idents \ {"name"} /\ Stay("selector") /\ Same
  <2> SUFFICES ASSUME NEW z \in Closings(stack), NEW s \in Phrase,
                      Remains(at, cur, z, s), Ahead(cur, s.text)
               PROVE  Remains("selector", cur, z, s)
    BY <1>11, LiveStay DEF ListSteps, Same
  <2>1. PICK e \in Expr : s = e ** z /\ Head(e.text) = cur
    BY <1>6
  <2>2. e \in Opd
    BY <1>11, <2>1, ExprStarts DEF Idents
  <2> QED
    BY <2>1, <2>2 DEF Remains
<1> QED
  BY <1>7, <1>8, <1>9, <1>10, <1>11 DEF Expression

\* What the parser sees of an operand and what follows it.
LEMMA OperandAhead ==
  ASSUME TypeOK, NEW p \in Opd, NEW z \in Closings(stack)
  PROVE  /\ p ** z \in Phrase
         /\ Ahead(cur, (p ** z).text) => cur # "eof" /\ Head(p.text) = cur
         /\ \A rem \in Text : (p ** z).text = <<cur>> \o rem => Head(p.text) = cur
         /\ Head(p.text) \in Idents \cup {"("}
<1>1. p \in Phrase /\ p.text # <<>> /\ Head(p.text) \in Idents \cup {"("}
  BY OperandHeads
<1>2. z \in Phrase /\ cur \in AllTokens
  BY DonePhrase DEF Closings
<1> QED
  BY <1>1, <1>2, FirstPart, Composed

\* Who sees two tokens sees one.
LEMMA AheadOfTwo ==
  \A c, d, rem : AheadTwo(c, d, rem) => Ahead(c, rem)
BY DEF Ahead, AheadTwo

\* What stands before an operand turns none away.
LEMMA CompletePrefix ==
  ASSUME TypeOK, RoomInv, CallInv, Live,
         Grouping \/ Argument \/ QuantileOpen \/ QuantileValue \/ QuantileComma
  PROVE  CompleteInv'
<1>1. cur \in AllTokens /\ peek \in AllTokens
  BY DonePhrase
<1>2. /\ Tok("(") \in Phrase /\ Tok("num") \in Phrase /\ Tok(",") \in Phrase
      /\ {"(", "num", ","} \subseteq AllTokens \ {"eof"}
  BY PhraseParts, Vocabulary
<1>3. CASE Grouping
  <2>1. CASE cur = "by" /\ Eat("listOpen")
    <3> SUFFICES ASSUME NEW z \in Closings(stack), NEW s \in Phrase, NEW rem \in Text,
                        Remains(at, cur, z, s), s.text = <<cur>> \o rem
                 PROVE  FALSE
      BY <2>1, LostEat
    <3>1. PICK p \in Opd : s = p ** z
      BY <1>3 DEF Grouping, Remains
    <3>2. "by" \in Idents \cup {"("}
      BY <2>1, <3>1, OperandAhead
    <3> QED
      BY <3>2 DEF Idents
  <2>2. CASE Stay("selector") /\ Same
    <3> SUFFICES ASSUME NEW z \in Closings(stack), NEW s \in Phrase,
                        Remains(at, cur, z, s), Ahead(cur, s.text)
                 PROVE  Remains("selector", cur, z, s)
      BY <2>2, LiveStay DEF ListSteps, Same
    <3>1. PICK p \in Opd : s = p ** z
      BY <1>3 DEF Grouping, Remains
    <3> QED
      BY <3>1, OperandAhead DEF Remains
  <2> QED
    BY <1>3, <2>1, <2>2 DEF Grouping
<1>4. CASE Argument
  <2>1. ASSUME NEW z \in Closings(stack), NEW s \in Phrase,
               Remains(at, cur, z, s), Ahead(cur, s.text)
        PROVE  cur = "(" /\ Remains("selector", cur, z, s)
    <3>1. PICK p \in Opd : s = p ** z /\ Head(p.text) = "("
      BY <1>4, <2>1 DEF Argument, Remains
    <3> QED
      BY <2>1, <3>1, OperandAhead DEF Remains
  <2>2. CASE cur = "(" /\ Stay("selector") /\ Same
    BY <2>1, <2>2, LiveStay DEF ListSteps, Same
  <2>3. CASE cur # "(" /\ Refuse
    BY <2>1, <2>3, LiveRefuse, AheadOfTwo
  <2> QED
    BY <1>4, <2>2, <2>3 DEF Argument
<1>5. CASE QuantileOpen
  <2>1. ASSUME NEW z \in Closings(stack), NEW s \in Phrase, Remains(at, cur, z, s)
        PROVE  \E x, y \in Phrase : /\ s = Tok("(") ** x /\ x = Tok("num") ** y
                                    /\ Remains("quantileValue", peek, z, x)
    <3>1. PICK p \in Opd : s = Tok("(") ** (Tok("num") ** (Tok(",") ** (p ** z)))
      BY <1>5, <2>1 DEF QuantileOpen, Remains
    <3>2. Tok(",") ** (p ** z) \in Phrase
      BY <1>2, Composed, OperandAhead
    <3>3. Tok("num") ** (Tok(",") ** (p ** z)) \in Phrase
      BY <1>2, <3>2, Composed
    <3> QED
      BY <3>1, <3>2, <3>3 DEF Remains
  <2>2. CASE cur = "(" /\ peek # "," /\ Eat("quantileValue") /\ Same
    <3> SUFFICES ASSUME NEW z \in Closings(stack), NEW s \in Phrase, NEW rem \in Text,
                        Remains(at, cur, z, s), s.text = <<cur>> \o rem
                 PROVE  \E x \in Phrase : Remains("quantileValue", peek, z, x) /\ x.text = rem
      BY <2>2, LiveEat DEF ListSteps, Same
    <3>1. PICK x \in Phrase : s = Tok("(") ** x /\ Remains("quantileValue", peek, z, x)
      BY <2>1
    <3>2. x.text = rem
      <4>1. (Tok("(") ** x).text = <<"(">> \o rem /\ "(" \in AllTokens
        BY <1>2, <2>2, <3>1
      <4> QED
        BY <4>1, StartRead
    <3> QED
      BY <3>1, <3>2
  <2>3. CASE ~(cur = "(" /\ peek # ",") /\ Refuse
    <3> SUFFICES ASSUME NEW z \in Closings(stack), NEW s \in Phrase,
                        Remains(at, cur, z, s), AheadTwo(cur, peek, s.text)
                 PROVE  FALSE
      BY <2>3, LiveRefuse
    <3>1. PICK x, y \in Phrase : s = Tok("(") ** x /\ x = Tok("num") ** y
      BY <2>1
    <3>2. cur = "(" /\ Ahead(peek, x.text)
      <4>1. AheadTwo(cur, peek, (Tok("(") ** x).text) /\ "(" \in AllTokens \ {"eof"}
        BY <1>2, <3>1
      <4> QED
        BY <1>1, <4>1, AheadToken
    <3>3. peek = "num"
      <4>1. Ahead(peek, (Tok("num") ** y).text) /\ "num" \in AllTokens \ {"eof"}
        BY <1>2, <3>1, <3>2
      <4> QED
        BY <1>1, <4>1, AheadToken
    <3> QED
      BY <2>3, <3>2, <3>3
  <2> QED
    BY <1>5, <2>2, <2>3 DEF QuantileOpen
<1>6. CASE QuantileValue
  <2>1. ASSUME NEW z \in Closings(stack), NEW s \in Phrase, Remains(at, cur, z, s)
        PROVE  \E x, y \in Phrase : /\ s = Tok("num") ** x /\ x = Tok(",") ** y
                                    /\ Remains("quantileComma", peek, z, x)
    <3>1. PICK p \in Opd : s = Tok("num") ** (Tok(",") ** (p ** z))
      BY <1>6, <2>1 DEF QuantileValue, Remains
    <3>2. p ** z \in Phrase
      BY OperandAhead
    <3>3. Tok(",") ** (p ** z) \in Phrase
      BY <1>2, <3>2, Composed
    <3> QED
      BY <3>1, <3>2, <3>3 DEF Remains
  <2>2. CASE cur = "num" /\ peek = "," /\ Eat("quantileComma") /\ Same
    <3> SUFFICES ASSUME NEW z \in Closings(stack), NEW s \in Phrase, NEW rem \in Text,
                        Remains(at, cur, z, s), s.text = <<cur>> \o rem
                 PROVE  \E x \in Phrase : Remains("quantileComma", peek, z, x) /\ x.text = rem
      BY <2>2, LiveEat DEF ListSteps, Same
    <3>1. PICK x \in Phrase : s = Tok("num") ** x /\ Remains("quantileComma", peek, z, x)
      BY <2>1
    <3>2. x.text = rem
      <4>1. (Tok("num") ** x).text = <<"num">> \o rem /\ "num" \in AllTokens
        BY <1>2, <2>2, <3>1
      <4> QED
        BY <4>1, StartRead
    <3> QED
      BY <3>1, <3>2
  <2>3. CASE ~(cur = "num" /\ peek = ",") /\ Refuse
    <3> SUFFICES ASSUME NEW z \in Closings(stack), NEW s \in Phrase,
                        Remains(at, cur, z, s), AheadTwo(cur, peek, s.text)
                 PROVE  FALSE
      BY <2>3, LiveRefuse
    <3>1. PICK x, y \in Phrase : /\ s = Tok("num") ** x /\ x = Tok(",") ** y
                               /\ Remains("quantileComma", peek, z, x)
      BY <2>1
    <3>2. cur = "num" /\ Ahead(peek, x.text)
      <4>1. AheadTwo(cur, peek, (Tok("num") ** x).text) /\ "num" \in AllTokens \ {"eof"}
        BY <1>2, <3>1
      <4> QED
        BY <1>1, <4>1, AheadToken
    <3>3. peek = ","
      <4>1. Ahead(peek, (Tok(",") ** y).text) /\ "," \in AllTokens \ {"eof"}
        BY <1>2, <3>1, <3>2
      <4> QED
        BY <1>1, <4>1, AheadToken
    <3> QED
      BY <2>3, <3>2, <3>3
  <2> QED
    BY <1>6, <2>2, <2>3 DEF QuantileValue
<1>7. CASE QuantileComma
  <2>1. cur = "," /\ Eat("selector") /\ Same /\ at = "quantileComma"
    BY <1>7 DEF CallInv, QuantileComma
  <2> SUFFICES ASSUME NEW z \in Closings(stack), NEW s \in Phrase, NEW rem \in Text,
                      Remains(at, cur, z, s), s.text = <<cur>> \o rem, Ahead(peek, rem)
               PROVE  \E x \in Phrase : Remains("selector", peek, z, x) /\ x.text = rem
    BY <2>1, LiveEat DEF ListSteps, Same
  <2>2. PICK p \in Opd : s = Tok(",") ** (p ** z)
    BY <2>1 DEF Remains
  <2>3. p \in Phrase /\ p.text # <<>> /\ z \in Phrase /\ p ** z \in Phrase
    BY OperandHeads, OperandAhead DEF Closings
  <2> DEFINE x == p ** z
  <2>4. x.text = rem
    <3>1. (Tok(",") ** x).text = <<",">> \o rem /\ "," \in AllTokens /\ x \in Phrase
      BY <1>2, <2>1, <2>2, <2>3
    <3> HIDE DEF x
    <3>2. "," = "," /\ x.text = rem
      BY <3>1, StartRest
    <3> QED
      BY <3>2
  <2>5. Head(p.text) = peek
    BY <1>1, <2>3, <2>4, FirstPart
  <2> QED
    BY <2>3, <2>4, <2>5 DEF Remains
<1> QED
  BY <1>3, <1>4, <1>5, <1>6, <1>7

\* parseRangeSelector turns none away, at its operand.
LEMMA CompleteSelector ==
  ASSUME TypeOK, RoomInv, Live, Selector
  PROVE  CompleteInv'
<1>1. stack \in Seq(Calls) /\ at = "selector" /\ cur \in AllTokens
  BY DonePhrase DEF TypeOK, Selector
<1>2. \A y \in Closings(stack) : y \in Phrase
  BY DEF Closings
<1>3. RangePhrases \subseteq Phrase /\ Expr \subseteq Phrase
  BY PhraseParts, Grammar
<1>4. /\ Tok("(") \in Phrase /\ Tok(")") \in Phrase /\ Node("metric") \in Phrase
      /\ "(" \in AllTokens /\ "metric" \in Nodes /\ Idents \subseteq AllTokens
  BY PhraseParts, Vocabulary
<1>5. ASSUME NEW z \in Closings(stack), NEW s \in Phrase, Remains(at, cur, z, s)
      PROVE  \E p \in Opd, r \in RangePhrases :
               /\ s = p ** z /\ Head(p.text) = cur
               /\ \/ cur \in Idents /\ p = Tok(cur) ** (Node("metric") ** r)
                  \/ cur = "(" /\ \E e \in Expr : p = Tok("(") ** (e ** (Tok(")") ** r))
  <2>1. PICK p \in Opd : s = p ** z /\ Head(p.text) = cur
    BY <1>1, <1>5 DEF Remains
  <2>2. PICK r \in RangePhrases :
          \/ \E i \in Idents : p = Tok(i) ** (Node("metric") ** r)
          \/ \E e \in Expr : p = Tok("(") ** (e ** (Tok(")") ** r))
    BY OperandParts
  <2>3. ASSUME NEW i \in Idents, p = Tok(i) ** (Node("metric") ** r)
        PROVE  i = cur
    <3>1. Node("metric") ** r \in Phrase
      BY <1>3, <1>4, Composed
    <3>2. Head(p.text) = i
      BY <1>4, <2>3, <3>1, Starts
    <3> QED
      BY <2>1, <3>2
  <2>4. ASSUME NEW e \in Expr, p = Tok("(") ** (e ** (Tok(")") ** r))
        PROVE  cur = "("
    <3>1. Tok(")") ** r \in Phrase
      BY <1>3, <1>4, Composed
    <3>2. e ** (Tok(")") ** r) \in Phrase
      BY <1>3, <3>1, Composed
    <3>3. Head(p.text) = "("
      BY <1>4, <2>4, <3>2, Starts
    <3> QED
      BY <2>1, <3>3
  <2> QED
    BY <2>1, <2>2, <2>3, <2>4
<1>6. CASE cur = "(" /\ Eat("expression") /\ Call("paren")
  <2> SUFFICES ASSUME NEW z \in Closings(stack), NEW s \in Phrase, NEW rem \in Text,
                      Remains(at, cur, z, s), s.text = <<cur>> \o rem
               PROVE  \E y \in Closings(stack'), x \in Phrase : Remains("expression", peek, y, x) /\ x.text = rem
    BY <1>6, LiveEat DEF ListSteps
  <2>1. PICK p \in Opd, r \in RangePhrases :
          /\ s = p ** z
          /\ \E e \in Expr : p = Tok("(") ** (e ** (Tok(")") ** r))
    BY <1>5, <1>6 DEF Idents
  <2>2. PICK e \in Expr : p = Tok("(") ** (e ** (Tok(")") ** r))
    BY <2>1
  <2> DEFINE y == Tok(")") ** (r ** z)
             x == e ** y
  <2>3. y \in Phrase
    <3>1. r ** z \in Phrase
      BY <1>2, <1>3, Composed
    <3> QED
      BY <1>4, <3>1, Composed
  <2>4. y \in Closings(stack')
    <3>1. Closes("paren", y, z) /\ "paren" \in Calls
      BY DEF Closes, Calls
    <3> HIDE DEF y
    <3> QED
      BY <1>1, <1>6, <2>3, <3>1, ClosingsPushed DEF Call
  <2>5. s = Tok("(") ** x
    <3>1. e \in Phrase /\ r \in Phrase /\ z \in Phrase /\ Tok("(") \in Phrase /\ Tok(")") \in Phrase
      BY <1>2, <1>3, <1>4
    <3> QED
      BY <2>1, <2>2, <3>1, RegroupedFive
  <2> HIDE DEF y
  <2>6. x \in Phrase /\ Remains("expression", peek, y, x)
    BY <1>3, <2>3, Composed DEF Remains
  <2> HIDE DEF x
  <2>7. x.text = rem
    <3>1. (Tok("(") ** x).text = <<"(">> \o rem
      BY <1>6, <2>5
    <3> QED
      BY <1>4, <2>6, <3>1, StartRead
  <2> QED
    BY <2>4, <2>6, <2>7
<1>7. CASE cur \in Idents /\ Eat("suffix") /\ Make("metric") /\ UNCHANGED stack
  <2>1. cur # "eof" /\ cur # "("
    BY <1>7 DEF Idents
  <2> SUFFICES ASSUME NEW z \in Closings(stack), NEW s \in Phrase, NEW rem \in Text,
                      Remains(at, cur, z, s), s.text = <<cur>> \o rem
               PROVE  \E x \in Phrase : Remains("suffix", peek, z, x) /\ x.text = rem
    BY <1>7, <2>1, LiveEat DEF ListSteps
  <2>2. PICK r \in RangePhrases : s = (Tok(cur) ** (Node("metric") ** r)) ** z
    BY <1>5, <2>1
  <2> DEFINE x == r ** z
  <2>3. x \in Phrase /\ Remains("suffix", peek, z, x)
    BY <1>2, <1>3, Composed DEF Remains
  <2>4. s = Tok(cur) ** (Node("metric") ** x)
    <3>1. Tok(cur) \in Phrase /\ Node("metric") \in Phrase /\ r \in Phrase /\ z \in Phrase
      BY <1>1, <1>2, <1>3, <1>4, Composition
    <3> QED
      BY <2>2, <3>1, RegroupedFour
  <2> HIDE DEF x
  <2> DEFINE w == Node("metric") ** x
  <2>5. w \in Phrase /\ w.text = x.text /\ s = Tok(cur) ** w
    BY <1>4, <2>3, <2>4, Composed, NodeText
  <2> HIDE DEF w
  <2>6. w.text = rem
    <3>1. (Tok(cur) ** w).text = <<cur>> \o rem
      BY <2>5
    <3> QED
      BY <1>1, <2>5, <3>1, StartRest
  <2> QED
    BY <2>3, <2>5, <2>6
<1>8. CASE cur \notin Idents \cup {"("} /\ Refuse
  BY <1>5, <1>8, LiveRefuse
<1> QED
  BY <1>6, <1>7, <1>8 DEF Selector

\* What a text starts with, as the parser sees it.
LEMMA TextStarts ==
  ASSUME NEW t \in Text, NEW c \in AllTokens
  PROVE  /\ Ahead(c, t) => (c = "eof" /\ t = <<>>) \/ (t # <<>> /\ Head(t) = c)
         /\ \A rem \in Text : t = <<c>> \o rem => t # <<>> /\ Head(t) = c
<1>1. \A rem \in Text : <<c>> \o rem # <<>> /\ Head(<<c>> \o rem) = c
  BY Cons
<1>2. \A rem \in Text : t = <<c>> \o rem => t # <<>> /\ Head(t) = c
  BY <1>1
<1>3. CASE c = "eof"
  BY <1>2, <1>3 DEF Ahead
<1>4. CASE c # "eof"
  BY <1>2, <1>4 DEF Ahead
<1> QED
  BY <1>3, <1>4

\* Nor where a range may start.
LEMMA CompleteSuffix ==
  ASSUME TypeOK, RoomInv, Live, Suffix
  PROVE  CompleteInv'
<1>1. stack \in Seq(Calls) /\ at = "suffix" /\ cur \in AllTokens /\ peek \in AllTokens
  BY DonePhrase DEF TypeOK, Suffix
<1>2. {"[", ")", "eof", "{"} \subseteq AllTokens
  BY Vocabulary
<1>3. ASSUME NEW z \in Closings(stack), NEW s \in Phrase, Remains(at, cur, z, s)
      PROVE  \/ s = z /\ (s.text = <<>> \/ Head(s.text) = ")")
             \/ /\ s.text # <<>> /\ Head(s.text) = "["
                /\ \E x \in Phrase : s = Tok("[") ** x /\ Remains("duration", peek, z, x)
  <2>1. z \in Phrase /\ (z.text = <<>> \/ Head(z.text) = ")")
    BY <1>1, ClosingsFollow
  <2>2. PICK r \in RangePhrases : s = r ** z
    BY <1>1, <1>3 DEF Remains
  <2>3. CASE r = Empty
    BY <2>1, <2>2, <2>3, Composition
  <2>4. CASE \E u \in Units : r = RangePhrase(u)
    <3>1. PICK u \in Units : r = RangePhrase(u)
      BY <2>4
    <3> DEFINE x == Tok("num") ** (Say(u) ** (Tok("]") ** (Node("range") ** z)))
    <3>2. x \in Phrase /\ s = Tok("[") ** x
      BY <2>1, <2>2, <3>1, DurationRegrouped, RangeRest
    <3>3. Remains("duration", peek, z, x)
      BY DEF Remains
    <3> HIDE DEF x
    <3>4. s.text # <<>> /\ Head(s.text) = "["
      <4>1. "[" \in AllTokens
        BY <1>2
      <4> QED
        BY <3>2, <4>1, Starts
    <3> QED
      BY <3>2, <3>3, <3>4
  <2> QED
    BY <2>2, <2>3, <2>4 DEF RangePhrases
<1>4. CASE cur = "{" /\ Refuse
  <2> SUFFICES ASSUME NEW z \in Closings(stack), NEW s \in Phrase,
                      Remains(at, cur, z, s), Ahead(cur, s.text)
               PROVE  FALSE
    BY <1>4, LiveRefuse, AheadOfTwo
  <2>1. s.text \in Text
    BY Fields
  <2>2. s.text # <<>> /\ Head(s.text) = "{"
    BY <1>1, <1>4, <2>1, TextStarts
  <2> QED
    BY <1>3, <2>2
<1>5. CASE cur = "[" /\ Eat("duration") /\ Same
  <2> SUFFICES ASSUME NEW z \in Closings(stack), NEW s \in Phrase, NEW rem \in Text,
                      Remains(at, cur, z, s), s.text = <<cur>> \o rem
               PROVE  \E x \in Phrase : Remains("duration", peek, z, x) /\ x.text = rem
    BY <1>5, LiveEat DEF ListSteps, Same
  <2>1. s.text \in Text
    BY Fields
  <2>2. s.text # <<>> /\ Head(s.text) = "["
    BY <1>1, <1>5, <2>1, TextStarts
  <2>3. PICK x \in Phrase : s = Tok("[") ** x /\ Remains("duration", peek, z, x)
    BY <1>3, <2>2
  <2>4. x.text = rem
    <3>1. (Tok("[") ** x).text = <<"[">> \o rem /\ "[" \in AllTokens
      BY <1>2, <1>5, <2>3
    <3> QED
      BY <3>1, StartRest
  <2> QED
    BY <2>3, <2>4
<1>6. CASE cur \notin {"{", "["} /\ Stay("return") /\ Same
  <2> SUFFICES ASSUME NEW z \in Closings(stack), NEW s \in Phrase,
                      Remains(at, cur, z, s), Ahead(cur, s.text)
               PROVE  Remains("return", cur, z, s)
    BY <1>6, LiveStay DEF ListSteps, Same
  <2>1. s.text \in Text
    BY Fields
  <2>2. s.text = <<>> \/ Head(s.text) # "["
    BY <1>1, <1>6, <2>1, TextStarts
  <2> QED
    BY <1>3, <2>2 DEF Remains
<1> QED
  BY <1>4, <1>5, <1>6 DEF Suffix, LabelMatchers

\* Nor does a range.
LEMMA CompleteRange ==
  ASSUME TypeOK, RoomInv, Live, Duration \/ Unit \/ RangeClose
  PROVE  CompleteInv'
<1>1. cur \in AllTokens /\ peek \in AllTokens
  BY DonePhrase
<1>2. "num" \in AllTokens \ {"eof"} /\ "]" \in AllTokens \ {"eof"} /\ Idents \subseteq AllTokens
      /\ "range" \in Nodes
  BY Vocabulary
<1>3. \A y \in Closings(stack) : y \in Phrase
  BY DEF Closings
<1>4. CASE Duration
  <2>1. ASSUME NEW z \in Closings(stack), NEW s \in Phrase, Remains(at, cur, z, s)
        PROVE  \E x \in Phrase : s = Tok("num") ** x /\ Remains("unit", peek, z, x)
    <3>1. PICK u \in Units : s = Tok("num") ** (Say(u) ** (Tok("]") ** (Node("range") ** z)))
      BY <1>4, <2>1 DEF Duration, Remains
    <3>2. Say(u) ** (Tok("]") ** (Node("range") ** z)) \in Phrase
      BY <1>3, RangeRest
    <3> QED
      BY <3>1, <3>2 DEF Remains
  <2>2. CASE cur = "num" /\ Eat("unit") /\ Same
    <3> SUFFICES ASSUME NEW z \in Closings(stack), NEW s \in Phrase, NEW rem \in Text,
                        Remains(at, cur, z, s), s.text = <<cur>> \o rem
                 PROVE  \E x \in Phrase : Remains("unit", peek, z, x) /\ x.text = rem
      BY <2>2, LiveEat DEF ListSteps, Same
    <3>1. PICK x \in Phrase : s = Tok("num") ** x /\ Remains("unit", peek, z, x)
      BY <2>1
    <3>2. (Tok("num") ** x).text = <<"num">> \o rem /\ "num" \in AllTokens
      BY <1>2, <2>2, <3>1
    <3> QED
      BY <3>1, <3>2, StartRest
  <2>3. CASE cur # "num" /\ Refuse
    <3> SUFFICES ASSUME NEW z \in Closings(stack), NEW s \in Phrase,
                        Remains(at, cur, z, s), Ahead(cur, s.text)
                 PROVE  FALSE
      BY <2>3, LiveRefuse, AheadOfTwo
    <3>1. PICK x \in Phrase : s = Tok("num") ** x /\ Remains("unit", peek, z, x)
      BY <2>1
    <3>2. Ahead(cur, (Tok("num") ** x).text) /\ "num" \in AllTokens \ {"eof"}
      BY <1>2, <3>1
    <3> QED
      BY <1>1, <2>3, <3>2, AheadToken
  <2> QED
    BY <1>4, <2>2, <2>3 DEF Duration
<1>5. CASE Unit
  <2>1. ASSUME NEW z \in Closings(stack), NEW s \in Phrase, Remains(at, cur, z, s)
        PROVE  \/ s = Tok("]") ** (Node("range") ** z)
               \/ \E i \in Idents : s = Tok(i) ** (Tok("]") ** (Node("range") ** z))
    <3>1. PICK u \in Units : s = Say(u) ** (Tok("]") ** (Node("range") ** z))
      BY <1>5, <2>1 DEF Unit, Remains
    <3>2. Tok("]") ** (Node("range") ** z) \in Phrase
      BY <1>3, RangeRest
    <3>3. CASE u = <<>>
      <4>1. Say(u) = Empty
        BY <3>3, Said
      <4> QED
        BY <3>1, <3>2, <4>1, Composition
    <3>4. CASE \E i \in Idents : u = <<i>>
      BY <1>2, <3>1, <3>4, Said
    <3> QED
      BY <3>3, <3>4 DEF Units
  <2>2. CASE cur \in Idents /\ Eat("rangeClose") /\ Same
    <3>0. cur # "eof" /\ cur # "]"
      BY <2>2 DEF Idents
    <3> SUFFICES ASSUME NEW z \in Closings(stack), NEW s \in Phrase, NEW rem \in Text,
                        Remains(at, cur, z, s), s.text = <<cur>> \o rem
                 PROVE  \E x \in Phrase : Remains("rangeClose", peek, z, x) /\ x.text = rem
      BY <2>2, <3>0, LiveEat DEF ListSteps, Same
    <3> DEFINE w == Node("range") ** z
               x == Tok("]") ** w
    <3>1. w \in Phrase /\ x \in Phrase /\ Remains("rangeClose", peek, z, x)
      <4>1. Node("range") \in Phrase /\ z \in Phrase
        BY <1>2, <1>3, Composition
      <4>2. x \in Phrase
        BY <1>3, RangeRest DEF Units
      <4> QED
        BY <4>1, <4>2, Composed DEF Remains
    <3>2. s = x \/ \E i \in Idents : s = Tok(i) ** x
      BY <2>1
    <3> HIDE DEF w
    <3>3. s # x
      <4> SUFFICES ASSUME (Tok("]") ** w).text = <<cur>> \o rem PROVE FALSE
        OBVIOUS
      <4>1. "]" \in AllTokens
        BY <1>2
      <4>2. "]" = cur
        BY <1>1, <3>1, <4>1, StartRead
      <4> QED
        BY <3>0, <4>2
    <3> HIDE DEF x
    <3>4. PICK i \in Idents : s = Tok(i) ** x
      BY <3>2, <3>3
    <3>5. (Tok(i) ** x).text = <<cur>> \o rem /\ i \in AllTokens
      BY <1>2, <3>4
    <3> QED
      BY <1>1, <3>1, <3>5, StartRead
  <2>3. CASE cur \notin Idents /\ Stay("rangeClose") /\ Same
    <3> SUFFICES ASSUME NEW z \in Closings(stack), NEW s \in Phrase,
                        Remains(at, cur, z, s), Ahead(cur, s.text)
                 PROVE  Remains("rangeClose", cur, z, s)
      BY <2>3, LiveStay DEF ListSteps, Same
    <3> DEFINE x == Tok("]") ** (Node("range") ** z)
    <3>1. x \in Phrase
      BY <1>3, RangeRest DEF Units
    <3>2. s = x \/ \E i \in Idents : s = Tok(i) ** x
      BY <2>1
    <3>3. s = x => Remains("rangeClose", cur, z, s)
      BY DEF Remains
    <3> HIDE DEF x
    <3>4. ASSUME NEW i \in Idents, s = Tok(i) ** x
          PROVE  FALSE
      <4>1. Ahead(cur, (Tok(i) ** x).text) /\ i \in AllTokens \ {"eof"}
        BY <1>2, <3>4 DEF Idents
      <4> QED
        BY <1>1, <2>3, <3>1, <4>1, AheadToken
    <3> QED
      BY <3>2, <3>3, <3>4
  <2> QED
    BY <1>5, <2>2, <2>3 DEF Unit
<1>6. CASE RangeClose
  <2>1. ASSUME NEW z \in Closings(stack), NEW s \in Phrase, Remains(at, cur, z, s)
        PROVE  \E x \in Phrase : s = Tok("]") ** x /\ x.text = z.text
    <3>1. s = Tok("]") ** (Node("range") ** z)
      BY <1>6, <2>1 DEF RangeClose, Remains
    <3>2. z \in Phrase
      BY <1>3
    <3>3. Node("range") ** z \in Phrase /\ (Node("range") ** z).text = z.text
      BY <1>2, <3>2, NodeText, Composition
    <3> QED
      BY <3>1, <3>3
  <2>2. CASE cur = "]" /\ Eat("return") /\ UNCHANGED stack
    <3> SUFFICES ASSUME NEW z \in Closings(stack), NEW s \in Phrase, NEW rem \in Text,
                        Remains(at, cur, z, s), s.text = <<cur>> \o rem
                 PROVE  z \in Phrase /\ Remains("return", peek, z, z) /\ z.text = rem
      BY <2>2, LiveEat DEF ListSteps
    <3>1. PICK x \in Phrase : s = Tok("]") ** x /\ x.text = z.text
      BY <2>1
    <3>2. (Tok("]") ** x).text = <<"]">> \o rem /\ "]" \in AllTokens
      BY <1>2, <2>2, <3>1
    <3>3. x.text = rem
      BY <3>2, StartRest
    <3> QED
      BY <1>3, <3>1, <3>3 DEF Remains
  <2>3. CASE cur # "]" /\ Refuse
    <3> SUFFICES ASSUME NEW z \in Closings(stack), NEW s \in Phrase,
                        Remains(at, cur, z, s), Ahead(cur, s.text)
                 PROVE  FALSE
      BY <2>3, LiveRefuse, AheadOfTwo
    <3>1. PICK x \in Phrase : s = Tok("]") ** x /\ x.text = z.text
      BY <2>1
    <3>2. Ahead(cur, (Tok("]") ** x).text) /\ "]" \in AllTokens \ {"eof"}
      BY <1>2, <3>1
    <3> QED
      BY <1>1, <2>3, <3>2, AheadToken
  <2> QED
    BY <1>6, <2>2, <2>3 DEF RangeClose
<1> QED
  BY <1>4, <1>5, <1>6

\* Nor does the end of an operand.
LEMMA CompleteReturn ==
  ASSUME TypeOK, RoomInv, Live, Accept \/ ReturnToParen \/ ReturnToOperator
  PROVE  CompleteInv'
<1>1. cur \in AllTokens /\ peek \in AllTokens
  BY DonePhrase
<1>2. CASE Accept
  BY <1>2 DEF Accept, Stay, CompleteInv
<1>3. CASE ReturnToParen
  <2>1. /\ at = "return" /\ stack = Append(Rest, "paren")
        /\ Rest \in Seq(Calls) /\ "paren" \in Calls /\ "paren" \notin Operators
    BY <1>3, TopAndRest DEF ReturnToParen, Operators
  <2>2. ASSUME NEW z \in Closings(stack), NEW s \in Phrase, Remains(at, cur, z, s)
        PROVE  \E y \in Closings(Rest), x \in Phrase : s = Tok(")") ** x /\ Remains("suffix", peek, y, x)
    <3>1. s = z
      BY <2>1, <2>2 DEF Remains
    <3>2. PICK y \in Closings(Rest) : Closes("paren", z, y)
      BY <2>1, ClosingsPushed
    <3>3. PICK r \in RangePhrases : z = Tok(")") ** (r ** y)
      BY <2>1, <3>2 DEF Closes
    <3>4. r ** y \in Phrase
      BY PhraseParts, Composed DEF Closings
    <3> QED
      BY <3>1, <3>3, <3>4 DEF Remains
  <2>3. ")" \in AllTokens \ {"eof"}
    BY Vocabulary
  <2>4. CASE cur = ")" /\ Eat("suffix") /\ stack' = Rest
    <3> SUFFICES ASSUME NEW z \in Closings(stack), NEW s \in Phrase, NEW rem \in Text,
                        Remains(at, cur, z, s), s.text = <<cur>> \o rem
                 PROVE  \E y \in Closings(Rest), x \in Phrase : Remains("suffix", peek, y, x) /\ x.text = rem
      BY <2>4, LiveEat DEF ListSteps
    <3>1. PICK y \in Closings(Rest), x \in Phrase : s = Tok(")") ** x /\ Remains("suffix", peek, y, x)
      BY <2>2
    <3>2. (Tok(")") ** x).text = <<")">> \o rem /\ ")" \in AllTokens
      BY <2>3, <2>4, <3>1
    <3>3. x.text = rem
      BY <3>2, StartRest
    <3> QED
      BY <3>1, <3>3
  <2>5. CASE cur # ")" /\ Refuse
    <3> SUFFICES ASSUME NEW z \in Closings(stack), NEW s \in Phrase,
                        Remains(at, cur, z, s), Ahead(cur, s.text)
                 PROVE  FALSE
      BY <2>5, LiveRefuse, AheadOfTwo
    <3>1. PICK y \in Closings(Rest), x \in Phrase : s = Tok(")") ** x /\ Remains("suffix", peek, y, x)
      BY <2>2
    <3>2. Ahead(cur, (Tok(")") ** x).text) /\ ")" \in AllTokens \ {"eof"}
      BY <2>3, <3>1
    <3> QED
      BY <1>1, <2>5, <3>2, AheadToken
  <2> QED
    BY <1>3, <2>4, <2>5 DEF ReturnToParen
<1>4. CASE ReturnToOperator
  <2>1. /\ at = "return" /\ stack = Append(Rest, Top)
        /\ Rest \in Seq(Calls) /\ Top \in Calls /\ Top # "paren" /\ Stay("return") /\ stack' = Rest
    BY <1>4, TopAndRest DEF ReturnToOperator
  <2> SUFFICES ASSUME NEW z \in Closings(stack), NEW s \in Phrase, Remains(at, cur, z, s)
               PROVE  \E y \in Closings(Rest), x \in Phrase : Remains("return", cur, y, x) /\ x.text = s.text
    BY <2>1, LiveStay DEF ListSteps
  <2>2. s = z
    BY <2>1 DEF Remains
  <2>3. PICK y \in Closings(Rest) : Closes(Top, z, y)
    BY <2>1, ClosingsPushed
  <2>4. Top \in Operators /\ z = Node(Top) ** y
    BY <2>1, <2>3 DEF Closes
  <2>5. Top \in Nodes /\ y \in Phrase
    BY <2>4, Vocabulary DEF Closings
  <2>6. z.text = y.text
    BY <2>4, <2>5, NodeText
  <2> QED
    BY <2>2, <2>5, <2>6 DEF Remains
<1> QED
  BY <1>2, <1>3, <1>4

\* The steps of a list are taken when no text begins with what was read.
LEMMA CompleteStep ==
  ASSUME TypeOK, RoomInv, CallInv, CompleteInv, [Next]_vars
  PROVE  CompleteInv'
<1>1. CASE UNCHANGED vars
  BY <1>1 DEF CompleteInv, Lost, Live, vars
<1>2. CASE Lost
  BY <1>2, LostStep DEF CompleteInv
<1>3. CASE Next /\ Live
  <2>1. CASE ListOpen \/ ListClose \/ ListNext \/ ListItem
    <3>1. at \in ListSteps
      BY <2>1 DEF ListOpen, ListClose, ListNext, ListItem, ListSteps
    <3> QED
      BY <1>2, <3>1 DEF CompleteInv, ListSteps
  <2> QED
    BY <1>3, <2>1, CompleteExpression, CompletePrefix, CompleteSelector, CompleteSuffix,
       CompleteRange, CompleteReturn DEF Next
<1>4. ASSUME Next
      PROVE  at \notin {"accepted", "refused"}
  BY <1>4 DEF Next, Expression, Grouping, Argument, QuantileOpen, QuantileValue, QuantileComma,
       ListOpen, ListClose, ListNext, ListItem, Selector, Suffix, Duration, Unit, RangeClose,
       Accept, ReturnToParen, ReturnToOperator
<1> QED
  BY <1>1, <1>2, <1>3, <1>4 DEF CompleteInv

\* At the start any expression may be the one.
LEMMA CompleteInit ==
  ASSUME Init
  PROVE  CompleteInv
<1>1. read = <<>> /\ stack = <<>> /\ cur \in AllTokens
  BY TokensAssumption DEF Init
<1>2. \A rem \in Text : read \o rem = rem
  BY <1>1, Concat
<1>3. CASE cur = "eof"
  <2>1. at = "refused"
    BY <1>3 DEF Init
  <2> SUFFICES ASSUME NEW e \in Expr, NEW rem \in Text, e.text = read \o rem, AheadTwo(cur, peek, rem)
               PROVE  FALSE
    BY <2>1 DEF CompleteInv
  <2>2. rem = <<>>
    BY <1>3 DEF AheadTwo
  <2> QED
    BY <1>2, <2>2, ExprStarts
<1>4. CASE cur # "eof"
  <2>1. at = "expression"
    BY <1>4 DEF Init
  <2> SUFFICES ASSUME NEW e \in Expr, NEW rem \in Text, e.text = read \o rem
               PROVE  \E z \in Closings(stack), s \in Phrase : Remains(at, cur, z, s) /\ s.text = rem
    BY <2>1 DEF CompleteInv, Live, ListSteps
  <2>2. Empty \in Closings(stack) /\ e \in Phrase /\ e ** Empty = e
    BY <1>1, ClosingsEmpty, ExprStarts, Composition
  <2>3. Remains(at, cur, Empty, e)
    BY <2>1, <2>2 DEF Remains
  <2> QED
    BY <1>2, <2>2, <2>3
<1> QED
  BY <1>3, <1>4

\* Nothing remains at what is refused.
LEMMA RefusedComplete ==
  ASSUME TypeOK, CompleteInv
  PROVE  RefusedForGood
<1>1. read \in Text /\ cur \in AllTokens /\ peek \in AllTokens
  BY DonePhrase
<1> SUFFICES ASSUME at = "refused"
             PROVE  IF "eof" \in {cur, peek} THEN Seen \notin Texts ELSE Seen \notin Beginnings
  BY DEF RefusedForGood
<1>2. \A e \in Sentences, rem \in Text : e.text = read \o rem => ~AheadTwo(cur, peek, rem)
  BY SentencesAreExpr DEF CompleteInv, Lost
<1>3. ASSUME NEW rem \in Text, AheadTwo(cur, peek, rem)
      PROVE  read \o rem \notin Texts
  BY <1>2, <1>3 DEF Texts
<1>4. CASE cur = "eof"
  <2>1. Seen = read \o <<>> /\ <<>> \in Text /\ AheadTwo(cur, peek, <<>>)
    BY <1>1, <1>4, Concat DEF Seen, AheadTwo
  <2> QED
    BY <1>3, <1>4, <2>1
<1>5. CASE cur # "eof" /\ peek = "eof"
  <2>1. /\ Seen = read \o <<cur>> /\ <<cur>> \in Text
        /\ <<cur>> = <<cur>> \o <<>> /\ <<>> \in Text
    BY <1>1, <1>5, Concat, Cons DEF Seen
  <2>2. AheadTwo(cur, peek, <<cur>>)
    BY <1>5, <2>1 DEF Ahead, AheadTwo
  <2> QED
    BY <1>3, <1>5, <2>1, <2>2
<1>6. CASE cur # "eof" /\ peek # "eof"
  <2> SUFFICES ASSUME Seen \in Beginnings PROVE FALSE
    BY <1>6
  <2>1. Seen = read \o <<cur, peek>>
    BY <1>6 DEF Seen
  <2>2. PICK e \in Sentences : \E k \in 0..Len(e.text) : Seen = SubSeq(e.text, 1, k)
    BY DEF Beginnings, Texts
  <2>3. e.text \in Text
    BY SentencesAreExpr, Grammar, Fields
  <2>4. PICK rest \in Text : e.text = Seen \o rest
    BY <2>2, <2>3, Split
  <2>5. /\ <<cur, peek>> = <<cur>> \o <<peek>> /\ <<cur>> \in Text /\ <<peek>> \in Text
    BY <1>1, Tuples, Cons
  <2> DEFINE tail == <<peek>> \o rest
             rem == <<cur>> \o tail
  <2>6. tail \in Text
    BY <2>5, Concat
  <2>7. rem \in Text
    BY <2>5, <2>6, Concat
  <2>8. AheadTwo(cur, peek, rem)
    BY <1>6, <2>6 DEF Ahead, AheadTwo
  <2>9. e.text = read \o rem
    <3>1. <<cur, peek>> \in Text
      <4>1. \A a, b \in Text : a \o b \in Text
        BY Concat
      <4> QED
        BY <2>5, <4>1
    <3>2. (read \o <<cur, peek>>) \o rest = read \o (<<cur, peek>> \o rest)
      BY <1>1, <3>1, Concat
    <3>3. (<<cur>> \o <<peek>>) \o rest = <<cur>> \o (<<peek>> \o rest)
      <4>1. \A a, b, c \in Text : (a \o b) \o c = a \o (b \o c)
        BY Concat
      <4> QED
        BY <2>5, <4>1
    <3> QED
      BY <2>1, <2>4, <2>5, <3>2, <3>3
  <2> HIDE DEF rem, tail
  <2> QED
    BY <1>2, <2>7, <2>8, <2>9
<1> QED
  BY <1>4, <1>5, <1>6

\* parser.go refuses, in every parse, only at tokens that no sentence has there, or,
\* at the end of the input, what is no sentence: none of the grammar's expressions
\* is ever turned away.
THEOREM RefusalsAreFinal == Spec => []RefusedForGood
<1>1. Init => ParseInv /\ CompleteInv
  BY SoundInit, CompleteInit DEF Init, ParseInv, ListInv, ListsNeverTaken, TypeOK, Steps
<1>2. ParseInv /\ CompleteInv /\ [Next]_vars => (ParseInv /\ CompleteInv)'
  BY TypeStep, ListStep, RoomStep, CallStep, SoundStep, AcceptedStep, CompleteStep DEF ParseInv
<1>3. ParseInv /\ CompleteInv => RefusedForGood
  BY RefusedComplete DEF ParseInv
<1> QED
  BY <1>1, <1>2, <1>3, PTL DEF Spec

==============================================================================
