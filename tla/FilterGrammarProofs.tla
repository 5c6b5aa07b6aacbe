------------------------- MODULE FilterGrammarProofs -------------------------
(***************************************************************************)
(* Lemmas about the grammar that FilterParser is compared with.  A         *)
(* sentence is a pair of a text and the nodes its parse makes; pairs like  *)
(* it, put one after the other with **, are a monoid of phrases, in which  *)
(* the grammar is a handful of equations (Grammar, OperandParts) and the   *)
(* bound on the depth of its operands can be done without.                 *)
(***************************************************************************)
EXTENDS FilterParser, SequenceTheorems, WellFoundedInduction, TLAPS

------------------------------------------------------------------------------
(* Induction, and texts.                                                   *)

\* Smaller than, as a relation on the numbers.
Below == {ss \in Nat \X Nat : ss[1] < ss[2]}

\* A set of numbers that has zero and every successor has them all.
LEMMA NatSet ==
  ASSUME NEW S, 0 \in S, \A n \in Nat : n \in S => n + 1 \in S
  PROVE  Nat \subseteq S
<1>1. IsWellFoundedOn(Below, Nat)
  <2>1. OpToRel(<, Nat) = Below
    BY DEF OpToRel, Below
  <2> QED
    BY <2>1, NatLessThanWellFounded
<1> SUFFICES ASSUME Nat \ S # {} PROVE FALSE
  OBVIOUS
<1>2. PICK x \in Nat \ S : \A y \in Nat \ S : <<y, x>> \notin Below
  BY <1>1, WFMin
<1>3. x - 1 \in Nat /\ (x - 1) + 1 = x
  BY <1>2
<1>4. <<x - 1, x>> \in Below
  BY <1>3 DEF Below
<1>5. (x - 1) + 1 \in S
  BY <1>2, <1>3, <1>4
<1> QED
  BY <1>2, <1>3, <1>5

\* What expressions, and their beginnings and ends, are as texts.
Text == Seq(AllTokens)

\* Texts put one after the other.
LEMMA Concat ==
  /\ <<>> \in Text
  /\ \A a, b \in Text : a \o b \in Text /\ Len(a \o b) = Len(a) + Len(b)
  /\ \A a, b, c \in Text : (a \o b) \o c = a \o (b \o c)
  /\ \A a \in Text : a \o <<>> = a /\ <<>> \o a = a /\ Len(a) \in Nat
  /\ \A a, b \in Text : a \o b = <<>> => a = <<>> /\ b = <<>>
<1>1. \A a, b, c \in Text : (a \o b) \o c = a \o (b \o c)
  BY ConcatAssociative DEF Text
<1>2. \A a, b \in Text : a \o b = <<>> => a = <<>> /\ b = <<>>
  BY ConcatSimplifications DEF Text
<1> QED
  BY <1>1, <1>2, ConcatProperties, ConcatEmptySeq, LenProperties, EmptySeq DEF Text

\* Texts and their first token.
LEMMA Cons ==
  /\ \A c \in AllTokens : <<c>> \in Text /\ Len(<<c>>) = 1
  /\ \A c \in AllTokens, a \in Text : <<c>> \o a \in Text /\ <<c>> \o a # <<>>
                                      /\ Head(<<c>> \o a) = c
  /\ \A c \in AllTokens, a, b \in Text : a # <<>> => Head(a \o b) = Head(a)
  /\ \A c, d \in AllTokens, a, b \in Text :
       <<c>> \o a = <<d>> \o b => c = d /\ a = b
  /\ \A a \in Text, c \in AllTokens : Append(a, c) = a \o <<c>>
<1>1. \A c \in AllTokens : <<c>> \in Text /\ Len(<<c>>) = 1 /\ <<c>>[1] = c
  BY DEF Text
<1>2. ASSUME NEW a \in Text, NEW b \in Text, a # <<>>
      PROVE  a \o b # <<>> /\ Head(a \o b) = Head(a)
  <2>1. Len(a) \in Nat \ {0}
    BY <1>2, EmptySeq, LenProperties DEF Text
  <2>2. (a \o b)[1] = a[1] /\ Len(a \o b) # 0
    BY <2>1, ConcatProperties, LenProperties DEF Text
  <2>3. a \o b # <<>>
    BY <2>2, EmptySeq
  <2> QED
    BY <2>2, <2>3 DEF Text
<1>3. ASSUME NEW c \in AllTokens, NEW a \in Text
      PROVE  <<c>> \o a \in Text /\ <<c>> \o a # <<>> /\ Head(<<c>> \o a) = c
  BY <1>1, <1>2, Concat
<1>4. ASSUME NEW c \in AllTokens, NEW d \in AllTokens, NEW a \in Text, NEW b \in Text,
             <<c>> \o a = <<d>> \o b
      PROVE  c = d /\ a = b
  <2>1. c = d
    BY <1>3, <1>4
  <2> QED
    BY <1>1, <1>4, <2>1, ConcatSimplifications DEF Text
<1> QED
  BY <1>1, <1>2, <1>3, <1>4, AppendIsConcat DEF Text

------------------------------------------------------------------------------
(* The operands, by their depth.                                           *)

(* The grammar.                                                            *)

\* The operands around those of inner.
Around(inner) == Ranged(Metrics \cup Parenthesised(ExpressionsOver(inner)))

\* The recursive definition of Operands has a solution, so that it is one:
\* the operands up to each depth are found one after the other.
LEMMA OperandsDefined ==
  \A d \in Nat : Operands[d] = IF d = 0 THEN Ranged(Metrics) ELSE Around(Operands[d - 1])
<1> HIDE DEF Ranged, Metrics, Parenthesised, ExpressionsOver
<1> DEFINE Upto(n, g) == /\ g[0] = Ranged(Metrics)
                         /\ \A d \in 1..n : g[d] = Around(g[d - 1])
           Reached == {n \in Nat : \E g : Upto(n, g)}
           Def(f, d) == IF d = 0 THEN Ranged(Metrics) ELSE Around(f[d - 1])
           All == [n \in Nat |-> (CHOOSE g : Upto(n, g))[n]]
<1>1. \A n \in Nat : \E g : Upto(n, g)
  <2>1. 0 \in Reached
    <3>1. Upto(0, [d \in {0} |-> Ranged(Metrics)])
      OBVIOUS
    <3> QED
      BY <3>1
  <2>2. ASSUME NEW n \in Nat, NEW g, Upto(n, g)
        PROVE  \E h : Upto(n + 1, h)
    <3> DEFINE h == [d \in 0..(n + 1) |-> IF d = n + 1 THEN Around(g[n]) ELSE g[d]]
    <3>1. h[0] = Ranged(Metrics)
      BY <2>2
    <3>2. ASSUME NEW d \in 1..(n + 1) PROVE h[d] = Around(h[d - 1])
      <4>1. d - 1 \in 0..n /\ h[d - 1] = g[d - 1]
        OBVIOUS
      <4>2. CASE d = n + 1
        BY <4>1, <4>2
      <4>3. CASE d # n + 1
        BY <2>2, <4>1, <4>3
      <4> QED
        BY <4>2, <4>3
    <3> HIDE DEF h
    <3> QED
      BY <3>1, <3>2
  <2>3. Nat \subseteq Reached
    <3> HIDE DEF Upto
    <3>1. \A n \in Nat : n \in Reached => n + 1 \in Reached
      BY <2>2
    <3> HIDE DEF Reached
    <3> QED
      BY <2>1, <3>1, NatSet
  <2> HIDE DEF Upto
  <2> QED
    BY <2>3
<1>2. ASSUME NEW n \in Nat, NEW m \in Nat, m <= n, NEW g, NEW h, Upto(n, g), Upto(m, h)
      PROVE  g[m] = h[m]
  <2> DEFINE Alike == {d \in Nat : d <= m => g[d] = h[d]}
  <2>1. 0 \in Alike
    BY <1>2
  <2>2. ASSUME NEW d \in Nat, d \in Alike, d + 1 <= m
        PROVE  g[d + 1] = h[d + 1]
    <3>1. d + 1 \in 1..n /\ d + 1 \in 1..m /\ g[d] = h[d] /\ (d + 1) - 1 = d
      BY <1>2, <2>2
    <3>2. g[d + 1] = Around(g[d]) /\ h[d + 1] = Around(h[d])
      BY <1>2, <3>1
    <3> QED
      BY <3>1, <3>2
  <2>3. \A d \in Nat : d \in Alike => d + 1 \in Alike
    BY <2>2
  <2>4. Nat \subseteq Alike
    <3> HIDE DEF Alike
    <3> QED
      BY <2>1, <2>3, NatSet
  <2> QED
    BY <2>4
<1>3. \A n \in Nat : Upto(n, CHOOSE g : Upto(n, g))
  <2> HIDE DEF Upto
  <2> QED
    BY <1>1
<1>4. \A d \in Nat : All[d] = Def(All, d)
  <2> SUFFICES ASSUME NEW d \in Nat PROVE All[d] = Def(All, d)
    OBVIOUS
  <2> DEFINE g == CHOOSE g : Upto(d, g)
             h == CHOOSE h : Upto(d - 1, h)
  <2>1. Upto(d, g) /\ All[d] = g[d]
    <3>1. Upto(d, g)
      <4> HIDE DEF Upto
      <4> QED
        BY <1>3
    <3> HIDE DEF Upto
    <3> QED
      BY <3>1
  <2>2. CASE d = 0
    BY <2>1, <2>2
  <2>3. CASE d # 0
    <3>1. d - 1 \in Nat /\ d - 1 <= d
      BY <2>3
    <3>2. Upto(d - 1, h) /\ All[d - 1] = h[d - 1]
      <4> HIDE DEF Upto
      <4> QED
        BY <1>3, <3>1
    <3>3. g[d - 1] = h[d - 1]
      <4> HIDE DEF Upto, g, h, All
      <4> QED
        BY <1>2, <2>1, <3>1, <3>2
    <3>4. g[d] = Around(g[d - 1])
      BY <2>1, <2>3
    <3> QED
      BY <2>1, <2>3, <3>2, <3>3, <3>4
  <2> QED
    BY <2>2, <2>3
<1>5. \E f : f = [d \in Nat |-> Def(f, d)]
  <2>1. All = [d \in Nat |-> All[d]]
    OBVIOUS
  <2>2. All = [d \in Nat |-> Def(All, d)]
    <3> HIDE DEF All, Def
    <3> QED
      BY <1>4, <2>1
  <2> HIDE DEF All, Def
  <2> QED
    BY <2>2
<1>6. Operands = [d \in Nat |-> Def(Operands, d)]
  BY <1>5 DEF Operands, Around
<1> QED
  BY <1>6

\* A tuple is its first component and the others.
LEMMA Tuples ==
  /\ \A a, b \in AllTokens : <<a, b>> = <<a>> \o <<b>>
  /\ \A a, b, c \in AllTokens : <<a, b, c>> = <<a>> \o <<b, c>>
  /\ \A a, b, c, d \in AllTokens : <<a, b, c, d>> = <<a>> \o <<b, c, d>>
<1>1. ASSUME NEW a \in AllTokens, NEW b \in AllTokens
      PROVE  <<a, b>> = <<a>> \o <<b>>
  <2>1. <<a, b>> \in Seq(AllTokens) /\ <<a>> \in Seq(AllTokens) /\ <<b>> \in Seq(AllTokens)
    OBVIOUS
  <2>2. Len(<<a, b>>) = 2 /\ Len(<<a>>) = 1 /\ Len(<<b>>) = 1
    OBVIOUS
  <2>3. /\ Len(<<a>> \o <<b>>) = 2 /\ <<a>> \o <<b>> \in Seq(AllTokens)
        /\ \A i \in 1..2 : (<<a>> \o <<b>>)[i] = IF i = 1 THEN <<a>>[1] ELSE <<b>>[i - 1]
    BY <2>1, <2>2, ConcatProperties
  <2>4. \A i \in 1..2 : (<<a>> \o <<b>>)[i] = <<a, b>>[i]
    BY <2>3
  <2> QED
    BY <2>1, <2>2, <2>3, <2>4, SeqEqual
<1>2. \A a, b, c \in AllTokens : <<a, b, c>> = <<a>> \o <<b, c>>
  OBVIOUS
<1>3. \A a, b, c, d \in AllTokens : <<a, b, c, d>> = <<a>> \o <<b, c, d>>
  OBVIOUS
<1> QED
  BY <1>1, <1>2, <1>3

------------------------------------------------------------------------------
(* Phrases.                                                                *)

\* A phrase: a text and the nodes its parse makes, as the sentences are; of one
\* token, of one node, of nothing.
Phrase == [text : Text, nodes : Seq(Nodes)]

\* One phrase after another.
a ** b == Sentence(a.text \o b.text, a.nodes \o b.nodes)
Tok(t) == Sentence(<<t>>, <<>>)
Node(n) == Sentence(<<>>, <<n>>)
Empty == Sentence(<<>>, <<>>)

\* A phrase is its text and its nodes.
LEMMA Fields ==
  /\ \A t, n : Sentence(t, n).text = t /\ Sentence(t, n).nodes = n
  /\ \A t \in Text, n \in Seq(Nodes) : Sentence(t, n) \in Phrase
  /\ \A s \in Phrase : s.text \in Text /\ s.nodes \in Seq(Nodes) /\ s = Sentence(s.text, s.nodes)
BY DEF Sentence, Phrase

\* Phrases put one after the other: a monoid.
LEMMA Composition ==
  /\ Empty \in Phrase
  /\ \A t \in AllTokens : Tok(t) \in Phrase
  /\ \A n \in Nodes : Node(n) \in Phrase
  /\ \A x, y \in Phrase : x ** y \in Phrase
  /\ \A x, y, z \in Phrase : (x ** y) ** z = x ** (y ** z)
  /\ \A x \in Phrase : x ** Empty = x /\ Empty ** x = x
<1>1. /\ <<>> \in Seq(Nodes)
      /\ \A m, n \in Seq(Nodes) : m \o n \in Seq(Nodes)
      /\ \A m \in Seq(Nodes) : m \o <<>> = m /\ <<>> \o m = m
      /\ \A n \in Nodes : <<n>> \in Seq(Nodes)
  BY ConcatProperties, ConcatEmptySeq
<1>2. \A k, m, n \in Seq(Nodes) : (k \o m) \o n = k \o (m \o n)
  BY ConcatAssociative
<1>3. /\ Empty \in Phrase
      /\ \A t \in AllTokens : Tok(t) \in Phrase
      /\ \A n \in Nodes : Node(n) \in Phrase
  <2> HIDE DEF Sentence, Phrase, Text
  <2> QED
    BY <1>1, Concat, Cons, Fields DEF Empty, Tok, Node
<1> HIDE DEF Sentence, Phrase, Text
<1>4. ASSUME NEW x \in Phrase, NEW y \in Phrase
      PROVE  /\ x ** y \in Phrase
             /\ (x ** y).text = x.text \o y.text
             /\ (x ** y).nodes = x.nodes \o y.nodes
  <2>1. x.text \o y.text \in Text /\ x.nodes \o y.nodes \in Seq(Nodes)
    BY <1>1, Concat, Fields
  <2> QED
    BY <2>1, Fields DEF **
<1>7. \A a, b, c \in Text : (a \o b) \o c = a \o (b \o c)
  BY Concat
<1>5. ASSUME NEW x \in Phrase, NEW y \in Phrase, NEW z \in Phrase
      PROVE  (x ** y) ** z = x ** (y ** z)
  <2>0. x.text \in Text /\ y.text \in Text /\ z.text \in Text
    BY Fields
  <2>1. (x.text \o y.text) \o z.text = x.text \o (y.text \o z.text)
    BY <1>7, <2>0
  <2>2. (x.nodes \o y.nodes) \o z.nodes = x.nodes \o (y.nodes \o z.nodes)
    BY <1>2, Fields
  <2> QED
    BY <1>4, <2>1, <2>2 DEF **
<1>6. ASSUME NEW x \in Phrase
      PROVE  x ** Empty = x /\ Empty ** x = x
  <2>1. /\ x.text \o <<>> = x.text /\ <<>> \o x.text = x.text
        /\ x.nodes \o <<>> = x.nodes /\ <<>> \o x.nodes = x.nodes
    BY <1>1, Concat, Fields
  <2>2. Empty.text = <<>> /\ Empty.nodes = <<>>
    BY Fields DEF Empty
  <2>3. x = Sentence(x.text, x.nodes)
    BY Fields
  <2> QED
    BY <2>1, <2>2, <2>3 DEF **
<1> QED
  BY <1>3, <1>4, <1>5, <1>6

\* The text and the nodes of the phrases.
LEMMA PhraseFields ==
  /\ \A x, y : (x ** y).text = x.text \o y.text /\ (x ** y).nodes = x.nodes \o y.nodes
  /\ \A t : Tok(t).text = <<t>> /\ Tok(t).nodes = <<>>
  /\ \A n : Node(n).text = <<>> /\ Node(n).nodes = <<n>>
  /\ Empty.text = <<>> /\ Empty.nodes = <<>>
BY DEF **, Tok, Node, Empty, Sentence

\* What Composition says, one fact at a time: provers that see the phrases
\* closed and associative at once search without end.
LEMMA Composed ==
  \A x, y \in Phrase : x ** y \in Phrase
BY Composition

\* The same for associativity.
LEMMA Regrouped ==
  ASSUME NEW x \in Phrase, NEW y \in Phrase, NEW z \in Phrase
  PROVE  (x ** y) ** z = x ** (y ** z)
BY Composition

\* The same of four phrases.
LEMMA RegroupedFour ==
  ASSUME NEW x \in Phrase, NEW y \in Phrase, NEW z \in Phrase, NEW w \in Phrase
  PROVE  /\ ((x ** y) ** z) ** w = x ** (y ** (z ** w))
         /\ (x ** (y ** z)) ** w = x ** (y ** (z ** w))
<1> DEFINE p == y ** z
<1>1. p \in Phrase /\ (x ** y) ** z = x ** p
  BY Composed, Regrouped
<1>2. p ** w = y ** (z ** w)
  BY Regrouped
<1> HIDE DEF p
<1>3. (x ** p) ** w = x ** (p ** w)
  BY <1>1, Regrouped
<1>4. ((x ** y) ** z) ** w = x ** (y ** (z ** w))
  BY <1>1, <1>2, <1>3
<1>5. (x ** p) ** w = x ** (y ** (z ** w))
  BY <1>2, <1>3
<1> QED
  BY <1>4, <1>5 DEF p

\* The same of five phrases.
LEMMA RegroupedFive ==
  ASSUME NEW a \in Phrase, NEW b \in Phrase, NEW c \in Phrase, NEW d \in Phrase, NEW x \in Phrase
  PROVE  /\ (a ** (b ** (c ** d))) ** x = a ** (b ** (c ** (d ** x)))
         /\ (a ** b) ** (c ** x) = (a ** (b ** c)) ** x
<1> DEFINE y == b ** (c ** d)
           z == c ** x
<1>1. y \in Phrase /\ z \in Phrase
  BY Composed
<1>2. y ** x = b ** (c ** (d ** x))
  BY RegroupedFour
<1> HIDE DEF y
<1>3. (a ** y) ** x = a ** (y ** x)
  BY <1>1, Regrouped
<1>4. (a ** (b ** c)) ** x = a ** (b ** z)
  BY RegroupedFour
<1> HIDE DEF z
<1>5. (a ** b) ** z = a ** (b ** z)
  BY <1>1, Regrouped
<1> QED
  BY <1>2, <1>3, <1>4, <1>5 DEF y, z

\* The same of six.
LEMMA RegroupedSix ==
  ASSUME NEW a \in Phrase, NEW b \in Phrase, NEW c \in Phrase, NEW d \in Phrase, NEW e \in Phrase,
         NEW x \in Phrase
  PROVE  (a ** (b ** (c ** (d ** e)))) ** x = a ** (b ** (c ** (d ** (e ** x))))
<1> DEFINE y == b ** (c ** (d ** e))
<1>1. y \in Phrase
  <2>1. d ** e \in Phrase
    BY Composed
  <2> QED
    BY <2>1, Composed
<1>2. y ** x = b ** (c ** (d ** (e ** x)))
  BY RegroupedFive
<1> HIDE DEF y
<1>3. (a ** y) ** x = a ** (y ** x)
  BY <1>1, Regrouped
<1> QED
  BY <1>2, <1>3 DEF y

\* A text that makes no node.
Say(t) == Sentence(t, <<>>)

\* Pairs of a text and its nodes put one after the other.
LEMMA Concatenated ==
  \A a, b, m, n : Sentence(a \o b, m \o n) = Sentence(a, m) ** Sentence(b, n)
BY DEF **, Sentence

\* Lists of nodes put one after the other.
LEMMA NodesUnit ==
  /\ \A m \in Seq(Nodes) : m \o <<>> = m /\ <<>> \o m = m
  /\ \A m \in Seq(Nodes), n \in Nodes : Append(m, n) = m \o <<n>> /\ <<n>> \in Seq(Nodes)
  /\ <<>> \in Seq(Nodes)
  /\ \A m, n \in Seq(Nodes) : m \o n \in Seq(Nodes)
BY ConcatEmptySeq, AppendIsConcat, ConcatProperties

\* A text is said token by token.
LEMMA Said ==
  /\ \A t \in Text : Say(t) \in Phrase
  /\ \A a, b \in Text : Say(a \o b) = Say(a) ** Say(b)
  /\ \A c \in AllTokens : Say(<<c>>) = Tok(c)
  /\ Say(<<>>) = Empty
<1> HIDE DEF Text, Sentence
<1>1. <<>> \o <<>> = <<>> /\ <<>> \in Seq(Nodes)
  BY NodesUnit
<1>2. \A a, b \in Text : Say(a \o b) = Say(a) ** Say(b)
  <2> SUFFICES ASSUME NEW a \in Text, NEW b \in Text
               PROVE  Say(a \o b) = Say(a) ** Say(b)
    OBVIOUS
  <2>1. Sentence(a \o b, <<>> \o <<>>) = Sentence(a, <<>>) ** Sentence(b, <<>>)
    BY DEF **, Sentence
  <2> QED
    BY <1>1, <2>1 DEF Say
<1> QED
  BY <1>1, <1>2, Fields DEF Say, Tok, Empty

------------------------------------------------------------------------------
(* The grammar's parts, as phrases.                                        *)

\* The phrases of a range, with its unit.
RangePhrase(u) == Tok("[") ** (Tok("num") ** (Say(u) ** (Tok("]") ** Node("range"))))

\* The ranges an operand may have: one, or none.
RangePhrases == {Empty} \cup {RangePhrase(u) : u \in Units}

\* What stands before a quantile's operand.
QuantilePhrase(p) ==
  Tok("quantile") ** (Tok("(") ** (Tok("num") ** (Tok(",") ** (p ** Node("quantile")))))

\* The tokens and the nodes the grammar names.
LEMMA Vocabulary ==
  /\ {"num", "by", "=", ",", "(", ")", "[", "]", "{", "}", "agg", "func", "quantile", "labels", "name", "eof"}
        \subseteq AllTokens
  /\ Idents \subseteq AllTokens
  /\ {"metric", "range", "aggregate", "function", "quantile"} \subseteq Nodes
  /\ Operators \subseteq Nodes
  /\ Units \subseteq Text
<1>1. \A i \in Idents : <<i>> \in Text
  BY Cons DEF AllTokens
<1>2. Units \subseteq Text
  BY <1>1, Concat DEF Units
<1> QED
  BY <1>2 DEF AllTokens, Idents, Nodes, Operators

\* An operand with its range is the operand and then the range.
LEMMA RangedPhrase ==
  ASSUME NEW s \in Phrase, NEW u \in Units
  PROVE  Sentence(s.text \o <<"[", "num">> \o u \o <<"]">>, Append(s.nodes, "range"))
           = s ** RangePhrase(u)
<1> DEFINE opening == <<"[", "num">>
           closing == Sentence(<<"]">>, <<"range">>)
           n == s.nodes
<1>1. Say(opening) = Tok("[") ** Tok("num")
  <2>1. <<"[">> \in Text /\ <<"num">> \in Text /\ "[" \in AllTokens /\ "num" \in AllTokens
    BY Vocabulary, Cons
  <2>2. <<"[", "num">> = <<"[">> \o <<"num">>
    BY <2>1, Tuples
  <2> QED
    BY <2>1, <2>2, Said
<1>2. closing = Tok("]") ** Node("range")
  <2>1. <<"]">> \o <<>> = <<"]">> /\ <<>> \o <<"range">> = <<"range">>
    BY Vocabulary, NodesUnit, Cons, Concat
  <2> QED
    BY <2>1 DEF **, Sentence, Tok, Node
<1>3. /\ n \o <<>> = n /\ Append(n, "range") = n \o <<"range">>
      /\ s = Sentence(s.text, n)
  BY Fields, Vocabulary, NodesUnit
<1> HIDE DEF opening, closing, n
<1>4. Sentence(s.text \o opening, n \o <<>>) = s ** Say(opening)
  BY DEF **, Sentence, Say, n
<1>5. Sentence((s.text \o opening) \o u, n \o <<>>) = (s ** Say(opening)) ** Say(u)
  BY DEF **, Sentence, Say, n
<1>6. Sentence(((s.text \o opening) \o u) \o <<"]">>, n \o <<"range">>)
        = ((s ** Say(opening)) ** Say(u)) ** closing
  BY <1>3, <1>5, Concatenated DEF closing
<1>7. /\ Tok("[") \in Phrase /\ Tok("num") \in Phrase /\ Tok("]") \in Phrase
      /\ Node("range") \in Phrase /\ Say(u) \in Phrase
  BY Vocabulary, Composition, Said
<1>8. /\ Say(opening) \in Phrase /\ closing \in Phrase
  BY <1>1, <1>2, <1>7, Composed
<1>9. ((s ** Say(opening)) ** Say(u)) ** closing = s ** (Say(opening) ** (Say(u) ** closing))
  BY <1>7, <1>8, RegroupedFour
<1>10. Say(u) ** closing \in Phrase
  BY <1>7, <1>8, Composed
<1>11. Say(opening) ** (Say(u) ** closing) = Tok("[") ** (Tok("num") ** (Say(u) ** closing))
  BY <1>1, <1>7, <1>10, Regrouped
<1> QED
  BY <1>2, <1>3, <1>6, <1>9, <1>11 DEF RangePhrase, opening, n

\* An expression in parentheses, as phrases.
LEMMA ParenthesisedPhrase ==
  ASSUME NEW s \in Phrase
  PROVE  Sentence(<<"(">> \o s.text \o <<")">>, s.nodes) = Tok("(") ** (s ** Tok(")"))
<1> DEFINE n == s.nodes
<1>1. n \o <<>> = n /\ <<>> \o n = n /\ s = Sentence(s.text, n)
  BY Fields, NodesUnit
<1> HIDE DEF n
<1>2. Sentence(<<"(">> \o s.text, <<>> \o n) = Tok("(") ** s
  BY DEF **, Sentence, Tok, n
<1>3. Sentence((<<"(">> \o s.text) \o <<")">>, n \o <<>>) = (Tok("(") ** s) ** Tok(")")
  BY DEF **, Sentence, Tok, n
<1>4. Tok("(") \in Phrase /\ Tok(")") \in Phrase
  BY Vocabulary, Composition
<1> QED
  BY <1>1, <1>3, <1>4, Regrouped DEF n

\* An operator before its operand, as phrases: its node comes last.
LEMMA PrefixedPhrase ==
  ASSUME NEW s \in Phrase, NEW c \in Text, NEW n \in Nodes
  PROVE  Sentence(c \o s.text, Append(s.nodes, n)) = Say(c) ** (s ** Node(n))
<1> DEFINE m == s.nodes
           t == s.text
<1>1. /\ <<>> \o m = m /\ Append(m, n) = m \o <<n>> /\ s = Sentence(t, m)
      /\ (c \o t) \o <<>> = c \o t
  <2>1. t \in Text /\ m \in Seq(Nodes) /\ s = Sentence(t, m)
    BY Fields
  <2>2. c \o t \in Text
    BY <2>1, Concat
  <2> HIDE DEF m, t
  <2> QED
    BY <2>1, <2>2, Concat, NodesUnit
<1> HIDE DEF m, t
<1>2. Sentence(c \o t, <<>> \o m) = Say(c) ** s
  BY DEF **, Sentence, Say, m, t
<1>3. Sentence((c \o t) \o <<>>, m \o <<n>>) = (Say(c) ** s) ** Node(n)
  <2>1. Sentence((c \o t) \o <<>>, m \o <<n>>) = Sentence(c \o t, m) ** Sentence(<<>>, <<n>>)
    BY DEF **, Sentence
  <2>2. Sentence(c \o t, m) = Say(c) ** s
    BY <1>1, <1>2
  <2> QED
    BY <2>1, <2>2 DEF Node
<1>4. Say(c) \in Phrase /\ Node(n) \in Phrase
  BY Said, Composition
<1> QED
  BY <1>1, <1>3, <1>4, Regrouped DEF m, t

\* What stands before a quantile's operand, token by token.
LEMMA QuantileSaid ==
  ASSUME NEW x \in Phrase
  PROVE  /\ <<"quantile", "(", "num", ",">> \in Text
         /\ Say(<<"quantile", "(", "num", ",">>) ** x
              = Tok("quantile") ** (Tok("(") ** (Tok("num") ** (Tok(",") ** x)))
<1> DEFINE b == <<"(", "num", ",">>
           c == <<"num", ",">>
<1>1. {"quantile", "(", "num", ","} \subseteq AllTokens
  BY Vocabulary
<1>2. <<"quantile">> \in Text /\ <<"(">> \in Text /\ <<"num">> \in Text /\ <<",">> \in Text
  BY <1>1, Cons
<1>3. /\ <<"quantile", "(", "num", ",">> = <<"quantile">> \o b
      /\ b = <<"(">> \o c
      /\ c = <<"num">> \o <<",">>
  <2>1. "quantile" \in AllTokens /\ "(" \in AllTokens /\ "num" \in AllTokens /\ "," \in AllTokens
    BY <1>1
  <2>2. c = <<"num">> \o <<",">>
    BY <2>1, Tuples
  <2>3. b = <<"(">> \o <<"num", ",">>
    BY <2>1, Tuples
  <2>4. <<"quantile", "(", "num", ",">> = <<"quantile">> \o <<"(", "num", ",">>
    <3> DEFINE k == "quantile"
               l == "("
               m == "num"
               n == ","
    <3> HIDE DEF k, l, m, n
    <3>1. <<k, l, m, n>> = <<k>> \o <<l, m, n>>
      OBVIOUS
    <3> QED
      BY <3>1 DEF k, l, m, n
  <2> QED
    BY <2>2, <2>3, <2>4
<1> HIDE DEF b, c
<1>4. c \in Text
  BY <1>2, <1>3, Concat
<1>5. b \in Text
  BY <1>2, <1>3, <1>4, Concat
<1>6. <<"quantile">> \o b \in Text
  BY <1>2, <1>5, Concat
<1>7. /\ Tok("quantile") \in Phrase /\ Tok("(") \in Phrase /\ Tok("num") \in Phrase
      /\ Tok(",") \in Phrase /\ Say(c) \in Phrase /\ Say(b) \in Phrase
  BY <1>1, <1>4, <1>5, Composition, Said
<1>8. /\ Say(<<"quantile">>) = Tok("quantile") /\ Say(<<"(">>) = Tok("(")
      /\ Say(<<"num">>) = Tok("num") /\ Say(<<",">>) = Tok(",")
  BY <1>1, Said
<1>9. Say(<<"quantile">> \o b) ** x = Tok("quantile") ** (Say(b) ** x)
  <2>1. Say(<<"quantile">> \o b) = Say(<<"quantile">>) ** Say(b)
    BY <1>2, <1>5, Said
  <2>2. (Tok("quantile") ** Say(b)) ** x = Tok("quantile") ** (Say(b) ** x)
    <3>1. Tok("quantile") \in Phrase /\ Say(b) \in Phrase
      BY <1>7
    <3> QED
      BY <3>1, Regrouped
  <2> QED
    BY <1>8, <2>1, <2>2
<1>10. Say(b) ** x = Tok("(") ** (Say(c) ** x)
  <2>1. Say(<<"(">> \o c) = Say(<<"(">>) ** Say(c)
    BY <1>2, <1>4, Said
  <2>2. (Tok("(") ** Say(c)) ** x = Tok("(") ** (Say(c) ** x)
    <3>1. Tok("(") \in Phrase /\ Say(c) \in Phrase
      BY <1>7
    <3> QED
      BY <3>1, Regrouped
  <2> QED
    BY <1>3, <1>8, <2>1, <2>2
<1>11. Say(c) ** x = Tok("num") ** (Tok(",") ** x)
  <2>1. Say(<<"num">> \o <<",">>) = Say(<<"num">>) ** Say(<<",">>)
    BY <1>2, Said
  <2>2. (Tok("num") ** Tok(",")) ** x = Tok("num") ** (Tok(",") ** x)
    <3>1. Tok("num") \in Phrase /\ Tok(",") \in Phrase
      BY <1>7
    <3> QED
      BY <3>1, Regrouped
  <2> QED
    BY <1>3, <1>8, <2>1, <2>2
<1> QED
  BY <1>3, <1>6, <1>9, <1>10, <1>11

\* e is an expression whose operand is p.
Expresses(e, p) ==
  \/ e = p /\ Head(p.text) \in {"name", "("}
  \/ e = Tok("agg") ** (p ** Node("aggregate"))
  \/ e = Tok("func") ** (p ** Node("function")) /\ Head(p.text) = "("
  \/ e = QuantilePhrase(p)

\* A metric's name, and an expression in parentheses.
MetricPhrases == {Tok(i) ** Node("metric") : i \in Idents}
InParens(e) == Tok("(") ** (e ** Tok(")"))

\* The grammar's definitions in terms of phrases.
LEMMA GrammarPhrases ==
  ASSUME NEW S \in SUBSET Phrase
  PROVE  /\ Metrics = MetricPhrases
         /\ Ranged(S) = {s ** r : s \in S, r \in RangePhrases}
         /\ Parenthesised(S) = {InParens(s) : s \in S}
         /\ \A e : e \in ExpressionsOver(S) <=>
                     Len(e.text) <= MaxLen /\ \E p \in S : Expresses(e, p)
<1>1. Metrics = MetricPhrases
  <2>1. ASSUME NEW i \in Idents
        PROVE  Sentence(<<i>>, <<"metric">>) = Tok(i) ** Node("metric")
    <3>1. <<i>> \o <<>> = <<i>> /\ <<>> \o <<"metric">> = <<"metric">>
      BY Vocabulary, NodesUnit, Cons, Concat
    <3> QED
      BY <3>1 DEF Tok, Node, **, Sentence
  <2> HIDE DEF Sentence
  <2> QED
    BY <2>1 DEF Metrics, MetricPhrases
<1>2. Ranged(S) = {s ** r : s \in S, r \in RangePhrases}
  <2> DEFINE Longer(s, u) ==
        Sentence(s.text \o <<"[", "num">> \o u \o <<"]">>, Append(s.nodes, "range"))
  <2>1. \A s \in S : s ** Empty = s
    BY Composition
  <2>2. \A s \in S, u \in Units : Longer(s, u) = s ** RangePhrase(u)
    BY RangedPhrase
  <2>3. Ranged(S) = S \cup {Longer(s, u) : s \in S, u \in Units}
    BY DEF Ranged
  <2> HIDE DEF Longer
  <2>4. ASSUME NEW x \in Ranged(S)
        PROVE  x \in {s ** r : s \in S, r \in RangePhrases}
    <3>1. CASE x \in S
      BY <2>1, <3>1 DEF RangePhrases
    <3>2. CASE \E s \in S, u \in Units : x = Longer(s, u)
      BY <2>2, <3>2 DEF RangePhrases
    <3> QED
      BY <2>3, <2>4, <3>1, <3>2
  <2>5. ASSUME NEW s \in S, NEW r \in RangePhrases
        PROVE  s ** r \in Ranged(S)
    <3>1. CASE r = Empty
      BY <2>1, <2>3, <3>1
    <3>2. CASE \E u \in Units : r = RangePhrase(u)
      BY <2>2, <2>3, <3>2
    <3> QED
      BY <3>1, <3>2 DEF RangePhrases
  <2> QED
    BY <2>4, <2>5
<1>3. Parenthesised(S) = {InParens(s) : s \in S}
  BY ParenthesisedPhrase DEF Parenthesised, InParens
<1>4. ASSUME NEW e
      PROVE  e \in ExpressionsOver(S) <=>
               Len(e.text) <= MaxLen /\ \E p \in S : Expresses(e, p)
  <2>1. ASSUME NEW c \in Text, NEW B \in SUBSET S, NEW n \in Nodes
        PROVE  Prefixed(c, B, n) = {Say(c) ** (p ** Node(n)) : p \in B}
    BY PrefixedPhrase DEF Prefixed
  <2> DEFINE F == {s \in S : Head(s.text) = "("}
             Q == <<"quantile", "(", "num", ",">>
  <2>2. Prefixed(<<"agg">>, S, "aggregate") = {Tok("agg") ** (p ** Node("aggregate")) : p \in S}
    <3>1. <<"agg">> \in Text /\ Say(<<"agg">>) = Tok("agg") /\ "aggregate" \in Nodes
      BY Vocabulary, Cons, Said
    <3>2. S \in SUBSET S
      OBVIOUS
    <3> HIDE DEF F
    <3>3. Prefixed(<<"agg">>, S, "aggregate") = {Say(<<"agg">>) ** (p ** Node("aggregate")) : p \in S}
      BY <2>1, <3>1, <3>2
    <3> QED
      BY <3>1, <3>3
  <2>3. Prefixed(<<"func">>, F, "function") = {Tok("func") ** (p ** Node("function")) : p \in F}
    <3>1. <<"func">> \in Text /\ Say(<<"func">>) = Tok("func") /\ "function" \in Nodes
      BY Vocabulary, Cons, Said
    <3>2. F \in SUBSET S
      OBVIOUS
    <3> HIDE DEF F
    <3>3. Prefixed(<<"func">>, F, "function") = {Say(<<"func">>) ** (p ** Node("function")) : p \in F}
      BY <2>1, <3>1, <3>2
    <3> QED
      BY <3>1, <3>3
  <2>4. Prefixed(Q, S, "quantile") = {QuantilePhrase(p) : p \in S}
    <3>1. \A p \in S : p ** Node("quantile") \in Phrase
      BY Composition, Vocabulary
    <3>2. Q \in Text
      BY QuantileSaid, Composition
    <3>3. \A p \in S : Say(Q) ** (p ** Node("quantile")) = QuantilePhrase(p)
      BY <3>1, QuantileSaid DEF QuantilePhrase
    <3> HIDE DEF Q
    <3>4. Prefixed(Q, S, "quantile") = {Say(Q) ** (p ** Node("quantile")) : p \in S}
      BY <2>1, <3>2, Vocabulary
    <3> QED
      BY <3>3, <3>4
  <2>5. ExpressionsOver(S) =
          Short({s \in S : Head(s.text) \in {"name", "("}}
                \cup Prefixed(<<"agg">>, S, "aggregate")
                \cup Prefixed(<<"func">>, F, "function")
                \cup Prefixed(Q, S, "quantile"))
    BY DEF ExpressionsOver
  <2> HIDE DEF Q
  <2> QED
    BY <2>2, <2>3, <2>4, <2>5 DEF Short, Expresses
<1> QED
  BY <1>1, <1>2, <1>3, <1>4

------------------------------------------------------------------------------
(* The grammar, of any depth.                                              *)

\* The operands, with any number of parentheses around each other, and the
\* expressions made of them.
Opd == UNION {Operands[d] : d \in Nat}
Expr == UNION {ExpressionsOver(Operands[d]) : d \in Nat}

\* The parts of the grammar are phrases.
LEMMA PhraseParts ==
  /\ MetricPhrases \subseteq Phrase
  /\ RangePhrases \subseteq Phrase
  /\ \A u \in Units : Say(u) \in Phrase /\ RangePhrase(u) \in Phrase
  /\ \A e \in Phrase : InParens(e) \in Phrase /\ QuantilePhrase(e) \in Phrase
  /\ \A t \in AllTokens, n \in Nodes : Tok(t) \in Phrase /\ Node(n) \in Phrase
<1>1. \A t \in AllTokens, n \in Nodes : Tok(t) \in Phrase /\ Node(n) \in Phrase
  BY Composition
<1>2. /\ \A t \in {"num", "(", ")", "[", "]", "quantile", ","} : Tok(t) \in Phrase
      /\ Node("range") \in Phrase /\ Node("quantile") \in Phrase /\ Node("metric") \in Phrase
      /\ \A i \in Idents : Tok(i) \in Phrase
  BY <1>1, Vocabulary
<1>3. MetricPhrases \subseteq Phrase
  <2>1. \A i \in Idents : Tok(i) ** Node("metric") \in Phrase
    BY <1>2, Composed
  <2> QED
    BY <2>1 DEF MetricPhrases
<1>4. ASSUME NEW u \in Units
      PROVE  Say(u) \in Phrase /\ RangePhrase(u) \in Phrase
  <2>1. Say(u) \in Phrase
    BY Vocabulary, Said
  <2>2. Tok("]") ** Node("range") \in Phrase
    BY <1>2, Composed
  <2>3. Say(u) ** (Tok("]") ** Node("range")) \in Phrase
    BY <2>1, <2>2, Composed
  <2>4. Tok("num") ** (Say(u) ** (Tok("]") ** Node("range"))) \in Phrase
    BY <1>2, <2>3, Composed
  <2> QED
    BY <1>2, <2>1, <2>4, Composed DEF RangePhrase
<1>5. RangePhrases \subseteq Phrase
  BY <1>4, Composition DEF RangePhrases
<1>6. ASSUME NEW e \in Phrase
      PROVE  InParens(e) \in Phrase /\ QuantilePhrase(e) \in Phrase
  <2>1. InParens(e) \in Phrase
    BY <1>2, Composed DEF InParens
  <2>2. e ** Node("quantile") \in Phrase
    BY <1>2, Composed
  <2>3. Tok(",") ** (e ** Node("quantile")) \in Phrase
    BY <1>2, <2>2, Composed
  <2>4. Tok("num") ** (Tok(",") ** (e ** Node("quantile"))) \in Phrase
    BY <1>2, <2>3, Composed
  <2>5. Tok("(") ** (Tok("num") ** (Tok(",") ** (e ** Node("quantile")))) \in Phrase
    BY <1>2, <2>4, Composed
  <2> QED
    BY <1>2, <2>1, <2>5, Composed DEF QuantilePhrase
<1> QED
  BY <1>1, <1>3, <1>4, <1>5, <1>6

\* So is an expression.
LEMMA ExpressesPhrase ==
  \A e, p : Expresses(e, p) /\ p \in Phrase => e \in Phrase
<1> SUFFICES ASSUME NEW e, NEW p \in Phrase, Expresses(e, p)
             PROVE  e \in Phrase
  OBVIOUS
<1>1. /\ Tok("agg") \in Phrase /\ Tok("func") \in Phrase
      /\ Node("aggregate") \in Phrase /\ Node("function") \in Phrase
  BY PhraseParts, Vocabulary
<1>2. p ** Node("aggregate") \in Phrase /\ p ** Node("function") \in Phrase
  BY <1>1, Composed
<1>3. Tok("agg") ** (p ** Node("aggregate")) \in Phrase /\ Tok("func") ** (p ** Node("function")) \in Phrase
  BY <1>1, <1>2, Composed
<1> QED
  BY <1>3, PhraseParts DEF Expresses

\* What a range may follow.
BasesOver(S) == MetricPhrases \cup {InParens(e) : e \in S}

\* The operands of every depth, in terms of those one less deep.
LEMMA OperandsPhrases ==
  \A d \in Nat :
    /\ Operands[d] \subseteq Phrase
    /\ ExpressionsOver(Operands[d]) \subseteq Phrase
    /\ Operands[0] = {b ** r : b \in MetricPhrases, r \in RangePhrases}
    /\ Operands[d + 1] = {b ** r : b \in BasesOver(ExpressionsOver(Operands[d])), r \in RangePhrases}
<1>1. Operands[0] = {b ** r : b \in MetricPhrases, r \in RangePhrases}
  <2>1. Operands[0] = Ranged(Metrics)
    BY OperandsDefined
  <2>2. Metrics \in SUBSET Phrase /\ Metrics = MetricPhrases
    BY GrammarPhrases, PhraseParts
  <2> QED
    BY <2>1, <2>2, GrammarPhrases
<1>2. ASSUME NEW S \in SUBSET Phrase
      PROVE  /\ ExpressionsOver(S) \subseteq Phrase
             /\ Around(S) = {b ** r : b \in BasesOver(ExpressionsOver(S)), r \in RangePhrases}
  <2>1. ExpressionsOver(S) \in SUBSET Phrase
    BY GrammarPhrases, ExpressesPhrase
  <2>2. Metrics \cup Parenthesised(ExpressionsOver(S)) = BasesOver(ExpressionsOver(S))
    BY <2>1, GrammarPhrases DEF BasesOver
  <2>3. BasesOver(ExpressionsOver(S)) \in SUBSET Phrase
    BY <2>1, PhraseParts DEF BasesOver
  <2> QED
    BY <2>1, <2>2, <2>3, GrammarPhrases DEF Around
<1>3. \A S, T \in SUBSET Phrase : {b ** r : b \in S, r \in T} \in SUBSET Phrase
  BY Composed
<1> DEFINE Typed == {d \in Nat : Operands[d] \subseteq Phrase}
<1>4. 0 \in Typed
  BY <1>1, <1>3, PhraseParts
<1>5. ASSUME NEW d \in Nat, Operands[d] \subseteq Phrase
      PROVE  /\ Operands[d + 1] \subseteq Phrase
             /\ Operands[d + 1] = {b ** r : b \in BasesOver(ExpressionsOver(Operands[d])), r \in RangePhrases}
  <2>1. Operands[d + 1] = Around(Operands[d])
    <3>1. d + 1 \in Nat /\ d + 1 # 0 /\ (d + 1) - 1 = d
      OBVIOUS
    <3> QED
      BY <3>1, OperandsDefined
  <2>2. BasesOver(ExpressionsOver(Operands[d])) \in SUBSET Phrase
    BY <1>2, <1>5, PhraseParts DEF BasesOver
  <2>3. Operands[d + 1] = {b ** r : b \in BasesOver(ExpressionsOver(Operands[d])), r \in RangePhrases}
    BY <1>2, <1>5, <2>1
  <2>4. {b ** r : b \in BasesOver(ExpressionsOver(Operands[d])), r \in RangePhrases} \in SUBSET Phrase
    BY <1>3, <2>2, PhraseParts
  <2> QED
    BY <2>3, <2>4
<1>6. Nat \subseteq Typed
  <2>1. \A d \in Nat : d \in Typed => d + 1 \in Typed
    BY <1>5
  <2> HIDE DEF Typed
  <2> QED
    BY <1>4, <2>1, NatSet
<1> QED
  BY <1>1, <1>2, <1>5, <1>6

\* The grammar without depths: an expression has an operand, an operand is a metric
\* or an expression in parentheses.
LEMMA Grammar ==
  /\ Opd \subseteq Phrase /\ Expr \subseteq Phrase
  /\ \A e : e \in Expr <=> Len(e.text) <= MaxLen /\ \E p \in Opd : Expresses(e, p)
  /\ Opd = {b ** r : b \in BasesOver(Expr), r \in RangePhrases}
<1>1. Opd \subseteq Phrase /\ Expr \subseteq Phrase
  BY OperandsPhrases DEF Opd, Expr
<1>2. \A e : e \in Expr <=> Len(e.text) <= MaxLen /\ \E p \in Opd : Expresses(e, p)
  <2>1. \A d \in Nat : \A e : e \in ExpressionsOver(Operands[d]) <=>
                         Len(e.text) <= MaxLen /\ \E p \in Operands[d] : Expresses(e, p)
    BY OperandsPhrases, GrammarPhrases
  <2> QED
    BY <2>1 DEF Opd, Expr
<1>3. ASSUME NEW p \in Opd
      PROVE  \E b \in BasesOver(Expr), r \in RangePhrases : p = b ** r
  <2>1. PICK d \in Nat : p \in Operands[d]
    BY DEF Opd
  <2>2. CASE d = 0
    BY <2>1, <2>2, OperandsPhrases DEF BasesOver
  <2>3. CASE d # 0
    <3>1. d - 1 \in Nat /\ (d - 1) + 1 = d
      BY <2>3
    <3>2. PICK b \in BasesOver(ExpressionsOver(Operands[d - 1])), r \in RangePhrases : p = b ** r
      BY <2>1, <3>1, OperandsPhrases
    <3>3. b \in BasesOver(Expr)
      BY <3>1 DEF BasesOver, Expr
    <3> QED
      BY <3>2, <3>3
  <2> QED
    BY <2>2, <2>3
<1>4. ASSUME NEW b \in BasesOver(Expr), NEW r \in RangePhrases
      PROVE  b ** r \in Opd
  <2>1. CASE b \in MetricPhrases
    <3>1. b ** r \in Operands[0]
      BY <2>1, OperandsPhrases
    <3> QED
      BY <3>1 DEF Opd
  <2>2. CASE b \notin MetricPhrases
    <3>1. PICK e \in Expr : b = InParens(e)
      BY <2>2 DEF BasesOver
    <3>2. PICK d \in Nat : e \in ExpressionsOver(Operands[d])
      BY DEF Expr
    <3>3. b \in BasesOver(ExpressionsOver(Operands[d]))
      BY <3>1, <3>2 DEF BasesOver
    <3>4. d + 1 \in Nat /\ b ** r \in Operands[d + 1]
      BY <3>3, OperandsPhrases
    <3> QED
      BY <3>4 DEF Opd
  <2> QED
    BY <2>1, <2>2
<1> QED
  BY <1>1, <1>2, <1>3, <1>4

\* Lengths of phrases.
LEMMA Lengths ==
  /\ \A x \in Phrase : Len(x.text) \in Nat
  /\ \A x, y \in Phrase : Len((x ** y).text) = Len(x.text) + Len(y.text)
  /\ \A t \in AllTokens : Len(Tok(t).text) = 1
  /\ \A i \in Idents : Len((Tok(i) ** Node("metric")).text) = 1
<1>1. \A x \in Phrase : x.text \in Text
  BY Fields
<1>2. \A a, b \in Text : Len(a \o b) = Len(a) + Len(b)
  BY Concat
<1>3. \A x, y : (x ** y).text = x.text \o y.text
  BY PhraseFields
<1>4. \A x, y \in Phrase : Len((x ** y).text) = Len(x.text) + Len(y.text)
  <2> SUFFICES ASSUME NEW x \in Phrase, NEW y \in Phrase
               PROVE  Len((x ** y).text) = Len(x.text) + Len(y.text)
    OBVIOUS
  <2>1. x.text \in Text /\ y.text \in Text
    BY <1>1
  <2>2. Len(x.text \o y.text) = Len(x.text) + Len(y.text)
    BY <1>2, <2>1
  <2> QED
    BY <1>3, <2>2
<1>5. \A t \in AllTokens : Len(Tok(t).text) = 1
  BY Cons, PhraseFields
<1>6. \A n : Len(Node(n).text) = 0
  BY PhraseFields
<1>7. ASSUME NEW i \in Idents
      PROVE  Len((Tok(i) ** Node("metric")).text) = 1
  <2>1. Tok(i) \in Phrase /\ Node("metric") \in Phrase /\ i \in AllTokens
    BY PhraseParts, Vocabulary
  <2> QED
    <3>1. Len((Tok(i) ** Node("metric")).text) = Len(Tok(i).text) + Len(Node("metric").text)
      BY <1>4, <2>1
    <3> QED
      <4>1. Len(Tok(i).text) = 1
        BY <1>5, <2>1
      <4>2. Len(Node("metric").text) = 0
        BY <1>6
      <4>3. \A k, m, n \in Nat : k = m + n /\ m = 1 /\ n = 0 => k = 1
        OBVIOUS
      <4>4. /\ Len(Tok(i).text) \in Nat /\ Len(Node("metric").text) \in Nat
            /\ Len((Tok(i) ** Node("metric")).text) \in Nat
        BY <1>1, <2>1, Composed, Concat
      <4> QED
        BY <3>1, <4>1, <4>2, <4>3, <4>4
<1> QED
  BY <1>1, <1>4, <1>5, <1>7, Concat

\* An expression is as long as its operand at least.
LEMMA ExpressesLonger ==
  ASSUME NEW p \in Phrase, NEW e, Expresses(e, p)
  PROVE  Len(p.text) <= Len(e.text)
<1>1. /\ Tok("agg") \in Phrase /\ Tok("func") \in Phrase /\ Tok("quantile") \in Phrase
      /\ Tok("(") \in Phrase /\ Tok("num") \in Phrase /\ Tok(",") \in Phrase
      /\ Node("aggregate") \in Phrase /\ Node("function") \in Phrase /\ Node("quantile") \in Phrase
  BY PhraseParts, Vocabulary
<1>2. \A x, y \in Phrase : x ** y \in Phrase /\ Len(x.text) <= Len((x ** y).text)
                           /\ Len(y.text) <= Len((x ** y).text)
  <2> SUFFICES ASSUME NEW x \in Phrase, NEW y \in Phrase
               PROVE  x ** y \in Phrase /\ Len(x.text) <= Len((x ** y).text)
                      /\ Len(y.text) <= Len((x ** y).text)
    OBVIOUS
  <2>1. Len((x ** y).text) = Len(x.text) + Len(y.text) /\ Len(x.text) \in Nat /\ Len(y.text) \in Nat
    BY Lengths
  <2> QED
    <3>1. \A k, m, n \in Nat : k = m + n => m <= k /\ n <= k
      OBVIOUS
    <3>2. x ** y \in Phrase
      BY Composed
    <3>3. Len((x ** y).text) \in Nat
      BY <3>2, Lengths
    <3> QED
      BY <2>1, <3>1, <3>2, <3>3
<1>3. \A n \in {"aggregate", "function", "quantile"} :
         p ** Node(n) \in Phrase /\ Len(p.text) <= Len((p ** Node(n)).text)
  BY <1>1, <1>2
<1>4. \A x \in Phrase, y \in Phrase : Len(p.text) <= Len(y.text) => Len(p.text) <= Len((x ** y).text)
  <2> SUFFICES ASSUME NEW x \in Phrase, NEW y \in Phrase, Len(p.text) <= Len(y.text)
               PROVE  Len(p.text) <= Len((x ** y).text)
    OBVIOUS
  <2>1. Len((x ** y).text) \in Nat /\ Len(p.text) \in Nat /\ Len(y.text) \in Nat
        /\ Len(y.text) <= Len((x ** y).text)
    BY <1>2, Lengths
  <2> QED
    BY <2>1
<1>5. CASE e = p
  <2>1. Len(p.text) \in Nat
    BY Lengths
  <2> QED
    BY <1>5, <2>1
<1>6. CASE e = Tok("agg") ** (p ** Node("aggregate"))
  BY <1>1, <1>3, <1>4, <1>6
<1>7. CASE e = Tok("func") ** (p ** Node("function"))
  BY <1>1, <1>3, <1>4, <1>7
<1>8. CASE e = QuantilePhrase(p)
  <2> DEFINE x == p ** Node("quantile")
             y == Tok(",") ** x
             z == Tok("num") ** y
             w == Tok("(") ** z
  <2>1. x \in Phrase /\ Len(p.text) <= Len(x.text)
    BY <1>3
  <2> HIDE DEF x
  <2>2. y \in Phrase /\ Len(p.text) <= Len(y.text)
    BY <1>1, <1>2, <1>4, <2>1
  <2> HIDE DEF y
  <2>3. z \in Phrase /\ Len(p.text) <= Len(z.text)
    BY <1>1, <1>2, <1>4, <2>2
  <2> HIDE DEF z
  <2>4. w \in Phrase /\ Len(p.text) <= Len(w.text)
    BY <1>1, <1>2, <1>4, <2>3
  <2> HIDE DEF w
  <2>5. Len(p.text) <= Len((Tok("quantile") ** w).text)
    BY <1>1, <1>4, <2>4
  <2> QED
    BY <1>8, <2>5 DEF QuantilePhrase, x, y, z, w
<1> QED
  BY <1>5, <1>6, <1>7, <1>8 DEF Expresses

\* Parentheses are two tokens.
LEMMA InParensLength ==
  \A e \in Phrase : Len(InParens(e).text) = Len(e.text) + 2
<1> SUFFICES ASSUME NEW e \in Phrase
             PROVE  Len(InParens(e).text) = Len(e.text) + 2
  OBVIOUS
<1>1. "(" \in AllTokens /\ ")" \in AllTokens
  BY Vocabulary
<1>2. Tok("(") \in Phrase /\ Tok(")") \in Phrase
  BY <1>1, Composition
<1>3. e ** Tok(")") \in Phrase
  BY <1>2, Composed
<1>4. Len((e ** Tok(")")).text) = Len(e.text) + 1
  BY <1>1, <1>2, Lengths
<1>5. Len((Tok("(") ** (e ** Tok(")"))).text) = 1 + (Len(e.text) + 1)
  BY <1>1, <1>2, <1>3, <1>4, Lengths
<1>6. Len(e.text) \in Nat
  BY Lengths
<1> QED
  BY <1>5, <1>6 DEF InParens

\* An operand has a token.
LEMMA OperandsNotEmpty ==
  \A d \in Nat : \A p \in Operands[d] : Len(p.text) >= 1
<1> SUFFICES ASSUME NEW d \in Nat, NEW p \in Operands[d]
             PROVE  Len(p.text) >= 1
  OBVIOUS
<1>1. PICK b \in Phrase, r \in RangePhrases :
         p = b ** r /\ (b \in MetricPhrases \/ \E e \in Phrase : b = InParens(e))
  <2>1. CASE d = 0
    BY <2>1, OperandsPhrases, PhraseParts
  <2>2. CASE d # 0
    <3>1. d - 1 \in Nat /\ (d - 1) + 1 = d
      BY <2>2
    <3>2. PICK b \in BasesOver(ExpressionsOver(Operands[d - 1])), r \in RangePhrases : p = b ** r
      BY <3>1, OperandsPhrases
    <3>4. b \in Phrase
      BY <3>1, OperandsPhrases, PhraseParts DEF BasesOver
    <3>3. b \in MetricPhrases \/ \E e \in Phrase : b = InParens(e)
      BY <3>1, OperandsPhrases DEF BasesOver
    <3> QED
      BY <3>2, <3>3, <3>4
  <2> QED
    BY <2>1, <2>2
<1>3. b \in Phrase /\ r \in Phrase
  BY <1>1, PhraseParts
<1>4. Len(b.text) >= 1
  <2>1. CASE b \in MetricPhrases
    BY <2>1, Lengths DEF MetricPhrases
  <2>2. CASE \E e \in Phrase : b = InParens(e)
    <3>1. PICK e \in Phrase : b = InParens(e)
      BY <2>2
    <3> QED
      BY <3>1, InParensLength, Lengths
  <2> QED
    BY <1>1, <2>1, <2>2
<1>5. Len(p.text) = Len(b.text) + Len(r.text) /\ Len(r.text) \in Nat /\ Len(b.text) \in Nat
  BY <1>1, <1>3, Lengths
<1>6. \A k, m, n \in Nat : k = m + n /\ m >= 1 => k >= 1
  OBVIOUS
<1>7. Len(p.text) \in Nat
  BY OperandsPhrases, Lengths
<1> QED
  BY <1>4, <1>5, <1>6, <1>7

\* An operand is at most half as deep as it is long.
LEMMA Depths ==
  \A d \in Nat : \A p \in Operands[d], k \in Nat : Len(p.text) <= 2 * k + 2 => p \in Operands[k]
<1> DEFINE Fits(d) == \A p \in Operands[d], k \in Nat : Len(p.text) <= 2 * k + 2 => p \in Operands[k]
           Deep == {d \in Nat : Fits(d)}
<1>1. ASSUME NEW k \in Nat, NEW b \in MetricPhrases, NEW r \in RangePhrases
      PROVE  b ** r \in Operands[k]
  <2>1. CASE k = 0
    BY <2>1, OperandsPhrases
  <2>2. CASE k # 0
    <3>1. k - 1 \in Nat /\ (k - 1) + 1 = k
      BY <2>2
    <3>2. Operands[(k - 1) + 1] =
            {a ** q : a \in BasesOver(ExpressionsOver(Operands[k - 1])), q \in RangePhrases}
      BY <3>1, OperandsPhrases
    <3> QED
      BY <3>1, <3>2 DEF BasesOver
  <2> QED
    BY <2>1, <2>2
<1>2. 0 \in Deep
  BY <1>1, OperandsPhrases
<1>3. ASSUME NEW d \in Nat, Fits(d), NEW p \in Operands[d + 1], NEW k \in Nat, Len(p.text) <= 2 * k + 2
      PROVE  p \in Operands[k]
  <2>1. PICK b \in BasesOver(ExpressionsOver(Operands[d])), r \in RangePhrases : p = b ** r
    BY OperandsPhrases
  <2>2. CASE b \in MetricPhrases
    BY <1>1, <2>1, <2>2
  <2>3. CASE b \notin MetricPhrases
    <3>1. PICK e \in ExpressionsOver(Operands[d]) : b = InParens(e)
      BY <2>3 DEF BasesOver
    <3>2. e \in Phrase /\ r \in Phrase /\ b \in Phrase
      BY <3>1, OperandsPhrases, PhraseParts
    <3>3. Len(b.text) = Len(e.text) + 2
      BY <3>1, <3>2, InParensLength
    <3>4. PICK q \in Operands[d] : Expresses(e, q) /\ Len(e.text) <= MaxLen
      BY OperandsPhrases, GrammarPhrases
    <3>5. q \in Phrase
      BY OperandsPhrases
    <3>6. Len(q.text) <= Len(e.text) /\ Len(q.text) > 0
      BY <3>4, <3>5, ExpressesLonger, OperandsNotEmpty
    <3>7. Len(p.text) = Len(b.text) + Len(r.text) /\ Len(r.text) \in Nat
      BY <2>1, <3>2, Lengths
    <3>8. k - 1 \in Nat /\ (k - 1) + 1 = k /\ Len(q.text) <= 2 * (k - 1) + 2
      <4>1. Len(e.text) \in Nat /\ Len(q.text) \in Nat
        BY <3>2, <3>5, Lengths
      <4> QED
        <5>1. \A a, c, f \in Nat :
                 a <= c /\ a > 0 /\ (c + 2) + f <= 2 * k + 2 => k - 1 \in Nat /\ a <= 2 * (k - 1) + 2
          OBVIOUS
        <5>2. (Len(e.text) + 2) + Len(r.text) <= 2 * k + 2
          BY <1>3, <3>3, <3>7
        <5>3. k - 1 \in Nat /\ Len(q.text) <= 2 * (k - 1) + 2
          BY <3>6, <3>7, <4>1, <5>1, <5>2
        <5> QED
          BY <5>3
    <3>9. q \in Operands[k - 1]
      BY <1>3, <3>8
    <3>10. e \in ExpressionsOver(Operands[k - 1])
      <4>1. Operands[k - 1] \in SUBSET Phrase
        BY <3>8, OperandsPhrases
      <4> QED
        BY <3>4, <3>9, <4>1, GrammarPhrases
    <3>11. b \in BasesOver(ExpressionsOver(Operands[k - 1]))
      BY <3>1, <3>10 DEF BasesOver
    <3> QED
      BY <2>1, <3>8, <3>11, OperandsPhrases
  <2> QED
    BY <2>2, <2>3
<1>4. Nat \subseteq Deep
  <2>1. \A d \in Nat : d \in Deep => d + 1 \in Deep
    BY <1>3
  <2> HIDE DEF Deep
  <2> QED
    BY <1>2, <2>1, NatSet
<1> QED
  BY <1>4

\* The depth that Sentences stops at is enough for every expression it may hold.
LEMMA ExprAreSentences ==
  Expr \subseteq Sentences
<1> SUFFICES ASSUME NEW e \in Expr
             PROVE  e \in Sentences
  OBVIOUS
<1> DEFINE k == MaxLen \div 2
<1>1. k \in Nat /\ MaxLen <= 2 * k + 2
  BY MaxLenAssumption
<1>2. PICK d \in Nat : e \in ExpressionsOver(Operands[d])
  BY DEF Expr
<1>3. PICK p \in Operands[d] : Expresses(e, p) /\ Len(e.text) <= MaxLen
  BY <1>2, OperandsPhrases, GrammarPhrases
<1>4. p \in Phrase /\ e \in Phrase
  BY <1>2, OperandsPhrases
<1>5. Len(p.text) <= 2 * k + 2
  BY <1>1, <1>3, <1>4, ExpressesLonger, Lengths, MaxLenAssumption
<1> HIDE DEF k
<1>6. p \in Operands[k]
  BY <1>1, <1>5, Depths
<1>7. Operands[k] \in SUBSET Phrase
  BY <1>1, OperandsPhrases
<1>8. e \in ExpressionsOver(Operands[k])
  BY <1>3, <1>6, <1>7, GrammarPhrases
<1> QED
  BY <1>8 DEF Sentences, k

\* And nothing else is one.
LEMMA SentencesAreExpr ==
  Sentences \subseteq Expr
<1>1. MaxLen \div 2 \in Nat
  BY MaxLenAssumption
<1> QED
  BY <1>1 DEF Sentences, Expr

------------------------------------------------------------------------------
(* The first tokens of phrases.                                            *)

\* A phrase that starts with a token.
LEMMA Starts ==
  ASSUME NEW t \in AllTokens, NEW x \in Phrase
  PROVE  /\ (Tok(t) ** x).text = <<t>> \o x.text
         /\ (Tok(t) ** x).text # <<>>
         /\ Head((Tok(t) ** x).text) = t
         /\ \A c \in AllTokens, rem \in Text :
              (Tok(t) ** x).text = <<c>> \o rem => c = t /\ x.text = rem
<1>1. (Tok(t) ** x).text = <<t>> \o x.text
  BY PhraseFields
<1>2. x.text \in Text
  BY Fields
<1>3. <<t>> \o x.text # <<>> /\ Head(<<t>> \o x.text) = t
  BY <1>2, Cons
<1>4. \A c \in AllTokens, rem \in Text : <<t>> \o x.text = <<c>> \o rem => t = c /\ x.text = rem
  <2>1. \A c, d \in AllTokens, a, b \in Text : <<c>> \o a = <<d>> \o b => c = d /\ a = b
    BY Cons
  <2> QED
    BY <1>2, <2>1
<1> QED
  BY <1>1, <1>3, <1>4

\* What an operand is: a metric or parentheses, and a range.
LEMMA OperandParts ==
  \A p : p \in Opd <=>
    \E r \in RangePhrases :
      \/ \E i \in Idents : p = Tok(i) ** (Node("metric") ** r)
      \/ \E e \in Expr : p = Tok("(") ** (e ** (Tok(")") ** r))
<1>1. ASSUME NEW i \in Idents, NEW r \in RangePhrases
      PROVE  (Tok(i) ** Node("metric")) ** r = Tok(i) ** (Node("metric") ** r)
  <2>1. Tok(i) \in Phrase /\ Node("metric") \in Phrase /\ r \in Phrase
    BY PhraseParts, Vocabulary
  <2> QED
    BY <2>1, Regrouped
<1>2. ASSUME NEW e \in Expr, NEW r \in RangePhrases
      PROVE  InParens(e) ** r = Tok("(") ** (e ** (Tok(")") ** r))
  <2>1. /\ Tok("(") \in Phrase /\ Tok(")") \in Phrase /\ r \in Phrase
        /\ e \in Phrase
    BY PhraseParts, Vocabulary, Grammar
  <2>2. (Tok("(") ** (e ** Tok(")"))) ** r = Tok("(") ** (e ** (Tok(")") ** r))
    BY <2>1, RegroupedFour
  <2> QED
    BY <2>2 DEF InParens
<1>3. Opd = {b ** r : b \in BasesOver(Expr), r \in RangePhrases}
  BY Grammar
<1>4. \A b : b \in BasesOver(Expr) <=>
        \/ \E i \in Idents : b = Tok(i) ** Node("metric")
        \/ \E e \in Expr : b = InParens(e)
  BY DEF BasesOver, MetricPhrases
<1> QED
  BY <1>1, <1>2, <1>3, <1>4

\* What an operand starts with.
LEMMA OperandHeads ==
  \A p \in Opd : p \in Phrase /\ p.text # <<>> /\ Head(p.text) \in Idents \cup {"("}
<1> SUFFICES ASSUME NEW p \in Opd
             PROVE  p \in Phrase /\ p.text # <<>> /\ Head(p.text) \in Idents \cup {"("}
  OBVIOUS
<1>1. PICK r \in RangePhrases :
        \/ \E i \in Idents : p = Tok(i) ** (Node("metric") ** r)
        \/ \E e \in Expr : p = Tok("(") ** (e ** (Tok(")") ** r))
  BY OperandParts
<1>2. r \in Phrase /\ Node("metric") \in Phrase /\ Tok(")") \in Phrase /\ "(" \in AllTokens
  BY PhraseParts, Vocabulary
<1>3. CASE \E i \in Idents : p = Tok(i) ** (Node("metric") ** r)
  <2>1. PICK i \in Idents : p = Tok(i) ** (Node("metric") ** r)
    BY <1>3
  <2>2. i \in AllTokens /\ Node("metric") ** r \in Phrase
    BY <1>2, Composed, Vocabulary
  <2>3. p.text # <<>> /\ Head(p.text) = i
    BY <2>1, <2>2, Starts
  <2> QED
    BY <2>3, Grammar
<1>4. CASE \E e \in Expr : p = Tok("(") ** (e ** (Tok(")") ** r))
  <2>1. PICK e \in Expr : p = Tok("(") ** (e ** (Tok(")") ** r))
    BY <1>4
  <2>2. e \in Phrase /\ Tok(")") ** r \in Phrase
    BY <1>2, Composed, Grammar
  <2>3. e ** (Tok(")") ** r) \in Phrase
    BY <2>2, Composed
  <2>4. p.text # <<>> /\ Head(p.text) = "("
    BY <1>2, <2>1, <2>3, Starts
  <2> QED
    BY <2>4, Grammar
<1> QED
  BY <1>1, <1>3, <1>4

------------------------------------------------------------------------------
(* The calls that wait, and what closes them.                              *)

\* The phrases that close a call, and those that close the calls of a stack.
Closes(c, x, y) ==
  \/ c = "paren" /\ \E r \in RangePhrases : x = Tok(")") ** (r ** y)
  \/ c \in Operators /\ x = Node(c) ** y

\* Those of a whole stack, innermost call first: f is what closes the outer ones.
Closings(k) ==
  {z \in Phrase :
     \E f \in [0..Len(k) -> Phrase] :
       f[0] = Empty /\ f[Len(k)] = z /\ \A i \in 1..Len(k) : Closes(k[i], f[i], f[i - 1])}

\* One more call is closed first.
LEMMA ClosingsPushed ==
  ASSUME NEW k \in Seq(Calls), NEW c \in Calls, NEW z
  PROVE  z \in Closings(Append(k, c)) <=> z \in Phrase /\ \E y \in Closings(k) : Closes(c, z, y)
<1> DEFINE n == Len(k)
           kc == Append(k, c)
<1>1. n \in Nat /\ Len(kc) = n + 1 /\ kc[n + 1] = c /\ \A i \in 1..n : kc[i] = k[i]
  BY AppendProperties, LenProperties
<1> HIDE DEF n, kc
<1>2. ASSUME z \in Closings(kc)
      PROVE  z \in Phrase /\ \E y \in Closings(k) : Closes(c, z, y)
  <2>1. PICK f \in [0..(n + 1) -> Phrase] :
          f[0] = Empty /\ f[n + 1] = z /\ \A i \in 1..(n + 1) : Closes(kc[i], f[i], f[i - 1])
    BY <1>1, <1>2 DEF Closings
  <2> DEFINE g == [i \in 0..n |-> f[i]]
  <2>2. g \in [0..n -> Phrase] /\ g[0] = Empty /\ g[n] = f[n] /\ f[n] \in Phrase
    BY <1>1, <2>1
  <2>3. \A i \in 1..n : Closes(k[i], g[i], g[i - 1])
    <3> SUFFICES ASSUME NEW i \in 1..n PROVE Closes(k[i], g[i], g[i - 1])
      OBVIOUS
    <3>1. i \in 1..(n + 1) /\ i \in 0..n /\ i - 1 \in 0..n /\ kc[i] = k[i]
      BY <1>1
    <3>2. g[i] = f[i] /\ g[i - 1] = f[i - 1]
      BY <3>1
    <3> QED
      BY <2>1, <3>1, <3>2
  <2> HIDE DEF g
  <2>4. f[n] \in Closings(k)
    BY <2>2, <2>3 DEF Closings, n
  <2>5. Closes(c, z, f[n])
    <3>1. n + 1 \in 1..(n + 1) /\ (n + 1) - 1 = n
      BY <1>1
    <3>2. Closes(kc[n + 1], f[n + 1], f[(n + 1) - 1])
      BY <2>1, <3>1
    <3> QED
      BY <1>1, <2>1, <3>1, <3>2
  <2> QED
    BY <1>2, <2>4, <2>5 DEF Closings
<1>3. ASSUME z \in Phrase, NEW y \in Closings(k), Closes(c, z, y)
      PROVE  z \in Closings(kc)
  <2>1. PICK f \in [0..n -> Phrase] :
          f[0] = Empty /\ f[n] = y /\ \A i \in 1..n : Closes(k[i], f[i], f[i - 1])
    BY <1>3 DEF Closings, n
  <2> DEFINE g == [i \in 0..(n + 1) |-> IF i = n + 1 THEN z ELSE f[i]]
  <2>2. g \in [0..(n + 1) -> Phrase] /\ g[0] = Empty /\ g[n + 1] = z
    BY <1>1, <1>3, <2>1
  <2>3. ASSUME NEW i \in 1..(n + 1)
        PROVE  Closes(kc[i], g[i], g[i - 1])
    <3>1. i - 1 \in 0..n /\ g[i - 1] = f[i - 1]
      BY <1>1
    <3>2. CASE i = n + 1
      <4>1. g[i] = z /\ f[i - 1] = y
        BY <1>1, <2>1, <2>2, <3>2
      <4> QED
        BY <1>1, <1>3, <3>1, <3>2, <4>1
    <3>3. CASE i # n + 1
      <4>1. i \in 1..n /\ g[i] = f[i]
        BY <1>1, <3>3
      <4> QED
        BY <1>1, <2>1, <3>1, <4>1
    <3> QED
      BY <3>2, <3>3
  <2> HIDE DEF g
  <2> QED
    BY <1>1, <1>3, <2>2, <2>3 DEF Closings
<1> QED
  BY <1>2, <1>3 DEF kc

\* Nothing closes no call.
LEMMA ClosingsEmpty ==
  Closings(<<>>) = {Empty}
<1>1. Len(<<>>) = 0
  OBVIOUS
<1>3. Empty \in Phrase
  BY Composition
<1>4. Empty \in Closings(<<>>)
  <2> DEFINE f == [i \in 0..0 |-> Empty]
  <2>1. f \in [0..0 -> Phrase] /\ f[0] = Empty /\ 1..0 = {}
    BY <1>3
  <2> HIDE DEF f
  <2> QED
    BY <1>1, <1>3, <2>1 DEF Closings
<1>5. \A z \in Closings(<<>>) : z = Empty
  BY <1>1 DEF Closings
<1> QED
  BY <1>4, <1>5

\* What closes a stack is nothing, or starts with a parenthesis.
LEMMA ClosingsFollow ==
  ASSUME NEW k \in Seq(Calls), NEW z \in Closings(k)
  PROVE  z \in Phrase /\ (z.text = <<>> \/ Head(z.text) = ")")
<1> DEFINE n == Len(k)
           Fine(x) == x.text = <<>> \/ Head(x.text) = ")"
<1>1. PICK f \in [0..n -> Phrase] :
        f[0] = Empty /\ f[n] = z /\ \A i \in 1..n : Closes(k[i], f[i], f[i - 1])
  BY DEF Closings
<1>2. n \in Nat
  BY LenProperties
<1> HIDE DEF n
<1> DEFINE Good == {i \in Nat : i <= n => Fine(f[i])}
<1>3. 0 \in Good
  BY <1>1, PhraseFields
<1>4. ASSUME NEW i \in Nat, i \in Good
      PROVE  i + 1 \in Good
  <2> SUFFICES ASSUME i + 1 <= n
               PROVE  Fine(f[i + 1])
    OBVIOUS
  <2>1. i + 1 \in 1..n /\ (i + 1) - 1 = i /\ i \in 0..n
    BY <1>2
  <2>2. Fine(f[i]) /\ f[i] \in Phrase
    BY <1>1, <1>4, <2>1
  <2>3. Closes(k[i + 1], f[i + 1], f[i])
    BY <1>1, <2>1
  <2>4. CASE \E r \in RangePhrases : f[i + 1] = Tok(")") ** (r ** f[i])
    <3>1. PICK r \in RangePhrases : f[i + 1] = Tok(")") ** (r ** f[i])
      BY <2>4
    <3>2. r ** f[i] \in Phrase /\ ")" \in AllTokens
      BY <2>2, PhraseParts, Composed, Vocabulary
    <3> QED
      BY <3>1, <3>2, Starts
  <2>5. CASE f[i + 1] = Node(k[i + 1]) ** f[i]
    <3>1. f[i + 1].text = <<>> \o f[i].text
      <4>1. (Node(k[i + 1]) ** f[i]).text = Node(k[i + 1]).text \o f[i].text
        BY PhraseFields
      <4>2. Node(k[i + 1]).text = <<>>
        BY PhraseFields
      <4> QED
        BY <2>5, <4>1, <4>2
    <3>2. f[i].text \in Text
      BY <2>2, Fields
    <3>3. f[i + 1].text = f[i].text
      BY <3>1, <3>2, Concat
    <3> QED
      BY <2>2, <3>3
  <2> QED
    BY <2>3, <2>4, <2>5 DEF Closes
<1>5. Nat \subseteq Good
  <2> HIDE DEF Good
  <2> QED
    BY <1>3, <1>4, NatSet
<1>6. z = f[n] /\ Fine(f[n])
  BY <1>1, <1>2, <1>5
<1> QED
  BY <1>6 DEF Closings

------------------------------------------------------------------------------
(* Operands and what follows them.                                         *)

\* A quantile and what follows it.
LEMMA QuantileRegrouped ==
  ASSUME NEW p \in Phrase, NEW x \in Phrase
  PROVE  QuantilePhrase(p) ** x =
           Tok("quantile") **
             (Tok("(") ** (Tok("num") ** (Tok(",") ** (p ** (Node("quantile") ** x)))))
<1>1. /\ Tok("quantile") \in Phrase /\ Tok("(") \in Phrase /\ Tok("num") \in Phrase
      /\ Tok(",") \in Phrase /\ Node("quantile") \in Phrase
  BY PhraseParts, Vocabulary
<1>6. (Tok("(") ** (Tok("num") ** (Tok(",") ** (p ** Node("quantile"))))) ** x
        = Tok("(") ** (Tok("num") ** (Tok(",") ** (p ** (Node("quantile") ** x))))
  <2> DEFINE a == Tok("(")
             b == Tok("num")
             c == Tok(",")
             e == Node("quantile")
  <2>1. a \in Phrase /\ b \in Phrase /\ c \in Phrase /\ e \in Phrase
    BY <1>1
  <2> HIDE DEF a, b, c, e
  <2>2. (a ** (b ** (c ** (p ** e)))) ** x = a ** (b ** (c ** (p ** (e ** x))))
    BY <2>1, RegroupedSix
  <2> QED
    BY <2>2 DEF a, b, c, e
<1> DEFINE y == Tok("(") ** (Tok("num") ** (Tok(",") ** (p ** Node("quantile"))))
<1>2. y \in Phrase
  <2>1. p ** Node("quantile") \in Phrase
    BY <1>1, Composed
  <2>2. Tok(",") ** (p ** Node("quantile")) \in Phrase
    BY <1>1, <2>1, Composed
  <2>3. Tok("num") ** (Tok(",") ** (p ** Node("quantile"))) \in Phrase
    BY <1>1, <2>2, Composed
  <2> QED
    BY <1>1, <2>3, Composed
<1>3. y ** x = Tok("(") ** (Tok("num") ** (Tok(",") ** (p ** (Node("quantile") ** x))))
  BY <1>6
<1>4. QuantilePhrase(p) = Tok("quantile") ** y
  BY DEF QuantilePhrase
<1> HIDE DEF y
<1>5. (Tok("quantile") ** y) ** x = Tok("quantile") ** (y ** x)
  <2>1. Tok("quantile") \in Phrase
    BY <1>1
  <2> QED
    BY <1>2, <2>1, Regrouped
<1> QED
  BY <1>3, <1>4, <1>5

\* A range and what follows it.
LEMMA DurationRegrouped ==
  ASSUME NEW u \in Units, NEW x \in Phrase
  PROVE  RangePhrase(u) ** x =
           Tok("[") ** (Tok("num") ** (Say(u) ** (Tok("]") ** (Node("range") ** x))))
<1>1. /\ Tok("[") \in Phrase /\ Tok("num") \in Phrase /\ Say(u) \in Phrase
      /\ Tok("]") \in Phrase /\ Node("range") \in Phrase
  BY PhraseParts, Vocabulary
<1> QED
  BY <1>1, RegroupedSix DEF RangePhrase

\* An expression that fits is one of the grammar.
LEMMA ExprMade ==
  ASSUME NEW d \in Phrase, NEW y \in Phrase, NEW p \in Opd, NEW e, Expresses(e, p),
         Len((d ** (e ** y)).text) <= MaxLen
  PROVE  e \in Expr
<1>1. e \in Phrase
  BY ExpressesPhrase, OperandHeads
<1>2. e ** y \in Phrase
  BY <1>1, Composed
<1>3. /\ Len((d ** (e ** y)).text) = Len(d.text) + Len((e ** y).text)
      /\ Len((e ** y).text) = Len(e.text) + Len(y.text)
      /\ Len(d.text) \in Nat /\ Len(e.text) \in Nat /\ Len(y.text) \in Nat
      /\ Len((e ** y).text) \in Nat /\ Len((d ** (e ** y)).text) \in Nat
  <2>1. d ** (e ** y) \in Phrase
    BY <1>2, Composed
  <2> QED
    BY <1>1, <1>2, <2>1, Lengths
<1>4. \A a, b, c \in Nat : a = b + c /\ a <= MaxLen => b <= MaxLen /\ c <= MaxLen
  BY MaxLenAssumption
<1>6. Len((e ** y).text) <= MaxLen
  <2>1. /\ Len((d ** (e ** y)).text) = Len(d.text) + Len((e ** y).text)
        /\ Len(d.text) \in Nat /\ Len((e ** y).text) \in Nat
        /\ Len((d ** (e ** y)).text) \in Nat
    BY <1>3
  <2> DEFINE a == Len((d ** (e ** y)).text)
             b == Len(d.text)
             c == Len((e ** y).text)
  <2>2. a \in Nat /\ b \in Nat /\ c \in Nat /\ a = b + c /\ a <= MaxLen
    BY <2>1
  <2> HIDE DEF a, b, c
  <2>3. c <= MaxLen
    BY <1>4, <2>2
  <2> QED
    BY <2>3 DEF c
<1>5. Len(e.text) <= MaxLen
  <2>1. /\ Len((e ** y).text) = Len(e.text) + Len(y.text)
        /\ Len(e.text) \in Nat /\ Len(y.text) \in Nat /\ Len((e ** y).text) \in Nat
    BY <1>3
  <2> QED
    BY <1>4, <1>6, <2>1
<1> QED
  BY <1>5, Grammar

\* A node is not seen.
LEMMA NodeText ==
  ASSUME NEW n \in Nodes, NEW x \in Phrase
  PROVE  (Node(n) ** x).text = x.text
<1>1. (Node(n) ** x).text = Node(n).text \o x.text /\ Node(n).text = <<>>
  BY PhraseFields
<1>2. x.text \in Text /\ <<>> \o x.text = x.text
  BY Fields, Concat
<1> QED
  BY <1>1, <1>2

\* Reading on in a phrase that starts with a token.
LEMMA StartRead ==
  ASSUME NEW t \in AllTokens, NEW x \in Phrase, NEW c \in AllTokens, NEW rem \in Text,
         (Tok(t) ** x).text = <<c>> \o rem
  PROVE  c = t /\ x.text = rem
<1>1. \A a \in AllTokens, b \in Text : (Tok(t) ** x).text = <<a>> \o b => a = t /\ x.text = b
  BY Starts
<1> QED
  BY <1>1

\* The first token of an expression says which kind it is.
LEMMA ExprStarts ==
  ASSUME NEW e \in Expr
  PROVE  /\ e \in Phrase /\ e.text # <<>>
         /\ \/ e \in Opd /\ Head(e.text) \in {"name", "("}
            \/ Head(e.text) = "agg" /\ \E p \in Opd : e = Tok("agg") ** (p ** Node("aggregate"))
            \/ Head(e.text) = "func" /\ \E p \in Opd : Head(p.text) = "(" /\ e = Tok("func") ** (p ** Node("function"))
            \/ Head(e.text) = "quantile" /\ \E p \in Opd : e = QuantilePhrase(p)
<1>1. PICK p \in Opd : Expresses(e, p)
  BY Grammar
<1>2. p \in Phrase /\ p.text # <<>>
  BY OperandHeads
<1>3. /\ "agg" \in AllTokens /\ "func" \in AllTokens /\ "quantile" \in AllTokens
      /\ Node("aggregate") \in Phrase /\ Node("function") \in Phrase /\ Node("quantile") \in Phrase
      /\ Tok("(") \in Phrase /\ Tok("num") \in Phrase /\ Tok(",") \in Phrase
  BY PhraseParts, Vocabulary
<1>4. CASE e = p /\ Head(p.text) \in {"name", "("}
  BY <1>2, <1>4
<1>5. CASE e = Tok("agg") ** (p ** Node("aggregate"))
  <2>1. p ** Node("aggregate") \in Phrase
    BY <1>2, <1>3, Composed
  <2>2. e.text # <<>> /\ Head(e.text) = "agg"
    BY <1>3, <1>5, <2>1, Starts
  <2> QED
    BY <1>5, <2>2, Grammar
<1>6. CASE e = Tok("func") ** (p ** Node("function")) /\ Head(p.text) = "("
  <2>1. p ** Node("function") \in Phrase
    BY <1>2, <1>3, Composed
  <2>2. e.text # <<>> /\ Head(e.text) = "func"
    BY <1>3, <1>6, <2>1, Starts
  <2> QED
    BY <1>6, <2>2, Grammar
<1>7. CASE e = QuantilePhrase(p)
  <2> DEFINE x == Tok("(") ** (Tok("num") ** (Tok(",") ** (p ** Node("quantile"))))
  <2>1. x \in Phrase
    <3>1. p ** Node("quantile") \in Phrase
      BY <1>2, <1>3, Composed
    <3>2. Tok(",") ** (p ** Node("quantile")) \in Phrase
      BY <1>3, <3>1, Composed
    <3>3. Tok("num") ** (Tok(",") ** (p ** Node("quantile"))) \in Phrase
      BY <1>3, <3>2, Composed
    <3> QED
      BY <1>3, <3>3, Composed
  <2>2. e = Tok("quantile") ** x
    BY <1>7 DEF QuantilePhrase
  <2> HIDE DEF x
  <2>3. e.text # <<>> /\ Head(e.text) = "quantile"
    BY <1>3, <2>1, <2>2, Starts
  <2> QED
    BY <1>7, <2>3, Grammar
<1> QED
  BY <1>1, <1>4, <1>5, <1>6, <1>7 DEF Expresses

\* StartRead for the token the phrase starts with.
LEMMA StartRest ==
  \A t \in AllTokens, x \in Phrase, rem \in Text :
    (Tok(t) ** x).text = <<t>> \o rem => x.text = rem
BY StartRead

\* What remains within a range is a phrase.
LEMMA RangeRest ==
  ASSUME NEW u \in Units, NEW z \in Phrase
  PROVE  /\ Tok("]") ** (Node("range") ** z) \in Phrase
         /\ Say(u) ** (Tok("]") ** (Node("range") ** z)) \in Phrase
         /\ Tok("num") ** (Say(u) ** (Tok("]") ** (Node("range") ** z))) \in Phrase
<1>1. Tok("]") \in Phrase /\ Node("range") \in Phrase /\ Tok("num") \in Phrase /\ Say(u) \in Phrase
  BY PhraseParts, Vocabulary
<1>2. Node("range") ** z \in Phrase
  BY <1>1, Composed
<1>3. Tok("]") ** (Node("range") ** z) \in Phrase
  BY <1>1, <1>2, Composed
<1>4. Say(u) ** (Tok("]") ** (Node("range") ** z)) \in Phrase
  BY <1>1, <1>3, Composed
<1> QED
  BY <1>1, <1>3, <1>4, Composed

\* A text is its beginning and the rest.
LEMMA Split ==
  ASSUME NEW t \in Text, NEW k \in 0..Len(t)
  PROVE  \E rest \in Text : t = SubSeq(t, 1, k) \o rest
<1> DEFINE n == Len(t)
           a == SubSeq(t, 1, k)
           b == SubSeq(t, k + 1, n)
<1>1. n \in Nat /\ k \in Nat /\ k <= n /\ \A i \in 1..n : t[i] \in AllTokens
  BY LenProperties, ElementOfSeq DEF Text
<1>2. a \in Text /\ Len(a) = k /\ \A i \in 1..k : a[i] = t[i]
  BY <1>1, SubSeqProperties DEF Text
<1>3. b \in Text /\ Len(b) = n - k /\ \A i \in 1..(n - k) : b[i] = t[k + i]
  BY <1>1, SubSeqProperties DEF Text
<1> HIDE DEF a, b
<1>4. /\ a \o b \in Text /\ Len(a \o b) = n
      /\ \A i \in 1..n : (a \o b)[i] = IF i <= k THEN a[i] ELSE b[i - k]
  <2>1. /\ a \o b \in Text /\ Len(a \o b) = Len(a) + Len(b)
        /\ \A i \in 1..(Len(a) + Len(b)) :
              (a \o b)[i] = IF i <= Len(a) THEN a[i] ELSE b[i - Len(a)]
    BY <1>2, <1>3, ConcatProperties DEF Text
  <2>2. Len(a) + Len(b) = n
    BY <1>1, <1>2, <1>3
  <2> QED
    BY <1>2, <2>1, <2>2
<1>5. \A i \in 1..n : (a \o b)[i] = t[i]
  BY <1>1, <1>2, <1>3, <1>4
<1> HIDE DEF n
<1>6. t = a \o b
  BY <1>4, <1>5, SeqEqual DEF Text, n
<1> QED
  BY <1>3, <1>6 DEF a

==============================================================================
