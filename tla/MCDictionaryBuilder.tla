------------------------ MODULE MCDictionaryBuilder -------------------------
(* Instances of DictionaryBuilder: entries given directly (all words of up *)
(* to three letters, and one that gives the initial state a third          *)
(* transition); sets of rules, each with one dictionary; and all pairs of  *)
(* lines, with one set of rules.                                           *)
EXTENDS DictionaryBuilder

CONSTANTS d, e

MCGiven == UNION { [1 .. n -> {1, 2}] : n \in 0 .. 3 } \cup {<<3>>}
MCData  == {d, e}
MCDataSize(v) == IF v = d THEN 50 ELSE IF v = e THEN 60 ELSE PayloadSize(v)

(* Letters: the colon; A, B; a, b; i, a dot above, and I with a dot, whose *)
(* lower case is i with the dot in Unicode and i in the table.             *)
colon == 1
A == 2
B == 3
a == 4
b == 5
i == 6
dot == 7
I == 8
MCLetters      == 1 .. 8
MCUnicodeLower == <<<<1>>, <<a>>, <<b>>, <<a>>, <<b>>, <<i>>, <<dot>>, <<i, dot>>>>
MCUnicodeUpper == <<<<1>>, <<A>>, <<B>>, <<A>>, <<B>>, <<i>>, <<dot>>, <<I>>>>
MCTableLower   == <<1, a, b, a, b, i, dot, i>>
MCLabelSet     == [n \in 0 .. 2 |-> 1 .. n]

-----------------------------------------------------------------------------
Rule(r)         == [rule |-> r, weak |-> FALSE, ifdefs |-> <<>>]
Weak(r)         == [Rule(r) EXCEPT !.weak = TRUE]
Under(v, line)  == [line EXCEPT !.ifdefs = <<[value |-> v, before |-> TRUE]>>]
Else(v, line)   == [line EXCEPT !.ifdefs = <<[value |-> v, before |-> FALSE]>>]
T(type)         == Tag(type, FALSE)
S(type)         == Tag(type, TRUE)
Plus(r)         == [op |-> "plus", children |-> <<r>>]
Shifted(r)      == [op |-> "shifted", children |-> <<r>>]
TimesOf(r, n)   == [op |-> "times", children |-> <<r>>, from |-> n]
Range1(r, n, m) == [op |-> "range", children |-> <<r>>, from |-> n, to |-> m]
Open(r, n)      == [op |-> "open", children |-> <<r>>, from |-> n]

Aggl  == [key |-> "aggl", values |-> <<"strict", "permissive">>]
Praet == [key |-> "praet", values |-> <<"split">>]

RuleSets ==
  { <<Rule(T(0))>>,
    <<Rule(Concat(<<S(0), T(1)>>)), Rule(T(0))>>,
    <<Rule(Concat(<<S(0), Concat(<<T(1), T(2)>>)>>))>>,
    <<Rule(Concat(<<Star(S(0)), T(0)>>))>>,
    <<Rule(Concat(<<Star(S(0)), Optional(T(1)), T(2)>>)), Weak(Plus(T(0)))>>,
    <<Rule(Concat(<<Range1(T(0), 0, 2), T(1)>>)), Weak(Range1(T(2), 1, 2))>>,
    <<Rule(Concat(<<Shifted(Or(<<T(0), T(1)>>)), T(2)>>)), Rule(Open(T(1), 2))>>,
    <<Rule(TimesOf(T(0), 2)), Weak(Or(<<T(1), Concat(<<S(2), T(1)>>)>>))>>,
    <<Under("strict", Rule(T(0))), Else("strict", Rule(Concat(<<T(0), Optional(T(1))>>))),
      Weak(Concat(<<T(1), T(0)>>))>>,
    <<Rule(Concat(<<T(2), S(0), Optional(T(1))>>))>>,
    <<Rule(S(0))>>, <<Rule(Optional(T(0)))>>, <<Rule(T(0)), Weak(Or(<<T(0), T(1)>>))>>,
    <<Rule(Concat(<<T(0), S(1)>>))>>, <<Rule(Or(<<T(0), S(1)>>))>>,
    <<Rule(Range1(T(0), 2, 1))>>, <<Rule(Open(T(0), 0))>>, <<>>,
    <<Rule(Concat(<<T(0), T(1), T(2), T(0), T(1), T(2)>>)),
      Rule(Or(<<Concat(<<T(1), T(0), T(2)>>), Concat(<<T(2), T(1), T(0), Star(T(1))>>)>>))>> }

(* Type 1 is only shifted, 0 both, 2 never.                                *)
LineRules == <<Rule(T(0)), Rule(Concat(<<S(0), T(2)>>)), Rule(Concat(<<S(1), T(2)>>)), Rule(T(2))>>

-----------------------------------------------------------------------------
MCTags == {0, 1}
Line(orth, lemma, tag) == [orth |-> orth, lemma |-> lemma, tag |-> tag, name |-> 0, labels |-> 0]

(* Lexemes and tags to types, the most specific first.                     *)
Pattern(of, tags, type) == [of |-> of, tags |-> tags, name |-> 0, labels |-> {}, type |-> type]
Patterns ==
  <<Pattern(Lexeme(<<b>>), MCTags, 1), Pattern(Lexeme(<<a, colon, b>>), MCTags, 0),
    [Pattern(General, MCTags, 0) EXCEPT !.name = 1],
    [Pattern(General, MCTags, 0) EXCEPT !.labels = {2}],
    Pattern(General, {1}, 0), Pattern(General, MCTags, 2)>>

RuleLines == <<Line(<<a>>, <<a>>, 1), Line(<<b>>, <<b>>, 0), Line(<<a, b>>, <<A, b>>, 0)>>

LinePool ==
  <<Line(<<A, b>>, <<a, b>>, 0), Line(<<a, b>>, <<A, b>>, 0), Line(<<a, b>>, <<a, b>>, 0),
    Line(<<a, B>>, <<a, B>>, 0), Line(<<b, a, b>>, <<a, b>>, 0), Line(<<b, a, b>>, <<A, b>>, 0),
    Line(<<a, a, b>>, <<a, b>>, 0), Line(<<b, b>>, <<b>>, 0), Line(<<a>>, <<a, colon, b>>, 0),
    Line(<<a>>, <<a, colon>>, 1), Line(<<a, b>>, <<colon, b>>, 1), Line(<<I>>, <<I>>, 0),
    Line(<<i>>, <<i>>, 1), Line(<<a, b>>, <<>>, 2), Line(<<a, b>>, <<>>, 0), Line(<<a>>, <<a>>, 2), Line(<<A>>, <<a>>, 1),
    [Line(<<a, b>>, <<a, b>>, 0) EXCEPT !.labels = 1], [Line(<<a, b>>, <<a, b>>, 0) EXCEPT !.labels = 2],
    [Line(<<a>>, <<a>>, 0) EXCEPT !.name = 1], Line(<<>>, <<a>>, 0)>>

MCSources ==
  [target : {"analyzer", "generator"}, rules : RuleSets, options : {<<Aggl, Praet>>},
   lines : {RuleLines}, patterns : {Patterns}]
  \cup [target : {"analyzer", "generator"}, rules : {<<Rule(T(0))>>},
        options : {<<Aggl>>, <<[Aggl EXCEPT !.values = <<"split">>], Praet>>},
        lines : {RuleLines}, patterns : {SubSeq(Patterns, 1, 5), Patterns}]
  \cup [target : {"generator"}, rules : {<<Rule(T(0)), Weak(T(2))>>}, options : {<<Aggl, Praet>>},
        lines : {<<Line(<<a>>, <<a>>, 0), Line(<<b>>, <<a>>, 1)>>}, patterns : {Patterns}]
  \cup [target : {"analyzer", "generator"}, rules : {LineRules},
        options : {<<[Aggl EXCEPT !.values = <<"strict">>], Praet>>},
        lines : { <<LinePool[j], LinePool[k]>> : <<j, k>> \in
                    { jk \in (DOMAIN LinePool) \X (DOMAIN LinePool) : jk[1] < jk[2] } },
        patterns : {Patterns}]

(* Words that the dictionaries have or that are asked of them.             *)
MCWords ==
  MCGiven \cup {<<a, a>>, <<b, b, a>>}
    \cup UNION { {ToLowercase(l.orth), TableLowered(l.orth), l.orth, l.lemma} : l \in Range(LinePool) }
MCLabels == UNION { Range(w) : w \in MCWords }
=============================================================================
