--------------------------- MODULE MCTextAnalysis ---------------------------
(***************************************************************************)
(* Three dictionaries: one of plain lines, one with compounds and numbers, *)
(* one whose rules give every kind of hint.  The first text of a session   *)
(* is any up to four or three characters long, or one of those that need   *)
(* more; the second, which may continue the numbering, is one of two.      *)
(***************************************************************************)
EXTENDS TextAnalysis

Chars == {"a", "A", "b", "m", "-", ":", " ", "1", "I", "V"}
MCLower == [c \in Chars |-> IF c = "A" THEN "a" ELSE c]
MCUpper == [c \in Chars |-> IF c = "a" THEN "A" ELSE c]
MCWordChars == Chars \ {"-", ":", " "}
MCEuro == <<"m">>
MCLabelOrder == <<<<"A">>, <<"b">>, MCEuro>>

Entry(orth, lemma, tag, labels) ==
  [kind |-> "entry", orth |-> orth, lemma |-> lemma, tag |-> tag, name |-> Blank, labels |-> labels]
Named(l, name) == [l EXCEPT !.name = name]
Of(kind) == [kind |-> kind, text |-> kind]
TagLine(id, tag) == [kind |-> "tag", id |-> id, text |-> tag]

a == <<"a">>
A == <<"A">>
b == <<"b">>
m == <<"m">>

Plain ==
  [tagset |-> NoFile, rules |-> NoFile,
   dictionary |-> <<
     Of("id"), Of("open"), Entry(b, a, "hidden", <<>>), Of("close"), Of("comment"),
     Entry(a, <<"a", ":", "b">>, "adja", <<>>), Named(Entry(b, b, "adj:sg", <<MCEuro>>), "name"),
     Entry(<<"a", "m">>, a, "subst:sg", <<MCEuro, <<"b">>>>), Entry(m, m, "aglt:sg", <<>>)>>]

Compounded ==
  [tagset |-> <<Of("id"), TagLine(9, "none"), Of("section"), TagLine(4, "dig"), TagLine(2, "dig"),
                TagLine(4, "romandig"), [kind |-> "section", text |-> "TAGS"], TagLine(4, "adja"),
                TagLine(2, "dig"), TagLine(3, "dig"), TagLine(2, "romandig"), TagLine(3, "dig"), TagLine(4, "conj")>>,
   rules |-> <<[section |-> "options", parts |-> <<>>, shifts |-> FALSE]>>,
   dictionary |-> <<
     Entry(a, a, "adja", <<MCEuro, MCEuro>>), Entry(<<"a", "-", "a">>, a, "subst:sg", <<>>),
     Entry(<<"a", "-", "a", "-", "b">>, b, "subst:sg", <<>>), Entry(b, b, "adja", <<>>)>>]

Segment(s) == [segment |-> s, text |-> <<>>]
Label(t) == [segment |-> "label", text |-> t]
Rule(parts) == [section |-> "combinations", parts |-> parts, shifts |-> FALSE]

WithHints ==
  [tagset |-> NoFile,
   rules |-> <<
     [section |-> "options", parts |-> <<>>, shifts |-> TRUE],
     Rule(<<Label(b)>>), Rule(<<Label(MCEuro), Label(b)>>),
     Rule(<<Segment("prefs"), Segment("subst")>>),
     Rule(<<Segment("prefs"), Segment("dywiz"), Segment("subst")>>),
     Rule(<<Segment("nie"), Segment("dywiz"), Segment("subst")>>),
     Rule(<<Segment("subst"), Segment("dywiz"), Segment("subst")>>)>>,
   dictionary |-> <<
     Entry(m, m, "prefs", <<>>), Entry(b, b, "nie", <<>>),
     Entry(A, A, "subst:sg", <<MCEuro, b>>), Entry(<<"A", "b">>, A, "subst:sg", <<b, A>>),
     Entry(<<"a", "b">>, <<"a", ":", "b">>, "adj:sg", <<b>>), Entry(b, b, "adja", <<b>>)>>]

(* A dictionary whose last line is cut short. *)
CutShort == [Plain EXCEPT !.dictionary = Append(@, Of("short"))]
CutTagset == [Compounded EXCEPT !.tagset = Append(@, Of("short"))]
(* A copyright that never ends. *)
Unclosed == [Plain EXCEPT !.dictionary = SubSeq(@, 6, 7) \o SubSeq(@, 1, 3)]

MCSources == {Plain, Compounded, WithHints, CutShort, CutTagset, Unclosed}

MCTexts(n) ==
  IF n = 0
  THEN SeqOf({"a", "m", "-", " "}, 4) \cup SeqOf({"a", "A", "b", "m", "-", " "}, 3)
         \cup {<<"a", "-", "b">>, <<"b", "-", "a">>, <<"a", "-", "a", "-", "b">>, <<"m", "A", "-", "b">>,
               <<"1">>, <<"1", "1", "-", "a">>, <<"I", "V", " ", "1">>, <<"V", "I", "I", "I", "I">>}
  ELSE {<<"a">>, <<"-", " ", "a">>}

(* A binary dictionary divides words that have two characters. *)
MCNativeWord(w) ==
  IF Len(w) = 2
  THEN [edges |-> {Edge(0, 1, <<w[1]>>, a, 2), Edge(1, 2, <<w[2]>>, a, 2), Edge(0, 2, w, w, 3)},
        nodes |-> 2]
  ELSE [edges |-> {Edge(0, 1, w, w, 0)}, nodes |-> 1]
=============================================================================
