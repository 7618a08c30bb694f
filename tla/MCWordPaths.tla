---------------------------- MODULE MCWordPaths ----------------------------
(* Instances of WordPaths: "A" is the only uppercase letter, "-" a         *)
(* separator.                                                              *)
EXTENDS WordPaths, TLC

MCChars == {"a", "b", "A", "-"}
MCLower == [c \in MCChars |-> IF c = "A" THEN "a" ELSE c]
MCTypes == {"prefix", "stem", "suffix", "mark"}

Of(type, patterns) == [segment_type |-> type, patterns |-> patterns]

Either  == {}
Capital == {1}

(* The groups of a segment may differ in type and in the case they want;   *)
(* one entry has a pattern that reaches past its text and one holds a separator. *)
MCDictionary ==
  ( <<"a">>           :> <<Of("prefix", <<Either>>), Of("stem", <<Capital>>)>> ) @@
  ( <<"b">>           :> <<Of("stem", <<Either, Capital>>), Of("suffix", <<Either>>)>> ) @@
  ( <<"a", "b">>      :> <<Of("stem", <<Capital>>), Of("stem", <<Either>>)>> ) @@
  ( <<"b", "a">>      :> <<Of("suffix", <<{3}>>)>> ) @@
  ( <<"b", "-", "a">> :> <<Of("stem", <<Either>>)>> ) @@
  ( <<"-">>           :> <<Of("mark", <<Either>>)>> )

MCRuleStates == 0 .. 4

To(type, shift, to) == [segment_type |-> type, shift |-> shift, to |-> to]
State(accepting, weak, transitions) ==
  [accepting |-> accepting, weak |-> weak, transitions |-> transitions]

MCRules(initial, states) ==
  [s \in MCRuleStates |-> IF s = 0 THEN initial ELSE states[s]]

(* Prefixes, a stem and suffixes, which make the word weak; or a mark.     *)
Permissive ==
  MCRules(State(FALSE, FALSE, <<To("prefix", TRUE, 1), To("stem", FALSE, 2), To("mark", FALSE, 4)>>),
          <<State(FALSE, FALSE, <<To("prefix", TRUE, 1), To("stem", FALSE, 2)>>),
            State(TRUE, FALSE, <<To("suffix", FALSE, 3)>>),
            State(TRUE, TRUE, <<To("suffix", FALSE, 3)>>),
            State(TRUE, FALSE, <<>>)>>)

(* No prefixes, one suffix at most, and a type that has two transitions.   *)
Strict ==
  MCRules(State(TRUE, FALSE, <<To("stem", TRUE, 4), To("stem", FALSE, 1)>>),
          <<State(TRUE, FALSE, <<To("suffix", TRUE, 2)>>),
            State(TRUE, FALSE, <<>>), State(FALSE, FALSE, <<>>), State(TRUE, FALSE, <<>>)>>)

(* The placeholder of dictionaries without rules.                          *)
Placeholder == [s \in MCRuleStates |-> State(TRUE, FALSE, <<>>)]

MCRuleSets == {Permissive, Strict, Placeholder}

MaxLength == 4
MCWords == UNION { [1 .. n -> MCChars] : n \in 1 .. MaxLength }
=============================================================================
