------------------------- MODULE DictionaryBuilder --------------------------
(* The dictionary builder from its input to what the analyzer or the       *)
(* generator reads: segmentation rules are compiled, the lines of a        *)
(* dictionary become interpretations, those of one key an entry, and the   *)
(* entries, in order, an automaton.  Entries can also be given directly    *)
(* (build_simple_fsa_from_sorted_entries).                                 *)
(*                                                                         *)
(* A source is [target, lines, patterns, rules, options]: the target is    *)
(* "analyzer" or "generator"; patterns give lexemes their segment types.   *)
(***************************************************************************)
EXTENDS SimpleFsa, SegmentRules, DictionaryForms

CONSTANTS
  Sources,    (* the inputs that are tried                                 *)
  NoSource,   (* entries are given directly                                *)
  Given,      (* the words that they may have                              *)
  Tags        (* the tagset                                                *)

VARIABLES source, rules, converted, partial, pending

input == <<source, rules, converted, partial, pending>>
vars  == <<fsa, input>>

ASSUME DictionaryBuilderAssumption == Given \subseteq Words /\ NoSource \notin Sources

NoRules == [fsa |-> <<>>, replaced |-> {}, extra |-> <<>>]

Init ==
  /\ FsaInit
  /\ source \in Sources \cup {NoSource}
  /\ rules = NoRules /\ converted = 0 /\ partial = <<>> /\ pending = <<>>
  /\ pc = IF source = NoSource THEN "ready" ELSE "rules"

-----------------------------------------------------------------------------
ParseRules ==
  /\ pc = "rules"
  /\ IF PatternsValid(source.patterns, Tags) /\ RulesCompile(source)
     THEN rules' = CompiledRules(source) /\ pc' = "convert"
     ELSE rules' = rules /\ pc' = "failed"
  /\ UNCHANGED <<builder, previous, entries, adding, stack, order, image, source, converted, partial, pending>>

LinesOf(line) ==
  IF source.target = "analyzer" THEN AnalyzerLines(line, source.patterns, rules)
  ELSE GeneratorLines(line, source.patterns, rules)

(* A tag that the tagset lacks ends it, unless a generator's line has no   *)
(* lemma.                                                                  *)
ConvertLine ==
  /\ pc = "convert" /\ converted < Len(source.lines)
  /\ LET line == source.lines[converted + 1] IN
     IF line.tag \in Tags \/ (source.target = "generator" /\ line.lemma = <<>>)
     THEN partial' = partial \o LinesOf(line) /\ converted' = converted + 1 /\ pc' = pc
     ELSE pc' = "failed" /\ UNCHANGED <<partial, converted>>
  /\ UNCHANGED <<builder, previous, entries, adding, stack, order, image, source, rules, pending>>

(* The text by which a generator's lines are put in order; a tab is below  *)
(* the letters, and numbers have one digit.                                *)
LegacyLine(p) ==
  p.orth \o <<0>> \o p.base \o <<0, p.tag, p.name, p.type>> \o p.homonym \o <<0, p.labels>>

(* Mutant: a generator's keys are in lower case like an analyzer's.        *)
LowerCaseKey(p) == ToLowercase(IF source.target = "analyzer" THEN p.orth ELSE p.base)

EntryKey(p) == IF source.target = "analyzer" THEN ToLowercase(p.orth) ELSE p.base

(* Interpretations of one key, in the order in which the first one counts. *)
InOrder(key) ==
  IF source.target = "analyzer" THEN SelectSeq(partial, LAMBDA p : EntryKey(p) = key)
  ELSE SetToSortSeq({ p \in Range(partial) : EntryKey(p) = key },
         LAMBDA p, q : Less(LegacyLine(p), LegacyLine(q)))

PayloadOf(key) ==
  LET lines == InOrder(key)
      Interpretation(line) ==
        IF source.target = "analyzer" THEN AnalyzerInterpretation(line) ELSE GeneratorInterpretation(line)
  IN  Payload(Dedup([i \in DOMAIN lines |-> Interpretation(lines[i])], source.target), source.target)

Group ==
  /\ pc = "convert" /\ converted = Len(source.lines)
  /\ IF \E p \in Range(partial) : p.orth = <<>> \/ EntryKey(p) = <<>>
     THEN pc' = "failed" /\ pending' = pending
     ELSE LET keys == SetToSortSeq({ EntryKey(p) : p \in Range(partial) }, Less) IN
          /\ pending' = [i \in DOMAIN keys |-> [word |-> keys[i], data |-> PayloadOf(keys[i])]]
          /\ pc' = "ready"
  /\ UNCHANGED <<builder, previous, entries, adding, stack, order, image, source, rules, converted, partial>>

TakeEntry ==
  /\ pending # <<>>
  /\ AddEntry(Head(pending).word, Head(pending).data)
  /\ pending' = Tail(pending)
  /\ UNCHANGED <<source, rules, converted, partial>>

TakeGiven ==
  /\ source = NoSource
  /\ \E w \in Given : Refuse(w) \/ \E d \in Data : AddEntry(w, d)
  /\ UNCHANGED input

CloseAll == pending = <<>> /\ Close /\ UNCHANGED input

Finished == pc \in {"done", "failed"} /\ UNCHANGED vars

Next ==
  \/ ParseRules \/ ConvertLine \/ Group
  \/ TakeEntry \/ TakeGiven \/ CloseAll
  \/ FsaSteps /\ UNCHANGED input
  \/ Finished

Spec == Init /\ [][Next]_vars

-----------------------------------------------------------------------------
(* What is read of a finished dictionary                                   *)

(* The interpretations that a key leads to, still packed.                  *)
Packed(key) ==
  UNION { UNION { { [type |-> type, group |-> payload[type], item |-> item] : item \in payload[type].items } :
                  type \in DOMAIN payload } :
          payload \in Recognized(key) }

(* A word's interpretations in the analyzer, the case of the word heeded.  *)
Analyses(orth) ==
  UNION { LET f == ReadAnalyzerItem(p.group, p.item) IN
          { [type |-> p.type, lemma |-> lemma, tag |-> f.tag, name |-> f.name, labels |-> f.labels] :
              lemma \in IF MatchesOrth(orth, f.orths) THEN DecodeLemma(orth, f) ELSE {} } :
          p \in Packed(TableLowered(orth)) }

(* collect_segmented_generator_paths: chunks whose types the automaton     *)
(* takes, to the end of the lemma.                                         *)
RECURSIVE GeneratorPaths(_, _, _)
GeneratorPaths(automaton, lemma, offset) ==
  LET Through(n, type, t) ==
        LET chunk == [lemma |-> First(lemma, n), shift |-> t.shift,
                      interps |-> { ReadGeneratorItem(p.item) :
                                      p \in { p \in Packed(First(lemma, n)) : p.type = type } }]
        IN  IF n = Len(lemma) THEN {[chunks |-> <<chunk>>, weak |-> automaton[t.target].weak]}
            ELSE { [p EXCEPT !.chunks = <<chunk>> \o @] : p \in GeneratorPaths(automaton, From(lemma, n), t.target) }
      Types(n) == { p.type : p \in Packed(First(lemma, n)) }
      Ways(n, type) == ProceedToNext(automaton, offset, type, n = Len(lemma))
  IN  UNION { UNION { UNION { Through(n, type, t) : t \in Ways(n, type) } : type \in Types(n) } :
              n \in 1 .. Len(lemma) }

(* synthesize_interpretations: without any transition, what the dictionary *)
(* has for the lemma as it is.                                             *)
Synthesise(automaton, query) ==
  LET paths == GeneratorPaths(automaton, LookedUp(query), 0)
      kept  == IF \E p \in paths : ~p.weak THEN { p \in paths : ~p.weak } ELSE paths
      plain == { ReadGeneratorItem(p.item) : p \in Packed(LookedUp(query)) }
  IN  IF automaton[0].transitions = <<>>
      THEN { Synthesised(<<>>, LookedUp(query), i) : i \in { i \in plain : HomonymMatches(query, i) } }
      ELSE UNION { Runs(p.chunks, query) : p \in kept }

-----------------------------------------------------------------------------
(* Properties                                                              *)

(* A word as it is, in lower case, and in upper case.                      *)
CaseVariants(w) ==
  {w, TableLowered(w), FlattenSeq([i \in DOMAIN w |-> UnicodeUpper[TableLower[w[i]]]])}

Built(target) == pc = "done" /\ source # NoSource /\ source.target = target

Lines == ToSet(source.lines)

(* The segments, shifted or not, that the rules as written have somewhere. *)
Segments ==
  UNION { UNION { ToSet(m.word) : m \in Meaning(source, c) } : c \in Combinations(source.options) }

(* What a line says of its form: its type, where that occurs without ">",  *)
(* with its lemma; where it occurs with ">", with the form for a lemma.    *)
Said(line) ==
  LET type == LexemeSegmentType(source.patterns, line.lemma, line) IN
  (IF <<type, TRUE>> \in Segments /\ <<type, FALSE>> \notin Segments THEN {}
   ELSE {[type |-> type, lemma |-> line.lemma]})
    \cup (IF <<type, TRUE>> \notin Segments THEN {}
          ELSE {[type |-> RowOf(rules, <<<<type, TRUE>>>>)[1], lemma |-> line.orth]})

(* Lemmas compare with their case unless a prefix of the form is cut.      *)
SameLemma(orth, lemma, read) ==
  IF EncodeAnalyzerForm(orth, lemma).prefix = 0 THEN read = lemma
  ELSE TableLowered(read) = TableLowered(lemma)

(* The rules obeyed: an analyzer's automata read a row of segments exactly *)
(* as some active rule allows it, with its shifts and its weakness; a      *)
(* generator's take what can be made of them; rules are refused for a      *)
(* reason.                                                                 *)
RulesObeyed ==
  /\ pc = "convert" /\ converted = 0 =>
       IF source.target = "analyzer" THEN ReadsWhatIsMeant(source, rules)
       ELSE ReadsWhatCanBeMade(source, rules)
  /\ pc = "failed" /\ source # NoSource /\ rules = NoRules =>
       RefusedForReason(source) \/ ~PatternsValid(source.patterns, Tags)

(* Words read back: the analyzer finds in the finished dictionary, for the *)
(* form of a line, what the line says, and for a word in any case nothing  *)
(* that no line says; a form's upper-case letters ask for upper case.      *)
WordsReadBack ==
  Built("analyzer") =>
    /\ \A line \in { l \in Lines : Plain(l.orth) /\ Plain(l.lemma) } : \A s \in Said(line) :
         \E a \in Analyses(line.orth) :
           /\ a.type = s.type /\ a.tag = line.tag /\ a.name = line.name
           /\ SameLemma(line.orth, s.lemma, a.lemma)
    /\ \A line \in Lines : \A orth \in CaseVariants(line.orth) : \A a \in Analyses(orth) :
         \E l \in Lines : \E s \in Said(l) :
           /\ TableLowered(l.orth) = TableLowered(orth)
           /\ a.type = s.type /\ a.tag = l.tag /\ a.name = l.name /\ a.labels = l.labels
           /\ Plain(l.lemma) => SameLemma(l.orth, s.lemma, a.lemma)
           /\ \A i \in 1 .. Len(l.orth) - EncodeAnalyzerForm(l.orth, s.lemma).cut :
                IsUpper(l.orth[i]) => TableLower[orth[i]] # orth[i]

NameOf(lemma) == IF HasColon(lemma) THEN Homonym(lemma) ELSE <<>>

WithHomonym(w, lemma) == IF GeneratorSplit(lemma) THEN w \o <<Colon>> \o Homonym(lemma) ELSE w

BaseOf(lemma) == IF GeneratorSplit(lemma) THEN Base(lemma) ELSE lemma
TypeOf(line)  == LexemeSegmentType(source.patterns, BaseOf(line.lemma), line)

(* Lemmas of what a shifted form may stand before.                        *)
GeneratorQueries(line) == { l.orth \o line.lemma : l \in Lines }

(* Another form of the lexeme with the same tag and the same ending, which *)
(* comes first: only what stands before the stem tells the two apart.      *)
Shadowed(line) ==
  \E l \in Lines :
    /\ [l EXCEPT !.orth = line.orth, !.labels = line.labels] = line /\ Less(l.orth, line.orth)
    /\ \E base \in {BaseOf(line.lemma)} :
         [EncodeGeneratorForm(base, l.orth) EXCEPT !.prefix = <<>>] =
           [EncodeGeneratorForm(base, line.orth) EXCEPT !.prefix = <<>>]

(* Rows of forms whose types occur with ">".                               *)
ShiftedForms ==
  { l.orth : l \in { l \in Lines : l.lemma # <<>> /\ <<TypeOf(l), TRUE>> \in Segments } }

IsShiftedRow(w) ==
  LET cut[n \in 0 .. Len(w)] ==
        n = 0 \/ \E k \in 0 .. n - 1 : cut[k] /\ SubSeq(w, k + 1, n) \in ShiftedForms
  IN  cut[Len(w)]

(* Forms generated: under all options whose automaton takes its segment    *)
(* alone and strongly, a line's form is made of its lemma; and what is     *)
(* made of a lemma is a line's form, behind forms of shifted segments.     *)
FormsGenerated ==
  Built("generator") => \A c \in DOMAIN rules.fsa :
    /\ \A line \in Lines :
         /\ line.lemma # <<>> /\ (HasColon(line.lemma) => GeneratorSplit(line.lemma))
         /\ TypeOf(line) \notin rules.replaced
         /\ [shifts |-> <<FALSE>>, weak |-> FALSE] \in RulesReading(rules.fsa[c], <<TypeOf(line)>>)
         => \/ Shadowed(line)
            \/ \E labels \in DOMAIN LabelSet :
                 [orth |-> line.orth, lemma |-> line.lemma, tag |-> line.tag, name |-> line.name,
                  labels |-> labels] \in Synthesise(rules.fsa[c], line.lemma)
    /\ \A line \in Lines : \A query \in {line.lemma, BaseOf(line.lemma)} \cup GeneratorQueries(line) :
         \A r \in Synthesise(rules.fsa[c], query) : \E l \in Lines : \E n \in 0 .. Len(LookedUp(query)) :
           LET before == First(LookedUp(query), n) IN
           /\ l.lemma # <<>> /\ r.tag = l.tag /\ r.name = l.name /\ r.labels = l.labels
           /\ r.orth = before \o l.orth /\ IsShiftedRow(before)
           /\ \/ r.lemma = before \o l.lemma
              \/ r.lemma = WithHomonym(before \o l.orth, l.lemma) /\ <<TypeOf(l), TRUE>> \in Segments
           /\ HasColon(query) => NameOf(r.lemma) = Homonym(query)
=============================================================================
