-------------------------- MODULE DictionaryForms ---------------------------
(* What the builder makes of a line of a dictionary, and what the analyzer *)
(* and the generator make of that: a lemma is written as a difference from *)
(* its form (for an analyzer) or a form as a difference from its lemma     *)
(* (for a generator), the differences of one segment type are packed       *)
(* together, and the readers undo it.                                      *)
(*                                                                         *)
(* Words are sequences of letters.  A case pattern, in the code a list of  *)
(* Booleans, is the set of positions, from 0, of the upper-case letters.   *)
(* A line is [orth, lemma, tag, name, labels]: tag, name and labels are    *)
(* numbers, 0 for no name and for no labels.                               *)
(***************************************************************************)
EXTENDS Integers, Sequences, FiniteSets, FiniteSetsExt, SequencesExt

CONSTANTS
  Letters,        (* code points, in their order                           *)
  Colon,          (* stands before a homonym's name                        *)
  UnicodeLower,   (* to_lowercase, to_uppercase of the standard library:   *)
  UnicodeUpper,   (* a letter may become several                           *)
  TableLower,     (* to_lower_char: the analyzer's own table, one by one   *)
  LabelSet        (* LabelSet[n]: the labels that a line's number stands for *)

ASSUME DictionaryFormsAssumption ==
  /\ Letters \subseteq Nat \ {0} /\ Colon \in Letters
  /\ UnicodeLower \in [Letters -> Seq(Letters)] /\ UnicodeUpper \in [Letters -> Seq(Letters)]
  /\ TableLower \in [Letters -> Letters]
  /\ \A k, l \in Letters : UnicodeUpper[k] = <<l>> => UnicodeUpper[l] = <<l>>
  /\ 0 \in DOMAIN LabelSet /\ LabelSet[0] = {}

ToLowercase(w) == FlattenSeq([i \in DOMAIN w |-> UnicodeLower[w[i]]])
TableLowered(w) == [i \in DOMAIN w |-> TableLower[w[i]]]

(* is_case_pattern_upper *)
IsUpper(l)     == UnicodeUpper[l] = <<l>> /\ UnicodeLower[l] # <<l>>
CasePattern(w) == { i \in 0 .. Len(w) - 1 : IsUpper(w[i + 1]) }

From(w, n)  == SubSeq(w, n + 1, Len(w))
First(w, n) == SubSeq(w, 1, n)

-----------------------------------------------------------------------------
(* Encoding of forms                                                       *)

CharsMatch(k, l, lowercase) == IF lowercase THEN UnicodeLower[k] = UnicodeLower[l] ELSE k = l

RootLength(from, target, lowercase) ==
  Max({ n \in 0 .. Min({Len(from), Len(target)}) :
          \A i \in 1 .. n : CharsMatch(from[i], target[i], lowercase) })

EncodeFormWithoutPrefix(from, target, lowercase) ==
  LET root == RootLength(from, target, lowercase)
  IN  [cut |-> Len(from) - root, suffix |-> From(target, root), pattern |-> CasePattern(First(target, root))]

(* The lengths of prefix that are tried, and which is kept of those up to  *)
(* n: each is compared with the one kept before, better having the pairs   *)
(* of which the first is taken for the second.                             *)
PrefixLengths(w) == 0 .. Min({Len(w), 5}) - 1

KeptLength(better, n) ==
  LET kept[p \in 0 .. n] ==
        IF p = 0 THEN 0 ELSE IF <<p, kept[p - 1]>> \in better THEN p ELSE kept[p - 1]
  IN  kept[n]

EncodeAnalyzerForm(orth, lemma) ==
  LET Form(p) == EncodeFormWithoutPrefix(From(orth, p), lemma, TRUE)
      better  == { pq \in PrefixLengths(orth) \X PrefixLengths(orth) :
                     Len(Form(pq[1]).suffix) + pq[1] < Len(Form(pq[2]).suffix) }
      kept    == KeptLength(better, Max(PrefixLengths(orth)))
  IN  [prefix |-> kept, cut |-> Form(kept).cut, suffix |-> Form(kept).suffix,
       pattern |-> Form(kept).pattern]

EncodeGeneratorForm(lemma, orth) ==
  LET Form(p) == EncodeFormWithoutPrefix(lemma, From(orth, p), FALSE)
      better  == { pq \in PrefixLengths(orth) \X PrefixLengths(orth) :
                     Len(Form(pq[1]).suffix) + pq[1] < Len(Form(pq[2]).suffix) + pq[2] }
      kept    == KeptLength(better, Max(PrefixLengths(orth)))
  IN  [prefix |-> First(orth, kept), cut |-> Form(kept).cut, suffix |-> Form(kept).suffix]

-----------------------------------------------------------------------------
(* Segment types of lexemes                                                *)

HasColon(w)   == \E i \in DOMAIN w : w[i] = Colon
FirstColon(w) == Min({ i \in DOMAIN w : w[i] = Colon })
Base(w)       == First(w, FirstColon(w) - 1)
Homonym(w)    == From(w, FirstColon(w))

(* split_lemma_homonym *)
Lexeme(w) ==
  IF HasColon(w) /\ \E i \in DOMAIN w : w[i] # Colon
  THEN [lemma |-> {Base(w)}, homonym |-> {Homonym(w)}]
  ELSE [lemma |-> {w}, homonym |-> {}]

General == [lemma |-> {}, homonym |-> {}]

(* A pattern [of, tags, name, labels, type]: of a Lexeme or General.       *)
WildcardPattern(p, tags) == p.of = General /\ p.tags = tags /\ p.name = 0 /\ p.labels = {}

PatternsValid(patterns, tags) ==
  /\ patterns # <<>> /\ WildcardPattern(Last(patterns), tags)
  /\ \A i \in 1 .. Len(patterns) - 1 : ~WildcardPattern(patterns[i], tags)

Matching(patterns, of, line) ==
  { i \in DOMAIN patterns :
      /\ patterns[i].of = of /\ line.tag \in patterns[i].tags
      /\ patterns[i].name \in {0, line.name} /\ patterns[i].labels \subseteq LabelSet[line.labels] }

(* lookup_segment_type_num: for the homonym, for the lemma, for any.       *)
LexemeSegmentType(patterns, lemma, line) ==
  LET of    == Lexeme(lemma)
      tried == <<of, [of EXCEPT !.homonym = {}], General>>
      first == Min({ k \in 1 .. 3 : Matching(patterns, tried[k], line) # {} })
  IN  patterns[Min(Matching(patterns, tried[first], line))].type

-----------------------------------------------------------------------------
(* Lines to interpretations.  rules: what the segmentation rules came to.  *)

Partial(line, base, homonym, type) ==
  [orth |-> line.orth, base |-> base, homonym |-> homonym, type |-> type,
   tag |-> line.tag, name |-> line.name, labels |-> line.labels]

PartialLines(line, lemma, homonym, patterns, rules) ==
  LET type == LexemeSegmentType(patterns, lemma, line)
      base == IF type \in rules.replaced THEN line.orth ELSE lemma
  IN  <<Partial(line, base, homonym, type)>>
        \o IF type \in DOMAIN rules.extra
           THEN <<Partial(line, line.orth, homonym, rules.extra[type])>> ELSE <<>>

AnalyzerLines(line, patterns, rules) == PartialLines(line, line.lemma, <<>>, patterns, rules)

(* split_generator_homonym: not as the segment type's split.               *)
GeneratorSplit(w) == HasColon(w) /\ Base(w) # <<>> /\ Homonym(w) # <<>>

GeneratorLines(line, patterns, rules) ==
  IF line.lemma = <<>> THEN <<>>
  ELSE IF GeneratorSplit(line.lemma)
  THEN PartialLines(line, Base(line.lemma), Homonym(line.lemma), patterns, rules)
  ELSE PartialLines(line, line.lemma, <<>>, patterns, rules)

AnalyzerInterpretation(p) ==
  LET form == EncodeAnalyzerForm(p.orth, p.base)
  IN  [prefix |-> form.prefix, cut |-> form.cut, suffix |-> form.suffix, pattern |-> form.pattern,
       orths |-> CasePattern(First(p.orth, Len(p.orth) - form.cut)),
       tag |-> p.tag, name |-> p.name, type |-> p.type, labels |-> p.labels]

GeneratorInterpretation(p) ==
  LET form == EncodeGeneratorForm(p.base, p.orth)
  IN  [homonym |-> p.homonym, prefix |-> form.prefix, cut |-> form.cut, suffix |-> form.suffix,
       tag |-> p.tag, name |-> p.name, type |-> p.type, labels |-> p.labels]

(* The sort keys leave the labels out, a generator's the prefix too.       *)
SortKey(i, target) ==
  IF target = "analyzer" THEN [i EXCEPT !.labels = 0]
  ELSE [i EXCEPT !.labels = 0, !.prefix = <<>>]

(* Of interpretations in a row, the first of each sort key.                *)
Dedup(interps, target) ==
  { interps[i] : i \in { i \in DOMAIN interps :
      \A j \in 1 .. i - 1 : SortKey(interps[j], target) # SortKey(interps[i], target) } }

-----------------------------------------------------------------------------
(* Packing: a field is a sequence of bytes, an interpretation one of fields *)

InEach == 0   (* no case bit set: each interpretation has its pattern      *)
Lower  == 1
Title  == 2
PrefixInEach == 15   (* PREFIX_CUT_MASK *)

(* Mutant: patterns that are all titles but for lower-case ones are titles.*)
CaseOfAnyTitle(patterns) ==
  IF patterns \subseteq {{}} THEN Lower ELSE IF patterns \subseteq {{}, {0}} THEN Title ELSE InEach

CaseOf(patterns) ==
  IF patterns = {{}} THEN Lower ELSE IF patterns = {{0}} THEN Title ELSE InEach

PrefixOf(prefixes) ==
  IF Cardinality(prefixes) = 1 /\ Max(prefixes) < PrefixInEach THEN Max(prefixes) ELSE PrefixInEach

InRisingOrder(S) ==
  [k \in 1 .. Cardinality(S) |-> CHOOSE i \in S : Cardinality({ j \in S : j < i }) = k - 1]

(* encode_case_pattern: lower, an upper-case prefix, or the positions.     *)
EncodeCasePattern(pattern) ==
  IF pattern = {} THEN <<0>>
  ELSE IF pattern = 0 .. Cardinality(pattern) - 1 THEN <<1, Cardinality(pattern)>>
  ELSE <<2, Cardinality(pattern)>> \o InRisingOrder(pattern)

When(condition, field) == IF condition THEN <<field>> ELSE <<>>
Word(w)   == Append(w, 0)
Number(n) == <<n \div 256, n % 256>>
Meta(i)   == <<Number(i.tag), <<i.name>>, Number(i.labels)>>

AnalyzerGroup(interps) ==
  LET orth   == CaseOf({ i.orths : i \in interps })
      lemma  == CaseOf({ i.pattern : i \in interps })
      prefix == PrefixOf({ i.prefix : i \in interps })
      Fields(i) == When(orth = InEach, EncodeCasePattern(i.orths)) \o When(prefix = PrefixInEach, <<i.prefix>>)
                     \o <<<<i.cut>>, Word(i.suffix)>>
                     \o When(lemma = InEach, EncodeCasePattern(i.pattern)) \o Meta(i)
  IN  [orth |-> orth, lemma |-> lemma, prefix |-> prefix, items |-> { Fields(i) : i \in interps }]

GeneratorGroup(interps) ==
  [items |-> { <<Word(i.homonym), Word(i.prefix), <<i.cut>>, Word(i.suffix)>> \o Meta(i) : i \in interps }]

(* An entry's payload: a group for each segment type.                      *)
Payload(interps, target) ==
  [type \in { i.type : i \in interps } |->
     LET group == { i \in interps : i.type = type }
     IN  IF target = "analyzer" THEN AnalyzerGroup(group) ELSE GeneratorGroup(group)]

(* Its bytes: two for its size; a group's type, its size, an analyzer's    *)
(* first byte; the fields.  The list of patterns that an analyzer's group  *)
(* may start with, which its readers skip, is left out.                    *)
GroupSize(group) ==
  3 + (IF "orth" \in DOMAIN group THEN 1 ELSE 0)
    + MapThenSumSet(LAMBDA item : FoldLeft(LAMBDA n, field : n + Len(field), 0, item), group.items)

PayloadSize(payload) == 2 + MapThenSumSet(LAMBDA type : GroupSize(payload[type]), DOMAIN payload)

-----------------------------------------------------------------------------
(* Unpacking: what the analyzer and the generator read                     *)

ReadCasePattern(field) ==
  CASE field[1] = 0 -> {}
    [] field[1] = 1 -> 0 .. field[2] - 1
    [] field[1] = 2 -> ToSet(From(field, 2))

CaseRead(mode, item, place) ==
  CASE mode = Lower -> {} [] mode = Title -> {0} [] OTHER -> ReadCasePattern(item[place])

(* decode_binary_analyzer_interpretations: which fields there are depends  *)
(* on the group's first byte.                                              *)
ReadAnalyzerItem(group, item) ==
  LET prefix == 1 + IF group.orth = InEach THEN 1 ELSE 0
      cut    == prefix + IF group.prefix = PrefixInEach THEN 1 ELSE 0
      tag    == cut + 2 + IF group.lemma = InEach THEN 1 ELSE 0
  IN  [orths   |-> CaseRead(group.orth, item, 1),
       prefix  |-> IF group.prefix = PrefixInEach THEN item[prefix][1] ELSE group.prefix,
       cut     |-> item[cut][1],
       suffix  |-> Front(item[cut + 1]),
       pattern |-> CaseRead(group.lemma, item, cut + 2),
       tag     |-> 256 * item[tag][1] + item[tag][2],
       name    |-> item[tag + 1][1],
       labels  |-> 256 * item[tag + 2][1] + item[tag + 2][2]]

ReadGeneratorItem(item) ==
  [homonym |-> Front(item[1]), prefix |-> Front(item[2]), cut |-> item[3][1], suffix |-> Front(item[4]),
   tag |-> 256 * item[5][1] + item[5][2], name |-> item[6][1],
   labels |-> 256 * item[7][1] + item[7][2]]

(* matches_orth: upper case where the pattern has it.                      *)
MatchesOrth(orth, pattern) ==
  \A i \in pattern : i < Len(orth) /\ TableLower[orth[i + 1]] # orth[i + 1]

(* decode_analyzer_lemma_range: the positions of the pattern are counted   *)
(* from the start of the form.                                             *)
DecodeLemma(orth, form) ==
  LET Letter(i) == IF i - 1 \in form.pattern THEN UnicodeUpper[TableLower[orth[i]]]
                   ELSE <<TableLower[orth[i]]>>
      kept == Len(orth) - form.cut - form.prefix
  IN  IF kept < 0 THEN {}
      ELSE { FlattenSeq([k \in 1 .. kept |-> Letter(form.prefix + k)]) \o form.suffix }

(* Letters of which the two lower cases are the same, and their upper case *)
(* leads back.                                                             *)
Plain(w) ==
  \A i \in DOMAIN w : /\ UnicodeLower[w[i]] = <<TableLower[w[i]]>>
                      /\ w[i] = TableLower[w[i]] \/ UnicodeUpper[TableLower[w[i]]] = <<w[i]>>

(* to_morph_interpretation of a generator, behind what shifted segments    *)
(* have put before it.                                                     *)
Synthesised(before, lemma, i) ==
  [orth   |-> before \o i.prefix \o First(lemma, Len(lemma) - i.cut) \o i.suffix,
   lemma  |-> before \o lemma \o IF i.homonym = <<>> THEN <<>> ELSE <<Colon>> \o i.homonym,
   tag    |-> i.tag, name |-> i.name, labels |-> i.labels]

(* split_generator_lemma *)
LookedUp(query)         == IF HasColon(query) THEN Base(query) ELSE query
HomonymMatches(query, i) == HasColon(query) => i.homonym = Homonym(query)

(* A path's chunks [lemma, shift, interps] to interpretations: a run of    *)
(* shifted ones goes with the chunk behind it.                             *)
RunEnds(chunks) == { j \in DOMAIN chunks : ~chunks[j].shift \/ j = Len(chunks) }

Runs(chunks, query) ==
  UNION { LET last   == Max({0} \cup { i \in RunEnds(chunks) : i < j })
              before == FlattenSeq([k \in 1 .. j - 1 - last |-> chunks[last + k].lemma])
          IN  { Synthesised(before, chunks[j].lemma, i) : i \in { i \in chunks[j].interps : HomonymMatches(query, i) } } :
          j \in RunEnds(chunks) }
=============================================================================
