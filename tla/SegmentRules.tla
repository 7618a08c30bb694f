---------------------------- MODULE SegmentRules ----------------------------
(* The builder's compiler of segmentation rules, from the rules as they    *)
(* are written to the automata that the analyzer reads: quantities and ">" *)
(* are expanded, rules checked, rewritten for a generator, segment types   *)
(* renumbered, and every combination of options gets a deterministic       *)
(* automaton, laid out from offset 0 on.                                   *)
(*                                                                         *)
(* Rules are trees.  What a writer may put down is                         *)
(*   tag         a segment type, with ">" (shift) or without               *)
(*   concat, or  two children or more                                      *)
(*   star, optional, plus, range ({from,to}), open ({from,}), shifted      *)
(*               one child; shifted is "( ... )>"                          *)
(* and what the parser makes of it has tag, concat, or, star, optional.    *)
(* Text and macros (#define) are left out.                                 *)
(***************************************************************************)
EXTENDS Integers, Sequences, FiniteSets, FiniteSetsExt, SequencesExt

CONSTANTS
  SegmentTypes,   (* how many are declared: numbered from 0                *)
  RulesLimit,     (* MAX_SEGMENT_RULES_FSA_SIZE: 65535                     *)
  WordBound       (* the rows of segments that are compared: their length  *)

ASSUME SegmentRulesAssumption ==
  SegmentTypes \in Nat /\ RulesLimit \in Nat /\ WordBound \in Nat \ {0}

Tag(type, shift) == [op |-> "tag", type |-> type, shift |-> shift]
Concat(rules)    == [op |-> "concat", children |-> rules]
Or(rules)        == [op |-> "or", children |-> rules]
Star(rule)       == [op |-> "star", children |-> <<rule>>]
Optional(rule)   == [op |-> "optional", children |-> <<rule>>]
Sink             == [op |-> "sink", children |-> <<>>]

(* The rule with f's value for each child.                                 *)
WithChildren(r, children) == [r EXCEPT !.children = children]

-----------------------------------------------------------------------------
(* Parsing                                                                 *)

RECURSIVE MadeShift(_)
MadeShift(r) ==
  IF r.op = "tag" THEN [r EXCEPT !.shift = TRUE]
  ELSE WithChildren(r, [i \in DOMAIN r.children |-> MadeShift(r.children[i])])

Times(rule, n) == Concat([i \in 1 .. n |-> rule])

Range0(rule, from, to) ==
  Or(IF from = 0
     THEN <<Optional(rule)>> \o [i \in 1 .. to - 1 |-> Times(rule, i + 1)]
     ELSE [i \in 1 .. to - from + 1 |-> Times(rule, from + i - 1)])

RECURSIVE Parsed(_)
Parsed(r) ==
  IF r.op = "tag" THEN r
  ELSE LET children == [i \in DOMAIN r.children |-> Parsed(r.children[i])]
           child    == children[1]
       IN  CASE r.op = "plus"    -> Concat(<<child, Star(child)>>)
             [] r.op = "times"   -> Times(child, r.from)
             [] r.op = "range"   -> Range0(child, r.from, r.to)
             [] r.op = "open"    -> Concat(<<Times(child, r.from), Star(child)>>)
             [] r.op = "shifted" -> MadeShift(child)
             [] OTHER            -> WithChildren(r, children)

(* Quantities that the parser refuses.                                     *)
RECURSIVE QuantitiesValid(_)
QuantitiesValid(r) ==
  r.op # "tag" =>
    /\ r.op \in {"times", "open"} => r.from > 0
    /\ r.op = "range" => r.from <= r.to /\ r.to > 0
    /\ \A i \in DOMAIN r.children : QuantitiesValid(r.children[i])

-----------------------------------------------------------------------------
(* What is asked of a rule                                                 *)

RECURSIVE AllowsEmpty(_)
AllowsEmpty(r) ==
  CASE r.op = "concat" -> \A i \in DOMAIN r.children : AllowsEmpty(r.children[i])
    [] r.op = "or"     -> \E i \in DOMAIN r.children : AllowsEmpty(r.children[i])
    [] OTHER           -> r.op \in {"star", "optional"}

RECURSIVE IsShift(_)
IsShift(r) ==
  IF r.op = "tag" THEN r.shift
  ELSE r.op # "sink" /\ \A i \in DOMAIN r.children : IsShift(r.children[i])

RECURSIVE ShiftsValid(_)
ShiftsValid(r) ==
  r.op # "tag" =>
    /\ \A i \in DOMAIN r.children : ShiftsValid(r.children[i])
    /\ r.op = "concat" /\ IsShift(Last(r.children)) => IsShift(r)
    /\ r.op = "or" /\ (\E i \in DOMAIN r.children : IsShift(r.children[i])) => IsShift(r)

RECURSIVE Atoms(_)
Atoms(r) ==
  IF r.op = "tag" THEN {r} ELSE UNION { Atoms(r.children[i]) : i \in DOMAIN r.children }

-----------------------------------------------------------------------------
(* A generator's rules: only shifted segments before the last one          *)

Kept(children) == SelectSeq(children, LAMBDA c : ~AllowsEmpty(c) \/ IsShift(c))

RECURSIVE GeneratorVersion(_)
GeneratorVersion(r) ==
  LET new == LET kept == Kept(r.children) IN [i \in DOMAIN kept |-> GeneratorVersion(kept[i])]
  IN  CASE r.op = "tag"      -> r
        [] r.op = "star"     -> IF IsShift(r) THEN r ELSE Sink
        [] r.op = "optional" -> IF IsShift(r) THEN r ELSE GeneratorVersion(r.children[1])
        [] r.op = "or"       -> LET rest == SelectSeq(new, LAMBDA c : c # Sink)
                                IN  IF rest = <<>> THEN Sink ELSE Or(rest)
        [] r.op = "concat"   -> IF \/ new = <<>>
                                   \/ \E i \in DOMAIN new : new[i] = Sink
                                   \/ \E i \in 1 .. Len(new) - 1 : ~IsShift(new[i])
                                THEN Sink ELSE Concat(new)
        [] OTHER             -> Sink

(* additional_atomic_rules_for_generator: each segment that is not shifted *)
(* gets a rule of its own, behind the shifted ones that stand before it.   *)
ShiftsBefore(children, i) ==
  LET from == Max({0} \cup { k \in 1 .. i - 1 : ~IsShift(children[k]) })
  IN  SubSeq(children, from + 1, i - 1)

Behind(shifts, rule) ==
  IF shifts = <<>> THEN rule
  ELSE Concat(<<FoldLeft(LAMBDA r, s : Concat(<<r, s>>), Head(shifts), Tail(shifts)), rule>>)

RECURSIVE Additional(_)
Additional(r) ==
  CASE r.op = "tag"    -> {r}
    [] r.op = "concat" ->
         UNION { { Behind(ShiftsBefore(r.children, i), a) : a \in Additional(r.children[i]) } :
                 i \in { i \in DOMAIN r.children : ~IsShift(r.children[i]) } }
    [] OTHER           -> UNION { Additional(r.children[i]) : i \in DOMAIN r.children }

-----------------------------------------------------------------------------
(* The rules of one combination of options                                 *)

(* options: a sequence of [key, values]; a combination takes a value of    *)
(* each.  ifdefs: the values that a line is under, each with whether it    *)
(* stands before the #else.                                                *)
Combinations(options) ==
  { c \in [DOMAIN options -> UNION { ToSet(options[k].values) : k \in DOMAIN options }] :
      \A k \in DOMAIN options : c[k] \in ToSet(options[k].values) }

(* A value that two options share belongs to the later one.                *)
KeyOfValue(options, value) ==
  options[Max({ k \in DOMAIN options : value \in ToSet(options[k].values) })].key

OptionsMap(options, c) ==
  [key \in { KeyOfValue(options, c[k]) : k \in DOMAIN c } |->
     c[Max({ k \in DOMAIN c : KeyOfValue(options, c[k]) = key })]]

Active(line, c) ==
  \A i \in DOMAIN line.ifdefs : (line.ifdefs[i].value \in ToSet(c)) <=> line.ifdefs[i].before

RuleValid(rule) == QuantitiesValid(rule) /\ ~AllowsEmpty(Parsed(rule)) /\ ShiftsValid(Parsed(rule))

(* A rule of an automaton, with the line it comes from.                    *)
Entry(rule, line, n, auto) == [rule |-> rule, weak |-> line.weak, line |-> n, auto |-> auto]

Compiled(target, line, n) ==
  LET rule == Parsed(line.rule)
      main == IF target = "generator" THEN GeneratorVersion(rule) ELSE rule
  IN  { Entry(r, line, n, TRUE) : r \in IF target = "generator" THEN Additional(rule) ELSE {} }
        \cup { Entry(r, line, n, FALSE) : r \in {main} \ {Sink} }

RulesOf(target, lines, c) ==
  UNION { Compiled(target, lines[n], n) : n \in { n \in DOMAIN lines : Active(lines[n], c) } }

-----------------------------------------------------------------------------
(* apply_shift_orth_magic: a type that occurs with and without ">" gets    *)
(* another number for the former; of one that only occurs with ">" the     *)
(* lemma is the form itself.                                               *)

AtomsOf(rules)          == UNION { Atoms(e.rule) : e \in rules }
TypesWith(rules, shift) == { a.type : a \in { a \in AtomsOf(rules) : a.shift = shift } }

ReplacedTypes(rules) == TypesWith(rules, TRUE) \ TypesWith(rules, FALSE)

(* Mutant: only types that are always shifted are looked at.               *)
NoExtraTypes(rules) == <<>>

ExtraTypes(rules) ==
  LET both == TypesWith(rules, TRUE) \cap TypesWith(rules, FALSE)
  IN  [t \in both |-> SegmentTypes + Cardinality({ s \in both : s < t })]

RECURSIVE Renumbered(_, _)
Renumbered(r, extra) ==
  IF r.op = "tag"
  THEN IF r.shift /\ r.type \in DOMAIN extra THEN [r EXCEPT !.type = extra[r.type]] ELSE r
  ELSE WithChildren(r, [i \in DOMAIN r.children |-> Renumbered(r.children[i], extra)])

-----------------------------------------------------------------------------
(* From rules to an automaton that may choose.  Its states are named by    *)
(* sequences: <<>> is the initial one, <<k>> the final one of rule k, and  *)
(* a rule's own states extend its path.                                    *)

NoLabel == <<>>
Before(path, i) == path \o <<i, 0>>
After(path, i)  == path \o <<i, 1>>
Move(from, label, to) == [from |-> from, label |-> label, to |-> to]

RECURSIVE Between(_, _, _, _)
Between(r, path, start, end) ==
  LET n == Len(r.children)
      Child(i) == Between(r.children[i], Append(path, i), Before(path, i), After(path, i))
      Around   == { Move(start, NoLabel, Before(path, i)) : i \in 1 .. n }
                    \cup { Move(After(path, i), NoLabel, end) : i \in 1 .. n }
                    \cup UNION { Child(i) : i \in 1 .. n }
  IN  CASE r.op = "tag"    -> { Move(start, <<r.type, r.shift>>, end) }
        [] r.op = "concat" ->
             UNION { Between(r.children[i], Append(path, i),
                             IF i = 1 THEN start ELSE Before(path, i),
                             IF i = n THEN end ELSE After(path, i)) : i \in 1 .. n }
               \cup { Move(After(path, i), NoLabel, Before(path, i + 1)) : i \in 1 .. n - 1 }
        [] r.op = "or"       -> Around
        [] r.op = "optional" -> Around \cup { Move(start, NoLabel, end) }
        [] r.op = "star"     -> Around \cup { Move(start, NoLabel, end),
                                              Move(After(path, 1), NoLabel, Before(path, 1)) }

RECURSIVE Closure(_, _)
Closure(moves, subset) ==
  LET next == subset \cup { m.to : m \in { m \in moves : m.from \in subset /\ m.label = NoLabel } }
  IN  IF next = subset THEN subset ELSE Closure(moves, next)

(* The moves and the final states of an automaton's rules, numbered.       *)
MovesOf(rules) == UNION { Between(rules[k].rule, <<k>>, <<>>, <<k>>) : k \in DOMAIN rules }
FinalOf(rules, subset) == { rules[k] : k \in { k \in DOMAIN rules : <<k>> \in subset } }

-----------------------------------------------------------------------------
(* The deterministic automaton: its states are sets of those.              *)

Start(moves) == Closure(moves, {<<>>})

(* Labels in the order of the bytes: type, then shift.                     *)
LabelsFrom(moves, subset) ==
  SetToSortSeq({ m.label : m \in { m \in moves : m.from \in subset } } \ {NoLabel},
    LAMBDA k, l : k[1] < l[1] \/ (k[1] = l[1] /\ ~k[2] /\ l[2]))

Target(moves, subset, label) ==
  Closure(moves, { m.to : m \in { m \in moves : m.from \in subset /\ m.label = label } })

(* segment_rules_fsa_dfs_visit, in the order of the labels (the builder    *)
(* takes them by line first).                                              *)
RECURSIVE VisitRules(_, _, _)
VisitRules(moves, acc, subset) ==
  IF subset \in acc.seen THEN acc
  ELSE LET behind == FoldLeft(LAMBDA a, label : VisitRules(moves, a, Target(moves, subset, label)),
                              [acc EXCEPT !.seen = @ \cup {subset}], LabelsFrom(moves, subset))
       IN  [behind EXCEPT !.order = Append(@, subset)]

DfsOrder(moves) == VisitRules(moves, [seen |-> {}, order |-> <<>>], Start(moves)).order

(* dfa_state_acceptance: a generator's own rules make no state weak.       *)
Written(finals)  == { e \in finals : ~e.auto }
IsWeak(finals)   == \E e \in Written(finals) : e.weak
Conflict(finals) == IsWeak(finals) /\ \E e \in Written(finals) : ~e.weak

StateSize(moves, subset) == 2 + 4 * Len(LabelsFrom(moves, subset))

TotalSize(moves) ==
  FoldLeft(LAMBDA n, subset : n + StateSize(moves, subset), 0, DfsOrder(moves))

(* What is written: at the offset of each state, its flags and transitions.*)
RulesImage(rules) ==
  LET moves == MovesOf(rules)
      order == DfsOrder(moves)
      OffsetOf(subset) ==
        LET place == CHOOSE i \in DOMAIN order : order[i] = subset
        IN  FoldLeft(LAMBDA n, q : n + StateSize(moves, q), 0, SubSeq(order, place + 1, Len(order)))
      Record(subset) ==
        LET labels == LabelsFrom(moves, subset) IN
        [accepting |-> FinalOf(rules, subset) # {},
         weak |-> IsWeak(FinalOf(rules, subset)),
         transitions |-> [i \in DOMAIN labels |->
           [segnum |-> labels[i][1], shift |-> labels[i][2],
            target |-> OffsetOf(Target(moves, subset, labels[i]))]]]
  IN  [o \in { OffsetOf(q) : q \in ToSet(order) } |->
         Record(CHOOSE q \in ToSet(order) : OffsetOf(q) = o)]

RulesFit(rules) ==
  LET moves == MovesOf(rules) IN
  /\ FinalOf(rules, Start(moves)) = {}
  /\ \A q \in ToSet(DfsOrder(moves)) : ~Conflict(FinalOf(rules, q))
  /\ TotalSize(moves) <= RulesLimit

-----------------------------------------------------------------------------
(* parse_segmentation_rules_config: what a source's rules come to.         *)

RulesUnder(source, c) == RulesOf(source.target, source.rules, c)
AllRules(source) == UNION { RulesUnder(source, c) : c \in Combinations(source.options) }

(* The rules of an automaton, renumbered and in a row.                     *)
Numbered(source, c) ==
  LET extra == ExtraTypes(AllRules(source))
  IN  FoldSet(LAMBDA e, row : Append(row, [e EXCEPT !.rule = Renumbered(@, extra)]), <<>>,
              RulesUnder(source, c))

ActiveLines(source, c) == { n \in DOMAIN source.rules : Active(source.rules[n], c) }

RulesCompile(source) ==
  \A c \in Combinations(source.options) :
    /\ {"aggl", "praet"} \subseteq DOMAIN OptionsMap(source.options, c)
    /\ \A n \in ActiveLines(source, c) : RuleValid(source.rules[n].rule)
    /\ RulesFit(Numbered(source, c))

CompiledRules(source) ==
  [fsa      |-> [c \in Combinations(source.options) |-> RulesImage(Numbered(source, c))],
   replaced |-> ReplacedTypes(AllRules(source)),
   extra    |-> ExtraTypes(AllRules(source))]

-----------------------------------------------------------------------------
(* The reader: SegmentationRulesFsa of the analyzer                        *)

(* find_transition, from the last one backwards.                           *)
Found(fsa, offset, segnum) ==
  LET all  == fsa[offset].transitions
      hits == { i \in DOMAIN all : all[i].segnum = segnum }
  IN  IF hits = {} THEN {} ELSE {all[Max(hits)]}

Allowed(fsa, t, at_end) ==
  IF at_end THEN fsa[t.target].accepting ELSE fsa[t.target].transitions # <<>>

ProceedToNext(fsa, offset, segnum, at_end) ==
  { t \in Found(fsa, offset, segnum) : Allowed(fsa, t, at_end) }

(* What becomes of a row of segment types: at most one reading.            *)
RulesReading(fsa, nums) ==
  LET reach[k \in 0 .. Len(nums)] ==
        IF k = 0 THEN {[offset |-> 0, shifts |-> <<>>]}
        ELSE UNION { { [offset |-> t.target, shifts |-> Append(s.shifts, t.shift)] :
                         t \in ProceedToNext(fsa, s.offset, nums[k], k = Len(nums)) } :
                       s \in reach[k - 1] }
  IN  { [shifts |-> s.shifts, weak |-> fsa[s.offset].weak] : s \in reach[Len(nums)] }

-----------------------------------------------------------------------------
(* What rules mean: the rows of segments they allow, as they are written   *)

Joined(U, V) == { w \in { u \o v : u \in U, v \in V } : Len(w) <= WordBound }

Power(U, k) == FoldLeft(LAMBDA V, i : Joined(V, U), {<<>>}, [i \in 1 .. k |-> i])

RECURSIVE Language(_)
Language(r) ==
  IF r.op = "tag" THEN {<<<<r.type, r.shift>>>>}
  ELSE LET of  == [i \in DOMAIN r.children |-> Language(r.children[i])]
           Powers(ks) == UNION { Power(of[1], k) : k \in ks }
       IN  CASE r.op = "concat"   -> FoldLeft(Joined, {<<>>}, of)
             [] r.op = "or"       -> UNION ToSet(of)
             [] r.op = "optional" -> {<<>>} \cup of[1]
             [] r.op = "star"     -> Powers(0 .. WordBound)
             [] r.op = "plus"     -> Powers(1 .. WordBound)
             [] r.op = "times"    -> Powers({r.from})
             [] r.op = "range"    -> Powers(r.from .. r.to)
             [] r.op = "open"     -> Powers(r.from .. Max({r.from, WordBound}))
             [] r.op = "shifted"  -> { [i \in DOMAIN w |-> <<w[i][1], TRUE>>] : w \in of[1] }

Meaning(source, c) ==
  UNION { { [word |-> w, weak |-> source.rules[n].weak] : w \in Language(source.rules[n].rule) } :
          n \in ActiveLines(source, c) }

(* The types by which a dictionary knows the segments of a word.           *)
RowOf(compiled, w) ==
  [i \in DOMAIN w |-> IF w[i][2] /\ w[i][1] \in DOMAIN compiled.extra
                      THEN compiled.extra[w[i][1]] ELSE w[i][1]]

Rows(compiled) ==
  UNION { [1 .. n -> 0 .. SegmentTypes + Cardinality(DOMAIN compiled.extra) - 1] : n \in 1 .. WordBound }

(* An analyzer's automata read each row as the rules mean it, and no other.*)
ReadsWhatIsMeant(source, compiled) ==
  \A c \in DOMAIN compiled.fsa :
    LET meaning == { [row |-> RowOf(compiled, m.word), weak |-> m.weak,
                      shifts |-> [i \in DOMAIN m.word |-> m.word[i][2]]] : m \in Meaning(source, c) }
    IN  /\ \A m \in meaning : m.row # <<>>
        /\ \A row \in Rows(compiled) :
              RulesReading(compiled.fsa[c], row) =
                { [shifts |-> m.shifts, weak |-> m.weak] : m \in { m \in meaning : m.row = row } }

(* A generator's automata have shifted segments before the last one only,  *)
(* in a row that some word allowed has before that one; and every segment  *)
(* that is not shifted in some word allowed can be the last.               *)
ReadsWhatCanBeMade(source, compiled) ==
  \A c \in DOMAIN compiled.fsa :
    LET words == { m.word : m \in Meaning(source, c) }
        read  == { row \in Rows(compiled) : RulesReading(compiled.fsa[c], row) # {} }
    IN  /\ \A row \in read : \A s \in RulesReading(compiled.fsa[c], row) :
              /\ \A i \in 1 .. Len(row) - 1 : s.shifts[i]
              /\ Len(row) < WordBound =>
                   \E w \in words : \E k \in DOMAIN w :
                     /\ RowOf(compiled, w)[k] = Last(row) /\ w[k][2] = Last(s.shifts)
                     /\ \E j \in 0 .. k - Len(row) :
                          \A i \in 1 .. Len(row) - 1 :
                            RowOf(compiled, w)[j + i] = row[i] /\ w[j + i][2]
        /\ \A w \in words : \A k \in DOMAIN w :
              w[k][2] \/ \E row \in read : Last(row) = w[k][1]

(* Rules are refused for a reason: a row allowed is empty, or both weak    *)
(* and not; a quantity or a ">" is misplaced; an option is missing, or its *)
(* value is another's too; the automaton is too large.                     *)
RefusedForReason(source) ==
  \E c \in Combinations(source.options) :
    \/ \E m \in Meaning(source, c) :
         m.word = <<>> \/ [m EXCEPT !.weak = ~@] \in Meaning(source, c)
    \/ \E n \in ActiveLines(source, c) : LET rule == source.rules[n].rule IN
         ~QuantitiesValid(rule) \/ ~ShiftsValid(Parsed(rule))
    \/ \E key \in {"aggl", "praet"} : \A k \in DOMAIN c :
         source.options[k].key = key => \E j \in DOMAIN c \ {k} : c[k] \in ToSet(source.options[j].values)
    \/ TotalSize(MovesOf(Numbered(source, c))) > RulesLimit
=============================================================================
