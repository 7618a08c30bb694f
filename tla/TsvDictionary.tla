--------------------------- MODULE TsvDictionary ---------------------------
(***************************************************************************)
(* A dictionary in memory, loaded from text files: an optional tagset,     *)
(* which gives tags their identifiers, the lines of the dictionary, and    *)
(* optional segmentation rules, from which only hints are taken: entries   *)
(* are dropped, relabelled, combined with one another and made known under *)
(* another case.                                                           *)
(*                                                                         *)
(* A text is a sequence of characters.  Lines are records of their fields; *)
(* fields that a line lacks are Blank.                                     *)
(***************************************************************************)
EXTENDS IdResolver, FiniteSets

CONSTANTS
  Sources,            (* the files: [tagset, dictionary, rules], each a    *)
                      (* sequence of lines or NoFile                       *)
  Lower, Upper,       (* the case of characters                            *)
  AdjTags, SubstTags, (* the tags that begin with "adj:" and "subst:"      *)
  Euro,               (* the label "euro"                                  *)
  Digits,
  NoFile

(* The lines of a tagset are cut at spaces, so that none of its tags is     *)
(* blank, and its identifiers are counted from 0; the texts of entries are *)
(* made of characters.                                                     *)
ASSUME SourcesAssumption ==
  /\ Blank \notin {"ign", "sp"}
  /\ \A s \in Sources :
       /\ s.tagset # NoFile =>
            /\ s.tagset \in Seq(ToSet(s.tagset))
            /\ \A i \in DOMAIN s.tagset :
                 s.tagset[i].kind = "tag" => s.tagset[i].id \in Nat /\ s.tagset[i].text # Blank
       /\ s.dictionary \in Seq(ToSet(s.dictionary))
       /\ \A i \in DOMAIN s.dictionary :
            s.dictionary[i].kind = "entry" =>
              s.dictionary[i].orth \in Seq(DOMAIN Lower) /\ s.dictionary[i].lemma \in Seq(DOMAIN Lower)

(* A text in lower case stays as it is when it is lowered.                 *)
ASSUME CaseAssumption ==
  /\ Lower \in [DOMAIN Lower -> DOMAIN Lower] /\ Upper \in [DOMAIN Lower -> DOMAIN Lower]
  /\ \A c \in DOMAIN Lower : Lower[Lower[c]] = Lower[c]
  /\ "-" \in DOMAIN Lower

VARIABLES
  source,    (* the files that are loaded                                  *)
  phase,     (* what the loader reads, or "ready", or "failed"             *)
  line,      (* the line it is at                                          *)
  inSection, (* within [TAGS] of a tagset, the copyright of a dictionary   *)
  resolver, about,
  entries, byOrth, byKey,
  derived    (* the entries that the hints ask for and are not yet there   *)

loading == <<source, phase, line, inSection, derived>>
dictionary == <<resolver, about, entries, byOrth, byKey>>
dictVars == <<loading, dictionary>>

NoEntries == [o \in {} |-> <<>>]
NoMetadata == [tagset |-> Blank, id |-> Blank, copyright |-> <<>>]
FirstFile(s) == IF s.tagset # NoFile THEN "tagset" ELSE "dictionary"

DictInit ==
  /\ source \in Sources
  /\ phase = FirstFile(source)
  /\ line = 1
  /\ inSection = FALSE
  /\ resolver = Default("ign", "sp")
  /\ about = NoMetadata
  /\ entries = <<>> /\ byOrth = NoEntries /\ byKey = NoEntries
  /\ derived = <<>>
-----------------------------------------------------------------------------
(* Lookup tables. *)

Found(table, key) == IF key \in DOMAIN table THEN table[key] ELSE <<>>
With(table, key, list) == [k \in DOMAIN table \cup {key} |-> IF k = key THEN list ELSE table[k]]
Pushed(table, key, e) == With(table, key, Append(Found(table, key), e))
Fronted(table, key, e) == With(table, key, <<e>> \o Found(table, key))

(* The part of a lemma before its colon. *)
LemmaBase(lemma) ==
  LET colon == SelectInSeq(lemma, LAMBDA c : c = ":")
  IN IF colon = 0 THEN lemma ELSE SubSeq(lemma, 1, colon - 1)

KeyPushed(table, e) ==
  LET base == Pushed(table, LemmaBase(e.lemma), e)
  IN IF e.lemma = LemmaBase(e.lemma) THEN base ELSE Pushed(base, e.lemma, e)

Insert(e) ==
  /\ byKey' = KeyPushed(byKey, e)
  /\ byOrth' = Pushed(byOrth, e.orth, e)
  /\ entries' = Append(entries, e)

Lookup(orth) == Found(byOrth, orth)
Tag(e) == Text(resolver.tags, e.tagId)

(* Interpretations. *)
Edge(from, to, orth, lemma, tagId) ==
  [start |-> from, end |-> to, orth |-> orth, lemma |-> lemma, tagId |-> tagId]
EntryEdge(e, from, to, orth) == Edge(from, to, orth, e.lemma, e.tagId)

IsDigits(t) ==
  HasId(resolver.tags, "dig") /\ t # <<>> /\ \A i \in DOMAIN t : t[i] \in Digits
Number(t, from, to, orth) == Edge(from, to, orth, t, Id(resolver.tags, "dig"))

(* The forms of a lemma. *)
Synthesized(lemma) ==
  IF lemma \in DOMAIN byKey
  THEN {EntryEdge(e, 0, 0, e.orth) : e \in ToSet(byKey[lemma])}
  ELSE IF IsDigits(lemma) THEN {Number(lemma, 0, 0, lemma)} ELSE {}
-----------------------------------------------------------------------------
(* The tagset. *)

TagsetLine ==
  /\ phase = "tagset" /\ line <= Len(source.tagset)
  /\ LET l == source.tagset[line]
     IN /\ inSection' = IF l.kind = "section" THEN l.text = "TAGS" ELSE inSection
        /\ about' = IF l.kind = "id" THEN [about EXCEPT !.tagset = l.text] ELSE about
        /\ resolver' = IF l.kind = "tag" /\ inSection
                       THEN [resolver EXCEPT !.tags = SetText(@, l.id, l.text)] ELSE resolver
        /\ phase' = IF l.kind = "short" /\ inSection THEN "failed" ELSE phase
  /\ line' = line + 1
  /\ UNCHANGED <<source, entries, byOrth, byKey, derived>>

TagsetEnd ==
  /\ phase = "tagset" /\ line > Len(source.tagset)
  /\ phase' = "dictionary" /\ line' = 1 /\ inSection' = FALSE
  /\ UNCHANGED <<source, derived, dictionary>>
-----------------------------------------------------------------------------
(* The lines of the dictionary. *)

AtLine(kinds) ==
  phase = "dictionary" /\ line <= Len(source.dictionary) /\ source.dictionary[line].kind \in kinds

(* Mutant: a block that is not told from a comment at its end. *)
NeverCloses(l) == FALSE

Closes(l) == l.kind = "close"

CopyrightLine ==
  /\ AtLine({"id", "open", "close", "comment", "entry", "short"}) /\ inSection
  /\ LET l == source.dictionary[line]
     IN /\ inSection' = ~Closes(l)
        /\ about' = IF Closes(l) THEN about ELSE [about EXCEPT !.copyright = Append(@, l)]
  /\ line' = line + 1
  /\ UNCHANGED <<source, phase, derived, resolver, entries, byOrth, byKey>>

(* A comment, the copyright's end among them, goes unnoticed. *)
MetadataLine ==
  /\ AtLine({"id", "open", "close", "comment"}) /\ ~inSection
  /\ LET l == source.dictionary[line]
     IN /\ inSection' = (l.kind = "open")
        /\ about' = IF l.kind = "id" THEN [about EXCEPT !.id = l.text] ELSE about
  /\ line' = line + 1
  /\ UNCHANGED <<source, phase, derived, resolver, entries, byOrth, byKey>>

ShortLine ==
  /\ AtLine({"short"}) /\ ~inSection
  /\ phase' = "failed"
  /\ UNCHANGED <<source, line, inSection, derived, dictionary>>

EntryOf(r, l) ==
  [orth |-> l.orth, lemma |-> l.lemma, tagId |-> Id(r.tags, l.tag),
   nameId |-> Id(r.names, Normalized(l.name)), labelsId |-> Id(r.labels, Canonical(l.labels))]

Resolving(r, l) ==
  [tags |-> GetOrInsert(r.tags, l.tag),
   names |-> GetOrInsert(r.names, Normalized(l.name)),
   labels |-> GetOrInsert(r.labels, Canonical(l.labels))]

EntryLine ==
  /\ AtLine({"entry"}) /\ ~inSection
  /\ resolver' = Resolving(resolver, source.dictionary[line])
  /\ Insert(EntryOf(resolver', source.dictionary[line]))
  /\ line' = line + 1
  /\ UNCHANGED <<source, phase, inSection, derived, about>>
-----------------------------------------------------------------------------
(* The hints that the rules of segmentation give. *)

Atomic == {"prefs", "nie", "dywiz", "subst"}

(* A rule is [section, parts, shifts]: the parts that ">" separates, none  *)
(* when it has parentheses, and whether it contains "adja>".  A part has a *)
(* kind of segment and a text, which may be the text of a label.           *)
HintsOf(rules) ==
  LET combinations == {r.parts : r \in {x \in ToSet(rules) : x.section = "combinations"}}
      labelled == {p \in combinations : Len(p) > 0 /\ p[1].segment \notin Atomic}
      Says(segments) == \E p \in combinations : [i \in DOMAIN p |-> p[i].segment] = segments
  IN [standalone |-> {p[1].text : p \in {p \in labelled : Len(p) = 1}},
      prefixes |-> {p[1].text : p \in {p \in labelled : Len(p) > 1}},
      shift |-> \E r \in ToSet(rules) : r.shifts,
      prefsSubst |-> Says(<<"prefs", "subst">>),
      prefsDywizSubst |-> Says(<<"prefs", "dywiz", "subst">>),
      nieDywizSubst |-> Says(<<"nie", "dywiz", "subst">>),
      substDywizSubst |-> Says(<<"subst", "dywiz", "subst">>)]

(* Hints that change the dictionary. *)
HasRules(h) ==
  \/ h.prefixes # {}
  \/ h.shift \/ h.prefsSubst \/ h.prefsDywizSubst \/ h.nieDywizSubst \/ h.substDywizSubst

Hinted == IF source.rules = NoFile THEN FALSE ELSE HasRules(HintsOf(source.rules))

LabelsOf(e) == LabelSet(Text(resolver.labels, e.labelsId))
OrNone(labels) == IF labels = <<>> THEN <<Underscore>> ELSE labels

(* Which entries stay as they are, and which follow a prefix. *)
KeptAlone(e, h) ==
  /\ Tag(e) # "prefs"
  /\ \/ h.prefixes = {} \/ h.standalone = {}
     \/ LabelsOf(e) \cap h.standalone # {} /\ LabelsOf(e) \cap h.prefixes = {}
FollowsPrefix(e, p) == Tag(e) # "prefs" /\ p.orth \in LabelsOf(e)

(* Mutant: labels that no rule names are lost. *)
OnlyNamedLabels(e, h) == OrNone(InOrder(LabelsOf(e) \cap h.standalone))

StandaloneLabels(e, h) ==
  OrNone(InOrder(LabelsOf(e) \cap h.standalone) \o InOrder(LabelsOf(e) \ h.standalone))
PrefixedLabels(e, p, h) ==
  IF p.orth = Euro /\ Cardinality(LabelsOf(e)) > 1
  THEN InOrder(LabelsOf(e) \cap h.standalone)
         \o InOrder(LabelsOf(e) \ (h.standalone \cup {Euro})) \o <<Euro>>
  ELSE <<p.orth>> \o InOrder(LabelsOf(e) \ {p.orth})
-----------------------------------------------------------------------------
(* The entries that the hints ask for, in the order they are inserted. *)

Distinct(s) == Each([i \in DOMAIN s |-> i], LAMBDA i : If(\A j \in 1 .. i - 1 : s[j] # s[i], <<s[i]>>))

Lowercase(text) == [i \in DOMAIN text |-> Lower[text[i]]]
Titlecase(text) == [i \in DOMAIN text |-> IF i = 1 THEN Upper[text[i]] ELSE text[i]]
IsLower(text) == Lowercase(text) = text

(* An entry that is to be inserted, with the labels it is to have, and one *)
(* that is to be found first under another text.                           *)
Relabelled(e, labels) == [how |-> "relabelled", entry |-> e, labels |-> labels]
Inserted(e) == [how |-> "inserted", entry |-> e]
Alias(orth, e) == [how |-> "alias", entry |-> e, orth |-> orth]

Combined(left, separator, e) ==
  [e EXCEPT !.orth = left.orth \o separator \o @, !.lemma = left.lemma \o separator \o @]

Tagged(tags) == Each(entries, LAMBDA e : If(Tag(e) \in tags, <<e>>))

Standalone(h) ==
  Each(entries, LAMBDA e : If(KeptAlone(e, h), <<Relabelled(e, StandaloneLabels(e, h))>>))

AfterPrefix(h) ==
  Each(Tagged({"prefs"}), LAMBDA p : If(p.orth \in h.prefixes,
       Each(entries, LAMBDA e : If(FollowsPrefix(e, p),
         <<Relabelled(Combined([p EXCEPT !.lemma = p.orth], <<>>, e), PrefixedLabels(e, p, h))>>))))

Shifted ==
  Each(Tagged({"adja"}), LAMBDA a : Each(Tagged(AdjTags),
       LAMBDA e : <<Inserted(Combined([a EXCEPT !.lemma = a.orth], <<>>, e))>>))

CaseCandidate(e) == Tag(e) \notin {"prefs", "nie", "interp"}
Spelled(orth) == Each(entries, LAMBDA e : If(CaseCandidate(e) /\ e.orth = orth, <<e>>))
(* Texts with capitals, in the order in which they first occur. *)
MixedOrths ==
  Distinct(Each(entries, LAMBDA e : If(CaseCandidate(e) /\ ~IsLower(e.orth), <<e.orth>>)))

Aliases ==
  Each(MixedOrths, LAMBDA orth :
    LET lower == Spelled(Lowercase(orth))
    IN IF lower # <<>>
       THEN Each(Reverse(lower), LAMBDA e : <<Alias(orth, e)>>)
       ELSE Each(Reverse(Spelled(orth)), LAMBDA e : <<Alias(Lowercase(orth), e)>>))

(* An entry as a part of a compound: under its own and under other cases. *)
Variants(e) ==
  <<e>> \o
  IF IsLower(e.orth)
  THEN Each(MixedOrths, LAMBDA orth : If(Lowercase(orth) = e.orth, <<[e EXCEPT !.orth = orth]>>))
  ELSE IF Spelled(Lowercase(e.orth)) = <<>> THEN <<[e EXCEPT !.orth = Lowercase(@)]>> ELSE <<>>
PrefixVariants(p) ==
  IF ~IsLower(p.orth) THEN <<[p EXCEPT !.lemma = p.orth]>>
  ELSE IF Titlecase(p.orth) = p.orth THEN <<p>> ELSE <<p, [p EXCEPT !.orth = Titlecase(@)]>>

Compounds(lefts, separator) ==
  Each(lefts, LAMBDA left : Each(Tagged(SubstTags), LAMBDA e : Each(Variants(e),
       LAMBDA right : <<Combined(left, separator, right)>>)))
Prefixed(tag, separator) == Compounds(Each(Tagged({tag}), PrefixVariants), separator)
SubstDywizSubst ==
  Compounds(Each(Each(Tagged(SubstTags), Variants), LAMBDA l : <<[l EXCEPT !.lemma = LemmaBase(@)]>>),
            <<"-">>)

Derived(h) ==
  Standalone(h) \o AfterPrefix(h) \o If(h.shift, Shifted) \o Aliases
    \o Each(Distinct(If(h.prefsSubst, Prefixed("prefs", <<>>))
                       \o If(h.prefsDywizSubst, Prefixed("prefs", <<"-">>))
                       \o If(h.nieDywizSubst, Prefixed("nie", <<"-">>))
                       \o If(h.substDywizSubst, SubstDywizSubst)),
            LAMBDA e : <<Inserted(e)>>)
-----------------------------------------------------------------------------
DictionaryEnd ==
  /\ phase = "dictionary" /\ line > Len(source.dictionary)
  /\ ~Hinted
  /\ phase' = "ready"
  /\ UNCHANGED <<source, line, inSection, derived, dictionary>>

(* The hints make a dictionary of their own, which has the identifiers but *)
(* neither the name nor the copyright of the loaded one.                   *)
ApplyHints ==
  /\ phase = "dictionary" /\ line > Len(source.dictionary)
  /\ Hinted
  /\ phase' = "hints"
  /\ derived' = Derived(HintsOf(source.rules))
  /\ about' = [NoMetadata EXCEPT !.tagset = about.tagset]
  /\ entries' = <<>> /\ byOrth' = NoEntries /\ byKey' = NoEntries
  /\ UNCHANGED <<source, line, inSection, resolver>>

NextIs(how) == phase = "hints" /\ derived # <<>> /\ Head(derived).how = how

InsertRelabelled ==
  /\ NextIs("relabelled")
  /\ resolver' = [resolver EXCEPT !.labels = GetOrInsert(@, Head(derived).labels)]
  /\ Insert([Head(derived).entry EXCEPT
               !.labelsId = Id(resolver'.labels, Head(derived).labels)])
  /\ derived' = Tail(derived)
  /\ UNCHANGED <<source, phase, line, inSection, about>>

InsertCombined ==
  /\ NextIs("inserted")
  /\ Insert(Head(derived).entry)
  /\ derived' = Tail(derived)
  /\ UNCHANGED <<source, phase, line, inSection, resolver, about>>

InsertAlias ==
  /\ NextIs("alias")
  /\ byOrth' = Fronted(byOrth, Head(derived).orth, Head(derived).entry)
  /\ derived' = Tail(derived)
  /\ UNCHANGED <<source, phase, line, inSection, resolver, about, entries, byKey>>

HintsEnd ==
  /\ phase = "hints" /\ derived = <<>>
  /\ phase' = "ready"
  /\ UNCHANGED <<source, line, inSection, derived, dictionary>>

Load ==
  \/ TagsetLine \/ TagsetEnd
  \/ CopyrightLine \/ MetadataLine \/ ShortLine \/ EntryLine \/ DictionaryEnd
  \/ ApplyHints \/ InsertRelabelled \/ InsertCombined \/ InsertAlias \/ HintsEnd

Loads == DictInit /\ [][Load]_dictVars
-----------------------------------------------------------------------------
(* Whatever the files say of identifiers, in whatever order and however    *)
(* often, a tag, name or labels text that resolves to an identifier is the *)
(* text of this identifier: set_tag and get_or_insert_* keep the two       *)
(* halves of a table together.                                             *)
IdsSound == Sound(resolver.tags) /\ Sound(resolver.names) /\ Sound(resolver.labels)

Hidden(i) ==
  LET kind(j) == source.dictionary[j].kind
  IN \E j \in 1..i - 1 : kind(j) = "open" /\ \A k \in j + 1..i - 1 : kind(k) # "close"
EntryLines == {i \in 1..Len(source.dictionary) : source.dictionary[i].kind = "entry" /\ ~Hidden(i)}

(* The reading says of the text what the line says of its own, in full or  *)
(* as the end of a compound, up to case.                                   *)
ReadFrom(e, orth, l) ==
  /\ Tag(e) = l.tag
  /\ Text(resolver.names, e.nameId) = Normalized(l.name)
  /\ LabelsOf(e) = LabelSet(Canonical(l.labels))
  /\ IsSuffix(Lowercase(l.orth), Lowercase(orth))
  /\ IsSuffix(l.lemma, e.lemma)

(* Nothing is found that no line says: after the hints have relabelled,    *)
(* combined and renamed entries, and new labels have got identifiers, each *)
(* reading still has the tag, the name, the set of labels and the ends of  *)
(* text and lemma of one line that no copyright block hides.               *)
ReadingsFromLines ==
  \A orth \in DOMAIN byOrth : \A e \in ToSet(byOrth[orth]) :
    \E i \in EntryLines : ReadFrom(e, orth, source.dictionary[i])

(* Nothing is lost: without hints, every line outside a copyright block is *)
(* found by its text and generated from its lemma and its lemma's base.    *)
LinesFound ==
  phase = "ready" /\ ~Hinted =>
    \A i \in EntryLines :
      LET l == source.dictionary[i]
      IN \E e \in ToSet(Lookup(l.orth)) :
           /\ e.lemma = l.lemma /\ ReadFrom(e, l.orth, l)
           /\ EntryEdge(e, 0, 0, l.orth) \in Synthesized(l.lemma) \cap Synthesized(LemmaBase(l.lemma))
=============================================================================
